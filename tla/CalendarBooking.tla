--------------------------- MODULE CalendarBooking ---------------------------
(***************************************************************************)
(* Booking a calendar event from a call.  The voice agent posts book_event *)
(* to the tools API under an idempotency key; the API handler takes the    *)
(* key's row in idempotency_records, asks the credential broker to book,   *)
(* and either answers or leaves a row in calendar_booking_requests, which  *)
(* the recovery workers lease, reconcile with Google and finish.           *)
(*                                                                         *)
(* One key is one logical booking and so one Google event identifier (the  *)
(* hash of the key).  Wall-clock time is abstracted to what may happen: a  *)
(* lease or a lock may run out, a due row may be claimed.                  *)
(***************************************************************************)
EXTENDS Naturals

CONSTANTS Keys,         \* idempotency keys: the logical bookings
          NoKey,        \* "not working on any key"
          Slots,        \* calendar intervals that can be asked for
          SlotOf,       \* the interval each booking asks for
          Offered,      \* intervals on the availability grid, in opening hours
          Execs,        \* concurrent /tools/execute handlers
          Workers,      \* booking worker processes
          MaxAttempts,  \* booking_worker.MAX_ATTEMPTS
          MaxCrashes,   \* bound on process crashes (a bound of the model)
          Faults        \* the kinds of trouble this instance meets

(***************************************************************************)
(* outage: Google or its token endpoint answers 429/5xx or not at all.     *)
(* reject: Google answers another 4xx.   refuse: the broker answers 4xx.   *)
(* timeout: the broker's caller stops waiting while the broker goes on.    *)
(* dberror: a statement raises, applied or not.   crash: a process dies.   *)
(* stall: a process is held up past its lease or its lock's lifetime.      *)
(* owner: the calendar's owner edits the calendar or disconnects Google.    *)
(***************************************************************************)
FaultKinds == {"outage", "reject", "refuse", "timeout", "dberror", "crash",
               "stall", "owner"}

ASSUME BookingAssumption ==
    /\ NoKey \notin Keys
    /\ SlotOf \in [Keys -> Slots]
    /\ Offered \subseteq Slots
    /\ MaxAttempts \in Nat \ {0}
    /\ MaxCrashes \in Nat
    /\ Faults \subseteq FaultKinds

VARIABLES event,      \* Google: the event under each key's identifier
          busy,       \* Google: intervals the owner's other events take
          connected,  \* the company's Google credentials work
          resuming,   \* the OAuth callback still has to resume paused rows
          late,       \* book calls whose caller has gone, still running
          idem,       \* idempotency_records
          row,        \* calendar_booking_requests
          exec,       \* the tool handlers
          worker,     \* the recovery workers
          announced,  \* bookings reported to somebody as confirmed
          crashes

google == <<event, busy, connected>>
provider == <<google, late>>
vars == <<google, late, resuming, idem, row, exec, worker,
          announced, crashes>>

-----------------------------------------------------------------------------
EventStates == {"absent", "live", "cancelled"}
Results == {"none", "confirmed", "pending_confirmation", "needs_reconnect",
            "failed", "conflict", "error"}
Verdicts == {"none", "completed", "needs_reconnect", "pending", "failed",
             "slot_taken"}
RowStates == {"absent", "pending", "running", "completed", "failed",
              "needs_reconnect", "cancelled"}

IdemRecord == [status  : {"none", "acquired", "committed", "refunded"},
               payload : Results,
               expired : BOOLEAN]
Row == [status : RowStates, attempts : 0..MaxAttempts, leased : BOOLEAN,
        noBooking : BOOLEAN]
ExecState == [pc  : {"idle", "check", "insert", "queue", "commit", "release"},
              key : Keys \cup {NoKey},
              out : Results]
WorkerState == [pc  : {"idle", "status", "avail", "check", "insert", "write",
                       "rewrite"},
                key : Keys \cup {NoKey},
                attempt : 0..MaxAttempts,
                out : Verdicts]

IdleExec == [pc |-> "idle", key |-> NoKey, out |-> "none"]
IdleWorker == [pc |-> "idle", key |-> NoKey, attempt |-> 0, out |-> "none"]

TypeOK ==
    /\ event \in [Keys -> EventStates]
    /\ busy \subseteq Slots
    /\ connected \in BOOLEAN
    /\ resuming \in BOOLEAN
    /\ late \subseteq Keys \X {"check", "insert"}
    /\ idem \in [Keys -> IdemRecord]
    /\ row \in [Keys -> Row]
    /\ exec \in [Execs -> ExecState]
    /\ worker \in [Workers -> WorkerState]
    /\ announced \subseteq Keys
    /\ crashes \in 0..MaxCrashes

Init ==
    /\ event = [k \in Keys |-> "absent"]
    /\ busy \in SUBSET Slots
    /\ connected \in BOOLEAN
    /\ resuming = FALSE
    /\ late = {}
    /\ idem = [k \in Keys |-> [status |-> "none", payload |-> "none",
                               expired |-> FALSE]]
    /\ row = [k \in Keys |-> [status |-> "absent", attempts |-> 0,
                              leased |-> FALSE, noBooking |-> FALSE]]
    /\ exec = [e \in Execs |-> IdleExec]
    /\ worker = [w \in Workers |-> IdleWorker]
    /\ announced = {}
    /\ crashes = 0

-----------------------------------------------------------------------------
(***************************************************************************)
(* The broker and Google.                                                  *)
(***************************************************************************)
SlotBusy(s) == \/ s \in busy
               \/ \E k \in Keys : SlotOf[k] = s /\ event[k] = "live"

\* A transient failure; a token refresh that fails answers needs_reconnect.
Outages == IF "outage" \in Faults
           THEN {"temporarily_unavailable", "needs_reconnect"} ELSE {}
Rejections == IF "reject" \in Faults THEN {"failed"} ELSE {}

Refusals == IF "refuse" \in Faults THEN {"refused"} ELSE {}
Troubles == Rejections \cup Outages \cup
            (IF connected THEN {} ELSE {"needs_reconnect"})

\* What a read of the calendar can answer, given its answer when all is well.
ReadReplies(normal) == Troubles \cup (IF connected THEN {normal} ELSE {})

\* The freeBusy query the broker makes just before it writes.
FreeBusy(k) == IF SlotBusy(SlotOf[k]) THEN "conflict" ELSE "available"

\* Mutant: a 404 for the identifier is taken for an event.
BookStatusBlind(k) == IF event[k] = "cancelled" THEN "failed" ELSE "confirmed"

\* events.get under the key's identifier.
BookStatus(k) == CASE event[k] = "absent" -> "not_found"
                   [] event[k] = "live" -> "confirmed"
                   [] event[k] = "cancelled" -> "failed"

\* The free slots of the day, searched for the one that was asked for.
SlotSearch(k) == IF SlotOf[k] \in Offered /\ ~SlotBusy(SlotOf[k])
                 THEN "offered" ELSE "taken"

\* Mutant: an insert that gets no answer is reported as a booking.
InsertEventOptimistic(k, reply) ==
    /\ connected
    /\ reply = "confirmed"
    /\ late' = late \cup {<<k, "insert">>}
    /\ UNCHANGED <<event, busy, connected>>

(***************************************************************************)
(* The insert under the deterministic identifier and the reply the broker  *)
(* gives: a new event, its reply possibly lost; a request that fails       *)
(* without effect or is still on its way; a 409 answered from the event    *)
(* that is already there, any failure of that second look being temporary. *)
(***************************************************************************)
InsertEvent(k, reply) ==
    \/ /\ connected /\ event[k] = "absent"
       /\ event' = [event EXCEPT ![k] = "live"]
       /\ reply \in {"confirmed"} \cup (Outages \ {"needs_reconnect"})
       /\ UNCHANGED <<busy, connected, late>>
    \/ /\ connected /\ event[k] = "absent"
       /\ reply \in Outages \ {"needs_reconnect"}
       /\ late' = late \cup {<<k, "insert">>}
       /\ UNCHANGED <<event, busy, connected>>
    \/ /\ event[k] = "absent" /\ reply \in Troubles
       /\ UNCHANGED provider
    \/ /\ event[k] # "absent"
       /\ \/ reply \in ReadReplies(BookStatus(k))
          \/ reply = "temporarily_unavailable" /\ Troubles # {}
       /\ UNCHANGED provider

-----------------------------------------------------------------------------
(***************************************************************************)
(* POST /tools/execute for book_event.                                     *)
(***************************************************************************)
\* acquire_idempotency_lock.  A lock held and not run out answers
\* IDEMPOTENCY_CONFLICT and changes nothing.
ReplyFromCache(k) ==
    /\ idem[k].status = "committed"
    /\ idem[k].payload = "confirmed"
    /\ announced' = announced \cup {k}
    /\ UNCHANGED <<google, resuming, late, idem, row, exec, worker,
                   crashes>>

\* Mutant: a lock in use is taken over without waiting for it to run out.
AcquireLockBusy(e, k) ==
    /\ exec[e].pc = "idle"
    /\ idem[k].status # "committed"
    /\ idem' = [idem EXCEPT ![k] = [status |-> "acquired", payload |-> "none",
                                    expired |-> FALSE]]
    /\ exec' = [exec EXCEPT ![e] = [pc |-> "check", key |-> k, out |-> "none"]]
    /\ UNCHANGED <<provider, resuming, row, worker, announced, crashes>>

AcquireLock(e, k) ==
    /\ exec[e].pc = "idle"
    /\ \/ idem[k].status \in {"none", "refunded"}
       \/ idem[k].status = "acquired" /\ idem[k].expired
    /\ idem' = [idem EXCEPT ![k] = [status |-> "acquired", payload |-> "none",
                                    expired |-> FALSE]]
    /\ exec' = [exec EXCEPT ![e] = [pc |-> "check", key |-> k, out |-> "none"]]
    /\ UNCHANGED <<provider, resuming, row, worker, announced, crashes>>

\* What book_event makes of the broker's answer and execute_tool of the result.
Outcome(reply) == CASE reply = "temporarily_unavailable" -> "pending_confirmation"
                    [] reply = "refused" -> "error"
                    [] OTHER -> reply

StepAfter(reply) ==
    CASE reply \in {"temporarily_unavailable", "needs_reconnect"} -> "queue"
      [] reply \in {"conflict", "refused"} -> "release"
      [] OTHER -> "commit"

AfterBroker(e, reply) == exec' = [exec EXCEPT ![e].pc = StepAfter(reply),
                                              ![e].out = Outcome(reply)]

ExecCheck(e) ==
    /\ exec[e].pc = "check"
    /\ \E reply \in ReadReplies(FreeBusy(exec[e].key)) \cup Refusals :
          IF reply = "available"
          THEN exec' = [exec EXCEPT ![e].pc = "insert"]
          ELSE AfterBroker(e, reply)
    /\ UNCHANGED <<provider, resuming, idem, row, worker, announced, crashes>>

ExecInsert(e) ==
    /\ exec[e].pc = "insert"
    /\ \E reply \in Results \cup {"temporarily_unavailable"} :
          InsertEvent(exec[e].key, reply) /\ AfterBroker(e, reply)
    /\ UNCHANGED <<resuming, idem, row, worker, announced, crashes>>

\* broker_post gives up; the broker's handler does not know.
ExecTimeout(e) ==
    /\ "timeout" \in Faults
    /\ exec[e].pc \in {"check", "insert"}
    /\ late' = late \cup {<<exec[e].key, exec[e].pc>>}
    /\ AfterBroker(e, "temporarily_unavailable")
    /\ UNCHANGED <<google, resuming, idem, row, worker, announced,
                   crashes>>

\* Mutant: the initial status is not validated.
QueuedUnchecked(k, status) ==
    IF row[k].status = "absent"
    THEN [status |-> "temporarily_unavailable", attempts |-> 0,
          leased |-> FALSE, noBooking |-> FALSE]
    ELSE row[k]

\* The row create_booking_request leaves: an existing row is kept as it is.
Queued(k, status) ==
    IF row[k].status = "absent"
    THEN [status |-> status, attempts |-> 0, leased |-> FALSE,
          noBooking |-> FALSE]
    ELSE row[k]

\* execute_tool's except clause is entered.
Raise(e) == exec' = [exec EXCEPT ![e].pc = "release", ![e].out = "error"]

\* Mutant: a failed insert into the queue is swallowed.
ExecQueueSwallowing(e) ==
    /\ exec[e].pc = "queue"
    /\ exec' = [exec EXCEPT ![e].pc = "commit"]
    /\ UNCHANGED <<provider, resuming, idem, row, worker, announced, crashes>>

ExecQueue(e) ==
    /\ exec[e].pc = "queue"
    /\ LET k == exec[e].key
           status == IF exec[e].out = "needs_reconnect"
                     THEN "needs_reconnect" ELSE "pending"
       IN \/ /\ row' = [row EXCEPT ![k] = Queued(k, status)]
             /\ exec' = [exec EXCEPT ![e].pc = "commit"]
          \/ /\ "dberror" \in Faults
             /\ row' \in {row, [row EXCEPT ![k] = Queued(k, status)]}
             /\ Raise(e)
    /\ UNCHANGED <<provider, resuming, idem, worker, announced, crashes>>

\* commit_idempotency_lock: the update has no condition on the record's status.
Committed(k, out) == [idem EXCEPT ![k] = [status |-> "committed",
                                          payload |-> out, expired |-> FALSE]]

ExecCommit(e) ==
    /\ exec[e].pc = "commit"
    /\ LET k == exec[e].key
       IN \/ /\ idem' = Committed(k, exec[e].out)
             /\ exec' = [exec EXCEPT ![e] = IdleExec]
             /\ announced' = IF exec[e].out = "confirmed"
                             THEN announced \cup {k} ELSE announced
          \/ /\ "dberror" \in Faults
             /\ idem' \in {idem, Committed(k, exec[e].out)}
             /\ Raise(e)
             /\ UNCHANGED announced
    /\ UNCHANGED <<provider, resuming, row, worker, crashes>>

\* release_idempotency_lock: likewise unconditional.
Released(k) == [idem EXCEPT ![k].status = "refunded", ![k].expired = FALSE]

\* The reply is SLOT_CONFLICT or EXECUTION_ERROR.  A conflict's release is
\* inside the try: when it raises, applied or not, the except clause releases
\* once more.  One that raises in the except clause is answered with a 500.
ExecRelease(e) ==
    /\ exec[e].pc = "release"
    /\ LET k == exec[e].key
       IN \/ /\ idem' = Released(k)
             /\ exec' = [exec EXCEPT ![e] = IdleExec]
          \/ /\ "dberror" \in Faults
             /\ idem' \in {idem, Released(k)}
             /\ IF exec[e].out = "conflict"
                THEN Raise(e)
                ELSE exec' = [exec EXCEPT ![e] = IdleExec]
    /\ UNCHANGED <<provider, resuming, row, worker, announced, crashes>>

\* A process that dies in a book call leaves the broker to finish it.
Orphaned(p) == IF p.pc \in {"check", "insert"}
               THEN late \cup {<<p.key, p.pc>>} ELSE late

ExecCrash(e) ==
    /\ "crash" \in Faults /\ crashes < MaxCrashes
    /\ exec[e].pc # "idle"
    /\ crashes' = crashes + 1
    /\ late' = Orphaned(exec[e])
    /\ exec' = [exec EXCEPT ![e] = IdleExec]
    /\ UNCHANGED <<google, resuming, idem, row, worker, announced>>

\* Mutant: a lock without a lifetime.
IdemExpireNever(k) == FALSE /\ UNCHANGED vars

\* ttl_seconds outlasts a handler that is not held up.
IdemExpire(k) ==
    /\ idem[k].status = "acquired" /\ ~idem[k].expired
    /\ "stall" \in Faults \/ \A e \in Execs : exec[e].key # k
    /\ idem' = [idem EXCEPT ![k].expired = TRUE]
    /\ UNCHANGED <<provider, resuming, row, exec, worker, announced, crashes>>

-----------------------------------------------------------------------------
(***************************************************************************)
(* Book calls nobody waits for any more.                                   *)
(***************************************************************************)
LateCheck(k) ==
    /\ <<k, "check">> \in late
    /\ \E reply \in ReadReplies(FreeBusy(k)) :
          late' = (late \ {<<k, "check">>}) \cup
                  (IF reply = "available" THEN {<<k, "insert">>} ELSE {})
    /\ UNCHANGED <<google, resuming, idem, row, exec, worker,
                   announced, crashes>>

LateInsert(k) ==
    /\ <<k, "insert">> \in late
    /\ late' = late \ {<<k, "insert">>}
    /\ \/ event[k] = "absent" /\ event' = [event EXCEPT ![k] = "live"]
       \/ UNCHANGED event
    /\ UNCHANGED <<busy, connected, resuming, idem, row, exec, worker,
                   announced, crashes>>

-----------------------------------------------------------------------------
(***************************************************************************)
(* The recovery worker.                                                    *)
(***************************************************************************)
\* Mutant: the lease is not looked at.
ClaimableAlways(k) == row[k].status \in {"pending", "needs_reconnect", "running"}

\* The rows claim_one may pick: due, or running on a lease that ran out.
Claimable(k) == \/ row[k].status \in {"pending", "needs_reconnect"}
                \/ row[k].status = "running" /\ ~row[k].leased

\* attempt_count saturates: only attempt >= MAX_ATTEMPTS is ever asked of it.
NextAttempt(k) ==
    IF row[k].status = "needs_reconnect" \/ row[k].attempts = MaxAttempts
    THEN row[k].attempts ELSE row[k].attempts + 1

Claim(w, k) ==
    /\ worker[w].pc = "idle"
    /\ Claimable(k)
    /\ row' = [row EXCEPT ![k] = [status |-> "running",
                                  attempts |-> NextAttempt(k),
                                  leased |-> TRUE, noBooking |-> FALSE]]
    /\ worker' = [worker EXCEPT ![w] = [pc |-> "status", key |-> k,
                                        attempt |-> NextAttempt(k),
                                        out |-> "none"]]
    /\ UNCHANGED <<provider, resuming, idem, exec, announced, crashes>>

\* Mutant: no limit on the number of attempts.
VerdictUnlimited(reply, attempt) ==
    CASE reply = "confirmed" -> "completed"
      [] reply = "needs_reconnect" -> "needs_reconnect"
      [] reply = "temporarily_unavailable" -> "pending"
      [] reply = "taken" -> "slot_taken"
      [] OTHER -> "failed"

\* What process_booking_request makes of an answer that ends the attempt.
Verdict(reply, attempt) ==
    CASE reply = "confirmed" -> "completed"
      [] reply = "needs_reconnect" -> "needs_reconnect"
      [] reply = "temporarily_unavailable" /\ attempt < MaxAttempts -> "pending"
      [] reply = "taken" -> "slot_taken"
      [] OTHER -> "failed"

\* An exception's verdict is written by its handler ("rewrite").
Conclude(w, reply) ==
    worker' = [worker EXCEPT
        ![w].pc  = IF reply \in {"temporarily_unavailable", "refused"}
                   THEN "rewrite" ELSE "write",
        ![w].out = Verdict(reply, worker[w].attempt)]

Advance(w, pc) == worker' = [worker EXCEPT ![w].pc = pc]

\* broker_post raising 503 is handled as a temporary failure is.
Unanswered == IF "timeout" \in Faults THEN {"temporarily_unavailable"} ELSE {}

WorkerStatus(w) ==
    /\ worker[w].pc = "status"
    /\ \E reply \in ReadReplies(BookStatus(worker[w].key)) \cup Refusals
                       \cup Unanswered :
          IF reply \in {"not_found", "failed"}
          THEN Advance(w, "avail") ELSE Conclude(w, reply)
    /\ UNCHANGED <<provider, resuming, idem, row, exec, announced, crashes>>

WorkerAvailability(w) ==
    /\ worker[w].pc = "avail"
    /\ \E reply \in ReadReplies(SlotSearch(worker[w].key)) \cup Refusals
                       \cup Unanswered :
          IF reply = "offered" THEN Advance(w, "check") ELSE Conclude(w, reply)
    /\ UNCHANGED <<provider, resuming, idem, row, exec, announced, crashes>>

WorkerCheck(w) ==
    /\ worker[w].pc = "check"
    /\ \E reply \in ReadReplies(FreeBusy(worker[w].key)) \cup Refusals :
          IF reply = "available"
          THEN Advance(w, "insert") ELSE Conclude(w, reply)
    /\ UNCHANGED <<provider, resuming, idem, row, exec, announced, crashes>>

WorkerInsert(w) ==
    /\ worker[w].pc = "insert"
    /\ \E reply \in Results \cup {"temporarily_unavailable"} :
          InsertEvent(worker[w].key, reply) /\ Conclude(w, reply)
    /\ UNCHANGED <<resuming, idem, row, exec, announced, crashes>>

WorkerTimeout(w) ==
    /\ "timeout" \in Faults
    /\ worker[w].pc \in {"check", "insert"}
    /\ late' = late \cup {<<worker[w].key, worker[w].pc>>}
    /\ Conclude(w, "temporarily_unavailable")
    /\ UNCHANGED <<google, resuming, idem, row, exec, announced,
                   crashes>>

\* _write_result: conditioned on the row's id and on nothing else.
Written(w) ==
    [row EXCEPT ![worker[w].key] =
        [status |-> IF worker[w].out = "slot_taken" THEN "failed"
                    ELSE worker[w].out,
         attempts |-> row[worker[w].key].attempts,
         leased |-> FALSE,
         noBooking |-> worker[w].out = "slot_taken"]]

WorkerWrite(w) ==
    /\ worker[w].pc \in {"write", "rewrite"}
    /\ row' = Written(w)
    /\ announced' = announced \cup {k \in Keys : row'[k].status = "completed"}
    /\ worker' = [worker EXCEPT ![w] = IdleWorker]
    /\ UNCHANGED <<provider, resuming, idem, exec, crashes>>

\* A write that raises, applied or not, is handled as a failed attempt; one
\* that raises in an exception handler ends the process.
WorkerWriteFails(w) ==
    /\ "dberror" \in Faults
    /\ worker[w].pc \in {"write", "rewrite"}
    /\ row' \in {row, Written(w)}
    /\ IF worker[w].pc = "write"
       THEN worker' = [worker EXCEPT
                ![w].pc = "rewrite",
                ![w].out = Verdict("temporarily_unavailable", worker[w].attempt)]
       ELSE worker' = [worker EXCEPT ![w] = IdleWorker]
    /\ announced' = announced \cup {k \in Keys : row'[k].status = "completed"}
    /\ UNCHANGED <<provider, resuming, idem, exec, crashes>>

WorkerCrash(w) ==
    /\ "crash" \in Faults /\ crashes < MaxCrashes
    /\ worker[w].pc # "idle"
    /\ crashes' = crashes + 1
    /\ late' = Orphaned(worker[w])
    /\ worker' = [worker EXCEPT ![w] = IdleWorker]
    /\ UNCHANGED <<google, resuming, idem, row, exec, announced>>

\* LEASE_SECONDS outlasts the calls of a worker that is not held up.
LeaseExpire(k) ==
    /\ row[k].status = "running" /\ row[k].leased
    /\ "stall" \in Faults \/ \A w \in Workers : worker[w].key # k
    /\ row' = [row EXCEPT ![k].leased = FALSE]
    /\ UNCHANGED <<provider, resuming, idem, exec, worker, announced, crashes>>

-----------------------------------------------------------------------------
(***************************************************************************)
(* The client, who may cancel a waiting request, and the calendar's owner. *)
(***************************************************************************)
\* Mutant: a request a worker holds can be cancelled too.
CancelRunning(k) ==
    /\ row[k].status \in {"pending", "running", "needs_reconnect"}
    /\ row' = [row EXCEPT ![k].status = "cancelled", ![k].leased = FALSE,
                          ![k].noBooking = FALSE]
    /\ UNCHANGED <<provider, resuming, idem, exec, worker, announced, crashes>>

CancelRequest(k) ==
    /\ row[k].status \in {"pending", "needs_reconnect"}
    /\ row' = [row EXCEPT ![k].status = "cancelled", ![k].leased = FALSE,
                          ![k].noBooking = FALSE]
    /\ UNCHANGED <<provider, resuming, idem, exec, worker, announced, crashes>>

Disconnect ==
    /\ "owner" \in Faults
    /\ connected
    /\ connected' = FALSE
    /\ UNCHANGED <<event, busy, resuming, late, idem, row, exec, worker,
                   announced, crashes>>

\* The OAuth callback stores the tokens, then resumes the paused requests.
Reconnect ==
    /\ ~resuming
    /\ connected' = TRUE
    /\ resuming' = TRUE
    /\ UNCHANGED <<event, busy, late, idem, row, exec, worker, announced,
                   crashes>>

Resume ==
    /\ resuming
    /\ resuming' = FALSE
    /\ \/ row' = [k \in Keys |->
                     IF row[k].status = "needs_reconnect"
                     THEN [row[k] EXCEPT !.status = "pending", !.leased = FALSE,
                                         !.noBooking = FALSE]
                     ELSE row[k]]
       \/ "dberror" \in Faults /\ UNCHANGED row
    /\ UNCHANGED <<provider, idem, exec, worker, announced, crashes>>

DeleteEvent(k) ==
    /\ "owner" \in Faults
    /\ event[k] = "live"
    /\ event' = [event EXCEPT ![k] = "cancelled"]
    /\ UNCHANGED <<busy, connected, resuming, late, idem, row, exec, worker,
                   announced, crashes>>

\* The owner enters or removes an appointment of their own.
ChangeDiary(s) ==
    /\ "owner" \in Faults
    /\ busy' = IF s \in busy THEN busy \ {s} ELSE busy \cup {s}
    /\ UNCHANGED <<event, connected, resuming, late, idem, row, exec, worker,
                   announced, crashes>>

-----------------------------------------------------------------------------
ExecStep(e) == \/ ExecCheck(e) \/ ExecInsert(e) \/ ExecTimeout(e)
               \/ ExecQueue(e) \/ ExecCommit(e) \/ ExecRelease(e)

WorkerStep(w) == \/ WorkerStatus(w) \/ WorkerAvailability(w) \/ WorkerCheck(w)
                 \/ WorkerInsert(w) \/ WorkerTimeout(w)
                 \/ WorkerWrite(w) \/ WorkerWriteFails(w)

Next ==
    \/ \E e \in Execs : \/ \E k \in Keys : AcquireLock(e, k)
                        \/ ExecStep(e)
                        \/ ExecCrash(e)
    \/ \E w \in Workers : \/ \E k \in Keys : Claim(w, k)
                          \/ WorkerStep(w)
                          \/ WorkerCrash(w)
    \/ \E k \in Keys : \/ ReplyFromCache(k) \/ IdemExpire(k) \/ LeaseExpire(k)
                       \/ LateCheck(k) \/ LateInsert(k)
                       \/ CancelRequest(k) \/ DeleteEvent(k)
    \/ \E s \in Slots : ChangeDiary(s)
    \/ Disconnect \/ Reconnect \/ Resume

Spec == Init /\ [][Next]_vars

(***************************************************************************)
(* Handlers and workers run on, timers go off, the resume follows the      *)
(* callback; claim_one takes due rows oldest first, so no row is passed    *)
(* over for ever.  Nobody is obliged to ask, cancel, reconnect or fail.    *)
(***************************************************************************)
Fairness ==
    /\ \A e \in Execs : WF_vars(ExecStep(e))
    /\ \A w \in Workers : WF_vars(WorkerStep(w))
    /\ \A k \in Keys : /\ WF_vars(IdemExpire(k))
                       /\ WF_vars(LeaseExpire(k))
                       /\ SF_vars(\E w \in Workers : Claim(w, k))
    /\ WF_vars(Resume)

FairSpec == Spec /\ Fairness

-----------------------------------------------------------------------------
(***************************************************************************)
(* Truthful actions: whatever says that a booking is confirmed -- a reply, *)
(* the cached reply of the idempotency record, the queue row the client    *)
(* polls -- says so of an event Google has taken, although replies are     *)
(* lost, writes land late and several processes act on the same key.       *)
(***************************************************************************)
TruthfulConfirmation ==
    \A k \in Keys :
        \/ k \in announced
        \/ row[k].status = "completed"
        \/ idem[k].status = "committed" /\ idem[k].payload = "confirmed"
        => event[k] # "absent"

(***************************************************************************)
(* "I will retry it and update you": a request acknowledged as pending,    *)
(* now or in any replay, has a row in the recovery queue.                  *)
(***************************************************************************)
PromiseIsQueued ==
    \A k \in Keys :
        idem[k].status = "committed" /\ idem[k].payload = "pending_confirmation"
        => row[k].status # "absent"

(***************************************************************************)
(* The idempotency lock excludes: when no handler is held up past its      *)
(* lock's lifetime and the record's own writes succeed, two handlers are   *)
(* never at work on one booking, whatever crashes, is refused or goes      *)
(* unanswered.  (With failing writes the code does not exclude: a          *)
(* conflict's release that was applied and raised is repeated, and the     *)
(* second one frees the lock the next handler has taken since.)            *)
(***************************************************************************)
ExclusiveExecution ==
    {"stall", "dberror"} \cap Faults = {} =>
        \A e1, e2 \in Execs :
            exec[e1].key # NoKey /\ exec[e1].key = exec[e2].key => e1 = e2

(***************************************************************************)
(* The lease excludes: when no worker is held up past its lease and the    *)
(* queue's own writes succeed, a row in a worker's hands is running under  *)
(* a lease, and in no other worker's hands; so no client can cancel it and *)
(* nobody else can finish it.                                              *)
(***************************************************************************)
ExclusiveClaim ==
    {"stall", "dberror"} \cap Faults = {} =>
        \A w \in Workers : worker[w].key # NoKey =>
            /\ row[worker[w].key].status = "running"
            /\ row[worker[w].key].leased
            /\ \A v \in Workers : worker[v].key = worker[w].key => v = w

(***************************************************************************)
(* Under the same conditions a request that was completed, refused or      *)
(* cancelled is never reopened, and a committed reply is never withdrawn.  *)
(***************************************************************************)
SettledIsFinal ==
    [][{"stall", "dberror"} \cap Faults = {} =>
         \A k \in Keys :
            /\ row[k].status \in {"completed", "failed", "cancelled"}
               => row'[k] = row[k]
            /\ idem[k].status = "committed" => idem'[k] = idem[k]]_vars

(***************************************************************************)
(* A queued booking does not wait for ever: each is completed, refused,    *)
(* cancelled or waiting for its owner to reconnect, whatever the outages   *)
(* and (finitely many) crashes on the way.                                 *)
(***************************************************************************)
QueuedBookingSettles ==
    \A k \in Keys :
        row[k].status \in {"pending", "running"}
        ~> row[k].status \in {"completed", "failed", "cancelled",
                              "needs_reconnect"}

(***************************************************************************)
(* A key is not blocked for ever: a lock that was taken is committed,      *)
(* refunded or runs out, so that a retry gets the reply or a new attempt.  *)
(***************************************************************************)
LockIsFreed ==
    \A k \in Keys :
        idem[k].status = "acquired"
        ~> idem[k].status # "acquired" \/ idem[k].expired

\* The promise this design keeps, seen from outside.
Promise == INSTANCE BookingPromise
           WITH made <- {k \in Keys : event[k] # "absent"}
ImplementsPromise == Promise!Spec

-----------------------------------------------------------------------------
(***************************************************************************)
(* The message the worker stores when the slot is not on offer any more:   *)
(* "Please choose another time; no booking was made."                      *)
(***************************************************************************)
NoBookingWasMade == \A k \in Keys : row[k].noBooking => event[k] = "absent"

=============================================================================
