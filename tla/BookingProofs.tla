---------------------------- MODULE BookingProofs ----------------------------
(***************************************************************************)
(* Proofs about CalendarBooking for any set of bookings, handlers and      *)
(* workers and any combination of faults.                                  *)
(***************************************************************************)
EXTENDS CalendarBooking, TLAPS

-----------------------------------------------------------------------------
(***************************************************************************)
(* TypeOK is not inductive: the verdict a worker writes must be one the    *)
(* row's column admits, and a process at work must be working on a key.    *)
(***************************************************************************)
ActorsOK ==
    /\ \A e \in Execs : IF exec[e].pc = "idle" THEN exec[e] = IdleExec
                        ELSE exec[e].key \in Keys
    /\ \A w \in Workers : IF worker[w].pc = "idle" THEN worker[w] = IdleWorker
                          ELSE worker[w].key \in Keys
    /\ \A w \in Workers : worker[w].pc \in {"write", "rewrite"}
                          => worker[w].out # "none"

WellFormed == TypeOK /\ ActorsOK

\* What the broker's book call can answer.
BrokerReplies == {"confirmed", "temporarily_unavailable", "needs_reconnect",
                  "failed", "conflict", "refused"}

(***************************************************************************)
(* Reading the calendar answers with the normal answer or with a trouble.  *)
(***************************************************************************)
LEMMA ReadRange ==
    ASSUME NEW normal, NEW reply \in ReadReplies(normal)
    PROVE  reply \in {normal, "failed", "temporarily_unavailable",
                      "needs_reconnect"}
BY DEF ReadReplies, Troubles, Rejections, Outages

LEMMA RefusalRange == Refusals \subseteq {"refused"}
BY DEF Refusals

LEMMA UnansweredRange == Unanswered \subseteq {"temporarily_unavailable"}
BY DEF Unanswered

(***************************************************************************)
(* An insert creates at most the event of its own key, may leave a request *)
(* on its way, and answers "confirmed" only of an event that is there.     *)
(***************************************************************************)
LEMMA InsertEffect ==
    ASSUME TypeOK, NEW k \in Keys, NEW reply, InsertEvent(k, reply)
    PROVE  /\ UNCHANGED <<busy, connected>>
           /\ late' = late \/ late' = late \cup {<<k, "insert">>}
           /\ \/ event' = event
              \/ event[k] = "absent" /\ event' = [event EXCEPT ![k] = "live"]
           /\ reply \in BrokerReplies
           /\ reply = "confirmed" => event'[k] # "absent"
<1> USE DEF BrokerReplies
<1>1. CASE /\ connected /\ event[k] = "absent"
           /\ event' = [event EXCEPT ![k] = "live"]
           /\ reply \in {"confirmed"} \cup (Outages \ {"needs_reconnect"})
           /\ UNCHANGED <<busy, connected, late>>
  BY <1>1 DEF TypeOK, Outages
<1>2. CASE /\ connected /\ event[k] = "absent"
           /\ reply \in Outages \ {"needs_reconnect"}
           /\ late' = late \cup {<<k, "insert">>}
           /\ UNCHANGED <<event, busy, connected>>
  BY <1>2 DEF Outages
<1>3. CASE event[k] = "absent" /\ reply \in Troubles /\ UNCHANGED provider
  BY <1>3 DEF Troubles, Outages, Rejections, provider, google
<1>4. CASE /\ event[k] # "absent"
           /\ \/ reply \in ReadReplies(BookStatus(k))
              \/ reply = "temporarily_unavailable" /\ Troubles # {}
           /\ UNCHANGED provider
  <2>1. BookStatus(k) \in {"confirmed", "failed"}
    BY <1>4 DEF BookStatus, TypeOK, EventStates
  <2> QED BY <1>4, <2>1, ReadRange DEF provider, google
<1> QED BY <1>1, <1>2, <1>3, <1>4 DEF InsertEvent

LEMMA InsertType ==
    ASSUME TypeOK, NEW k \in Keys, NEW reply, InsertEvent(k, reply)
    PROVE  /\ event' \in [Keys -> EventStates]
           /\ late' \subseteq Keys \X {"check", "insert"}
           /\ busy' \subseteq Slots
           /\ connected' \in BOOLEAN
BY InsertEffect DEF TypeOK, EventStates

(***************************************************************************)
(* What the handler makes of an answer: a step and a result of its own.    *)
(***************************************************************************)
LEMMA OutcomeRange ==
    \A reply \in BrokerReplies :
        /\ Outcome(reply) \in Results \ {"none"}
        /\ StepAfter(reply) \in {"queue", "commit", "release"}
        /\ Outcome(reply) = "confirmed" => reply = "confirmed"
        /\ Outcome(reply) = "pending_confirmation" => StepAfter(reply) = "queue"
BY DEF Outcome, StepAfter, BrokerReplies, Results

LEMMA AfterBrokerEffect ==
    ASSUME TypeOK, NEW e \in Execs, NEW reply \in BrokerReplies,
           exec[e].key \in Keys, AfterBroker(e, reply)
    PROVE  /\ exec' \in [Execs -> ExecState]
           /\ exec'[e].pc \in {"queue", "commit", "release"}
           /\ exec'[e].key = exec[e].key
           /\ exec'[e].out = "confirmed" => reply = "confirmed"
           /\ exec'[e].out = "pending_confirmation" => exec'[e].pc = "queue"
           /\ \A f \in Execs : f # e => exec'[f] = exec[f]
<1> DEFINE pc == StepAfter(reply)
           out == Outcome(reply)
<1>1. /\ pc \in {"queue", "commit", "release"}
      /\ out \in Results
      /\ out = "confirmed" => reply = "confirmed"
      /\ out = "pending_confirmation" => pc = "queue"
  BY OutcomeRange
<1>2. exec' = [exec EXCEPT ![e].pc = pc, ![e].out = out]
  BY DEF AfterBroker
<1> HIDE DEF pc, out
<1> QED BY <1>1, <1>2 DEF TypeOK, ExecState

LEMMA RaiseEffect ==
    ASSUME TypeOK, NEW e \in Execs, exec[e].key \in Keys, Raise(e)
    PROVE  /\ exec' \in [Execs -> ExecState]
           /\ exec'[e].pc = "release" /\ exec'[e].out = "error"
           /\ exec'[e].key = exec[e].key
           /\ \A f \in Execs : f # e => exec'[f] = exec[f]
BY DEF TypeOK, Raise, ExecState, Results

LEMMA IdleEffect ==
    ASSUME TypeOK, NEW e \in Execs, exec' = [exec EXCEPT ![e] = IdleExec]
    PROVE  /\ exec' \in [Execs -> ExecState]
           /\ exec'[e] = IdleExec
           /\ exec'[e].pc = "idle"
           /\ \A f \in Execs : f # e => exec'[f] = exec[f]
<1>1. IdleExec \in ExecState /\ IdleExec.pc = "idle"
  BY DEF IdleExec, ExecState, Results
<1> QED BY <1>1 DEF TypeOK

(***************************************************************************)
(* What the worker makes of an answer: a verdict, on its way to the row.   *)
(***************************************************************************)
LEMMA VerdictRange ==
    \A reply, attempt :
        /\ Verdict(reply, attempt) \in Verdicts \ {"none"}
        /\ Verdict(reply, attempt) = "completed" => reply = "confirmed"
BY DEF Verdict, Verdicts

LEMMA VerdictTaken ==
    ASSUME TypeOK, NEW w \in Workers, NEW pc \in {"write", "rewrite"},
           NEW out \in Verdicts,
           worker' = [worker EXCEPT ![w].pc = pc, ![w].out = out]
    PROVE  /\ worker' \in [Workers -> WorkerState]
           /\ worker'[w].pc = pc
           /\ worker'[w].out = out
           /\ worker'[w].key = worker[w].key
           /\ \A v \in Workers : v # w => worker'[v] = worker[v]
BY DEF TypeOK, WorkerState

LEMMA ConcludeEffect ==
    ASSUME TypeOK, NEW w \in Workers, worker[w].key \in Keys, NEW reply,
           Conclude(w, reply)
    PROVE  /\ worker' \in [Workers -> WorkerState]
           /\ worker'[w].pc \in {"write", "rewrite"}
           /\ worker'[w].key = worker[w].key
           /\ worker'[w].out \in Verdicts \ {"none"}
           /\ worker'[w].out = "completed" => reply = "confirmed"
           /\ \A v \in Workers : v # w => worker'[v] = worker[v]
<1> DEFINE pc == IF reply \in {"temporarily_unavailable", "refused"}
                 THEN "rewrite" ELSE "write"
           out == Verdict(reply, worker[w].attempt)
<1>1. /\ pc \in {"write", "rewrite"}
      /\ out \in Verdicts \ {"none"}
      /\ out = "completed" => reply = "confirmed"
  BY VerdictRange
<1>2. worker' = [worker EXCEPT ![w].pc = pc, ![w].out = out]
  BY DEF Conclude
<1> HIDE DEF pc, out
<1> QED BY <1>1, <1>2 DEF TypeOK, WorkerState

LEMMA DoneEffect ==
    ASSUME TypeOK, NEW w \in Workers, worker' = [worker EXCEPT ![w] = IdleWorker]
    PROVE  /\ worker' \in [Workers -> WorkerState]
           /\ worker'[w] = IdleWorker
           /\ worker'[w].pc = "idle"
           /\ worker'[w].out = "none"
           /\ \A v \in Workers : v # w => worker'[v] = worker[v]
<1>1. /\ IdleWorker \in WorkerState
      /\ IdleWorker.pc = "idle" /\ IdleWorker.out = "none"
  BY BookingAssumption DEF IdleWorker, WorkerState, Verdicts
<1> QED BY <1>1 DEF TypeOK

LEMMA RewriteEffect ==
    ASSUME TypeOK, NEW w \in Workers, worker[w].key \in Keys, NEW attempt,
           worker' = [worker EXCEPT
                ![w].pc = "rewrite",
                ![w].out = Verdict("temporarily_unavailable", attempt)]
    PROVE  /\ worker' \in [Workers -> WorkerState]
           /\ worker'[w].pc = "rewrite"
           /\ worker'[w].key = worker[w].key
           /\ worker'[w].out \in {"pending", "failed"}
           /\ \A v \in Workers : v # w => worker'[v] = worker[v]
<1> DEFINE out == Verdict("temporarily_unavailable", attempt)
<1>1. out \in {"pending", "failed"} /\ out \in Verdicts
  BY DEF Verdict, Verdicts
<1> QED BY <1>1, VerdictTaken

LEMMA AdvanceEffect ==
    ASSUME TypeOK, NEW w \in Workers, worker[w].key \in Keys,
           NEW pc \in {"avail", "check", "insert"}, Advance(w, pc)
    PROVE  /\ worker' \in [Workers -> WorkerState]
           /\ worker'[w].pc = pc
           /\ worker'[w].key = worker[w].key
           /\ worker'[w].out = worker[w].out
           /\ \A v \in Workers : v # w => worker'[v] = worker[v]
BY DEF TypeOK, Advance, WorkerState

-----------------------------------------------------------------------------
(***************************************************************************)
(* WellFormed is preserved, action by action.  One handler or one worker   *)
(* moves at a time; that it stays well-formed is enough for them all.      *)
(***************************************************************************)
LEMMA OneHandlerMoves ==
    ASSUME ActorsOK, NEW e \in Execs, UNCHANGED worker,
           \A f \in Execs : f # e => exec'[f] = exec[f],
           exec'[e].pc = "idle" => exec'[e] = IdleExec,
           exec'[e].pc # "idle" => exec'[e].key \in Keys
    PROVE  ActorsOK'
BY DEF ActorsOK

LEMMA OneWorkerMoves ==
    ASSUME ActorsOK, NEW w \in Workers, UNCHANGED exec,
           \A v \in Workers : v # w => worker'[v] = worker[v],
           worker'[w].pc = "idle" => worker'[w] = IdleWorker,
           worker'[w].pc # "idle" => worker'[w].key \in Keys,
           worker'[w].pc \in {"write", "rewrite"} => worker'[w].out # "none"
    PROVE  ActorsOK'
BY DEF ActorsOK

LEMMA HandlerAtWork ==
    ASSUME WellFormed, NEW e \in Execs, exec[e].pc # "idle"
    PROVE  exec[e].key \in Keys
BY DEF WellFormed, ActorsOK

\* A handler that releases or dies: it is done, or has the except clause's
\* release before it, and a record it touched is refunded.
LEMMA LeavingEffect ==
    ASSUME WellFormed, NEW e \in Execs, ExecRelease(e) \/ ExecCrash(e)
    PROVE  /\ exec[e].key \in Keys
           /\ exec' \in [Execs -> ExecState]
           /\ exec'[e].pc = "idle" => exec'[e] = IdleExec
           /\ exec'[e].pc # "idle" => /\ exec'[e].key = exec[e].key
                                      /\ exec'[e].pc = "release"
           /\ exec'[e].out # "confirmed"
           /\ \A f \in Execs : f # e => exec'[f] = exec[f]
           /\ idem' \in [Keys -> IdemRecord]
           /\ \A k \in Keys : idem'[k] = idem[k] \/ idem'[k].status = "refunded"
           /\ UNCHANGED <<event, row, worker, announced>>
<1>0. TypeOK
  BY DEF WellFormed
<1>1. exec[e].key \in Keys
  BY HandlerAtWork DEF ExecRelease, ExecCrash
<1>2. exec' = [exec EXCEPT ![e] = IdleExec] \/ Raise(e)
  BY DEF ExecRelease, ExecCrash
<1>3. /\ idem' \in [Keys -> IdemRecord]
      /\ \A k \in Keys : idem'[k] = idem[k] \/ idem'[k].status = "refunded"
  <2>1. idem' = idem \/ idem' = Released(exec[e].key)
    BY DEF ExecRelease, ExecCrash
  <2> QED BY <1>0, <1>1, <2>1 DEF Released, TypeOK, IdemRecord
<1>4. UNCHANGED <<event, row, worker, announced>>
  BY DEF ExecRelease, ExecCrash, provider, google
<1>5. /\ exec' \in [Execs -> ExecState]
      /\ exec'[e].pc = "idle" => exec'[e] = IdleExec
      /\ exec'[e].pc # "idle" => /\ exec'[e].key = exec[e].key
                                 /\ exec'[e].pc = "release"
      /\ exec'[e].out # "confirmed"
      /\ \A f \in Execs : f # e => exec'[f] = exec[f]
  <2>1. CASE exec' = [exec EXCEPT ![e] = IdleExec]
    BY <1>0, <2>1, IdleEffect DEF IdleExec
  <2>2. CASE Raise(e)
    BY <1>0, <1>1, <2>2, RaiseEffect
  <2> QED BY <1>2, <2>1, <2>2
<1> QED BY <1>1, <1>3, <1>4, <1>5

LEMMA WorkerAtWork ==
    ASSUME WellFormed, NEW w \in Workers, worker[w].pc # "idle"
    PROVE  worker[w].key \in Keys
BY DEF WellFormed, ActorsOK

\* The pieces of TypeOK a handler's step can disturb.
LEMMA HandlerWellFormed ==
    ASSUME WellFormed, NEW e \in Execs
    PROVE  /\ \A k \in Keys : AcquireLock(e, k) => WellFormed'
           /\ ExecStep(e) \/ ExecCrash(e) => WellFormed'
<1> USE DEF provider, google
<1>0. TypeOK /\ ActorsOK
  BY DEF WellFormed
<1>1. ASSUME NEW k \in Keys, AcquireLock(e, k) PROVE WellFormed'
  <2>1. /\ exec' \in [Execs -> ExecState]
        /\ exec'[e].pc = "check" /\ exec'[e].key = k
        /\ \A f \in Execs : f # e => exec'[f] = exec[f]
    BY <1>0, <1>1 DEF AcquireLock, TypeOK, ExecState, Results
  <2>2. idem' \in [Keys -> IdemRecord]
    BY <1>0, <1>1 DEF AcquireLock, TypeOK, IdemRecord, Results
  <2>3. TypeOK'
    BY <1>0, <1>1, <2>1, <2>2 DEF AcquireLock, TypeOK
  <2>4. ActorsOK'
    BY <1>0, <1>1, <2>1, OneHandlerMoves DEF AcquireLock
  <2> QED BY <2>3, <2>4 DEF WellFormed
<1>2. CASE ExecCheck(e)
  <2>1. exec[e].key \in Keys
    BY <1>2, HandlerAtWork DEF ExecCheck
  <2>2. PICK reply \in ReadReplies(FreeBusy(exec[e].key)) \cup Refusals :
           IF reply = "available" THEN exec' = [exec EXCEPT ![e].pc = "insert"]
                                  ELSE AfterBroker(e, reply)
    BY <1>2 DEF ExecCheck
  <2>3. /\ exec' \in [Execs -> ExecState]
        /\ exec'[e].pc # "idle" /\ exec'[e].key \in Keys
        /\ \A f \in Execs : f # e => exec'[f] = exec[f]
    <3>1. CASE reply = "available"
      BY <1>0, <2>1, <2>2, <3>1 DEF TypeOK, ExecState
    <3>2. CASE reply # "available"
      <4>1. reply \in BrokerReplies
        BY <3>2, ReadRange, RefusalRange DEF FreeBusy, BrokerReplies
      <4> QED BY <1>0, <2>1, <2>2, <3>2, <4>1, AfterBrokerEffect
    <3> QED BY <3>1, <3>2
  <2>4. TypeOK'
    BY <1>0, <1>2, <2>3 DEF ExecCheck, TypeOK
  <2>5. ActorsOK'
    BY <1>0, <1>2, <2>3, OneHandlerMoves DEF ExecCheck
  <2> QED BY <2>4, <2>5 DEF WellFormed
<1>3. CASE ExecInsert(e)
  <2>1. exec[e].key \in Keys
    BY <1>3, HandlerAtWork DEF ExecInsert
  <2>2. PICK reply : InsertEvent(exec[e].key, reply) /\ AfterBroker(e, reply)
    BY <1>3 DEF ExecInsert
  <2>3. reply \in BrokerReplies
    BY <1>0, <2>1, <2>2, InsertEffect
  <2>4. /\ exec' \in [Execs -> ExecState]
        /\ exec'[e].pc # "idle" /\ exec'[e].key \in Keys
        /\ \A f \in Execs : f # e => exec'[f] = exec[f]
    BY <1>0, <2>1, <2>2, <2>3, AfterBrokerEffect
  <2>5. TypeOK'
    BY <1>0, <1>3, <2>1, <2>2, <2>4, InsertType DEF ExecInsert, TypeOK
  <2>6. ActorsOK'
    BY <1>0, <1>3, <2>4, OneHandlerMoves DEF ExecInsert
  <2> QED BY <2>5, <2>6 DEF WellFormed
<1>4. CASE ExecTimeout(e)
  <2>1. exec[e].key \in Keys
    BY <1>4, HandlerAtWork DEF ExecTimeout
  <2>2. /\ exec' \in [Execs -> ExecState]
        /\ exec'[e].pc # "idle" /\ exec'[e].key \in Keys
        /\ \A f \in Execs : f # e => exec'[f] = exec[f]
    BY <1>0, <1>4, <2>1, AfterBrokerEffect
       DEF ExecTimeout, BrokerReplies
  <2>3. late' \subseteq Keys \X {"check", "insert"}
    BY <1>0, <1>4, <2>1 DEF ExecTimeout, TypeOK
  <2>4. TypeOK'
    BY <1>0, <1>4, <2>2, <2>3 DEF ExecTimeout, TypeOK
  <2>5. ActorsOK'
    BY <1>0, <1>4, <2>2, OneHandlerMoves DEF ExecTimeout
  <2> QED BY <2>4, <2>5 DEF WellFormed
<1>5. CASE ExecQueue(e)
  <2>1. exec[e].key \in Keys
    BY <1>5, HandlerAtWork DEF ExecQueue
  <2>2. PICK status \in {"pending", "needs_reconnect"} :
           LET queued == [row EXCEPT ![exec[e].key] = Queued(exec[e].key, status)]
           IN \/ row' = queued /\ exec' = [exec EXCEPT ![e].pc = "commit"]
              \/ row' \in {row, queued} /\ Raise(e)
    BY <1>5 DEF ExecQueue
  <2>3. Queued(exec[e].key, status) \in Row
    BY <1>0, <2>1, BookingAssumption DEF Queued, TypeOK, Row, RowStates
  <2>4. /\ exec' \in [Execs -> ExecState]
        /\ exec'[e].pc # "idle" /\ exec'[e].key \in Keys
        /\ \A f \in Execs : f # e => exec'[f] = exec[f]
    <3>1. CASE exec' = [exec EXCEPT ![e].pc = "commit"]
      BY <1>0, <2>1, <3>1 DEF TypeOK, ExecState
    <3>2. CASE Raise(e)
      BY <1>0, <2>1, <3>2, RaiseEffect
    <3> QED BY <2>2, <3>1, <3>2
  <2>x. row' \in [Keys -> Row]
    BY <1>0, <2>1, <2>2, <2>3 DEF TypeOK
  <2>5. TypeOK'
    BY <1>0, <1>5, <2>4, <2>x DEF ExecQueue, TypeOK
  <2>6. ActorsOK'
    BY <1>0, <1>5, <2>4, OneHandlerMoves DEF ExecQueue
  <2> QED BY <2>5, <2>6 DEF WellFormed
<1>6. CASE ExecCommit(e)
  <2>1. exec[e].key \in Keys
    BY <1>6, HandlerAtWork DEF ExecCommit
  <2>2. /\ exec' \in [Execs -> ExecState]
        /\ exec'[e].pc = "idle" => exec'[e] = IdleExec
        /\ exec'[e].pc # "idle" => exec'[e].key \in Keys
        /\ \A f \in Execs : f # e => exec'[f] = exec[f]
    <3>1. CASE exec' = [exec EXCEPT ![e] = IdleExec]
      BY <1>0, <3>1, IdleEffect
    <3>2. CASE Raise(e)
      BY <1>0, <2>1, <3>2, RaiseEffect
    <3> QED BY <1>6, <3>1, <3>2 DEF ExecCommit
  <2>3. Committed(exec[e].key, exec[e].out) \in [Keys -> IdemRecord]
    BY <1>0, <2>1 DEF Committed, TypeOK, ExecState, IdemRecord
  <2>4. idem' \in [Keys -> IdemRecord] /\ announced' \subseteq Keys
    BY <1>0, <1>6, <2>1, <2>3 DEF ExecCommit, TypeOK
  <2>5. TypeOK'
    BY <1>0, <1>6, <2>2, <2>4 DEF ExecCommit, TypeOK
  <2>6. ActorsOK'
    BY <1>0, <1>6, <2>2, OneHandlerMoves DEF ExecCommit
  <2> QED BY <2>5, <2>6 DEF WellFormed
<1>7. CASE ExecRelease(e) \/ ExecCrash(e)
  <2>1. exec[e].key \in Keys
    BY <1>7, LeavingEffect
  <2>2. /\ exec' \in [Execs -> ExecState]
        /\ exec'[e].pc = "idle" => exec'[e] = IdleExec
        /\ exec'[e].pc # "idle" => exec'[e].key \in Keys
        /\ \A f \in Execs : f # e => exec'[f] = exec[f]
    BY <1>7, <2>1, LeavingEffect
  <2>3. idem' \in [Keys -> IdemRecord]
    BY <1>7, LeavingEffect
  <2>4. late' \subseteq Keys \X {"check", "insert"}
    BY <1>0, <1>7, <2>1 DEF ExecRelease, ExecCrash, Orphaned, TypeOK
  <2>5. crashes' \in 0..MaxCrashes
    BY <1>0, <1>7, BookingAssumption DEF ExecRelease, ExecCrash, TypeOK
  <2>6. TypeOK'
    BY <1>0, <1>7, <2>2, <2>3, <2>4, <2>5 DEF ExecRelease, ExecCrash, TypeOK
  <2>7. ActorsOK'
    BY <1>0, <1>7, <2>2, OneHandlerMoves DEF ExecRelease, ExecCrash
  <2> QED BY <2>6, <2>7 DEF WellFormed
<1> QED BY <1>1, <1>2, <1>3, <1>4, <1>5, <1>6, <1>7 DEF ExecStep

LEMMA WorkerWellFormed ==
    ASSUME WellFormed, NEW w \in Workers
    PROVE  /\ \A k \in Keys : Claim(w, k) => WellFormed'
           /\ WorkerStep(w) \/ WorkerCrash(w) => WellFormed'
<1> USE DEF provider, google
<1>0. TypeOK /\ ActorsOK
  BY DEF WellFormed
<1>1. ASSUME NEW k \in Keys, Claim(w, k) PROVE WellFormed'
  <2>1. NextAttempt(k) \in 0..MaxAttempts
    <3>1. row[k].attempts \in 0..MaxAttempts
      BY <1>0 DEF TypeOK, Row
    <3> QED BY <3>1, BookingAssumption DEF NextAttempt
  <2>2. /\ worker' \in [Workers -> WorkerState]
        /\ worker'[w].pc = "status" /\ worker'[w].key = k
        /\ \A v \in Workers : v # w => worker'[v] = worker[v]
    BY <1>0, <1>1, <2>1 DEF Claim, TypeOK, WorkerState, Verdicts
  <2>3. row' \in [Keys -> Row]
    BY <1>0, <1>1, <2>1 DEF Claim, TypeOK, Row, RowStates
  <2>4. TypeOK'
    BY <1>0, <1>1, <2>2, <2>3 DEF Claim, TypeOK
  <2>5. ActorsOK'
    BY <1>0, <1>1, <2>2, OneWorkerMoves DEF Claim
  <2> QED BY <2>4, <2>5 DEF WellFormed
\* A read of the calendar, or the last look before the insert.
<1>2. CASE WorkerStatus(w) \/ WorkerAvailability(w) \/ WorkerCheck(w)
  <2>1. worker[w].key \in Keys
    BY <1>2, WorkerAtWork DEF WorkerStatus, WorkerAvailability, WorkerCheck
  <2>2. \/ \E pc \in {"avail", "check", "insert"} : Advance(w, pc)
        \/ \E reply : Conclude(w, reply)
    BY <1>2 DEF WorkerStatus, WorkerAvailability, WorkerCheck
  <2>3. /\ worker' \in [Workers -> WorkerState]
        /\ worker'[w].pc # "idle" /\ worker'[w].key \in Keys
        /\ worker'[w].pc \in {"write", "rewrite"} => worker'[w].out # "none"
        /\ \A v \in Workers : v # w => worker'[v] = worker[v]
    BY <1>0, <2>1, <2>2, AdvanceEffect, ConcludeEffect
  <2>4. TypeOK'
    BY <1>0, <1>2, <2>3
       DEF WorkerStatus, WorkerAvailability, WorkerCheck, TypeOK
  <2>5. ActorsOK'
    BY <1>0, <1>2, <2>3, OneWorkerMoves
       DEF WorkerStatus, WorkerAvailability, WorkerCheck
  <2> QED BY <2>4, <2>5 DEF WellFormed
<1>3. CASE WorkerInsert(w) \/ WorkerTimeout(w)
  <2>1. worker[w].key \in Keys
    BY <1>3, WorkerAtWork DEF WorkerInsert, WorkerTimeout
  <2>2. /\ \E reply : Conclude(w, reply)
        /\ UNCHANGED <<resuming, idem, row, exec, announced, crashes>>
    BY <1>3 DEF WorkerInsert, WorkerTimeout
  <2>3. /\ worker' \in [Workers -> WorkerState]
        /\ worker'[w].pc # "idle" /\ worker'[w].key \in Keys
        /\ worker'[w].pc \in {"write", "rewrite"} => worker'[w].out # "none"
        /\ \A v \in Workers : v # w => worker'[v] = worker[v]
    BY <1>0, <2>1, <2>2, ConcludeEffect
  <2>4. /\ event' \in [Keys -> EventStates]
        /\ late' \subseteq Keys \X {"check", "insert"}
        /\ busy' \subseteq Slots
        /\ connected' \in BOOLEAN
    <3>1. CASE WorkerInsert(w)
      BY <1>0, <2>1, <3>1, InsertType DEF WorkerInsert
    <3>2. CASE WorkerTimeout(w)
      BY <1>0, <2>1, <3>2 DEF WorkerTimeout, TypeOK
    <3> QED BY <1>3, <3>1, <3>2
  <2>5. TypeOK'
    BY <1>0, <2>2, <2>3, <2>4 DEF TypeOK
  <2>6. ActorsOK'
    BY <1>0, <2>2, <2>3, OneWorkerMoves
  <2> QED BY <2>5, <2>6 DEF WellFormed
<1>4. CASE WorkerWrite(w) \/ WorkerWriteFails(w)
  <2>1. worker[w].key \in Keys
    BY <1>4, WorkerAtWork DEF WorkerWrite, WorkerWriteFails
  <2>2. Written(w) \in [Keys -> Row]
    <3>1. worker[w].out \in Verdicts \ {"none"}
      BY <1>0, <1>4 DEF WorkerWrite, WorkerWriteFails, TypeOK, ActorsOK,
                        WorkerState
    <3> QED BY <1>0, <2>1, <3>1 DEF Written, TypeOK, Row, RowStates, Verdicts
  <2>3. row' \in [Keys -> Row] /\ announced' \subseteq Keys
    BY <1>0, <1>4, <2>2 DEF WorkerWrite, WorkerWriteFails, TypeOK
  <2>4. /\ worker' \in [Workers -> WorkerState]
        /\ worker'[w].pc = "idle" => worker'[w] = IdleWorker
        /\ worker'[w].pc # "idle" => worker'[w].key \in Keys
        /\ worker'[w].pc \in {"write", "rewrite"} => worker'[w].out # "none"
        /\ \A v \in Workers : v # w => worker'[v] = worker[v]
    <3>1. CASE worker' = [worker EXCEPT ![w] = IdleWorker]
      BY <1>0, <3>1, DoneEffect
    <3>2. CASE worker' = [worker EXCEPT
                ![w].pc = "rewrite",
                ![w].out = Verdict("temporarily_unavailable", worker[w].attempt)]
      BY <1>0, <2>1, <3>2, RewriteEffect
    <3> QED BY <1>4, <3>1, <3>2 DEF WorkerWrite, WorkerWriteFails
  <2>5. TypeOK'
    BY <1>0, <1>4, <2>3, <2>4 DEF WorkerWrite, WorkerWriteFails, TypeOK
  <2>6. ActorsOK'
    BY <1>0, <1>4, <2>4, OneWorkerMoves DEF WorkerWrite, WorkerWriteFails
  <2> QED BY <2>5, <2>6 DEF WellFormed
<1>5. CASE WorkerCrash(w)
  <2>1. worker[w].key \in Keys
    BY <1>5, WorkerAtWork DEF WorkerCrash
  <2>2. /\ worker' \in [Workers -> WorkerState]
        /\ worker'[w] = IdleWorker
        /\ worker'[w].pc = "idle"
        /\ \A v \in Workers : v # w => worker'[v] = worker[v]
    BY <1>0, <1>5, DoneEffect DEF WorkerCrash
  <2>3. late' \subseteq Keys \X {"check", "insert"}
    BY <1>0, <1>5, <2>1 DEF WorkerCrash, Orphaned, TypeOK
  <2>4. crashes' \in 0..MaxCrashes
    BY <1>0, <1>5, BookingAssumption DEF WorkerCrash, TypeOK
  <2>5. TypeOK'
    BY <1>0, <1>5, <2>2, <2>3, <2>4 DEF WorkerCrash, TypeOK
  <2>6. ActorsOK'
    BY <1>0, <1>5, <2>2, OneWorkerMoves DEF WorkerCrash
  <2> QED BY <2>5, <2>6 DEF WellFormed
<1> QED BY <1>1, <1>2, <1>3, <1>4, <1>5 DEF WorkerStep

(***************************************************************************)
(* The rest of the world: clocks, the broker, the client, the owner.       *)
(***************************************************************************)
WorldStep ==
    \/ \E k \in Keys : \/ ReplyFromCache(k) \/ IdemExpire(k) \/ LeaseExpire(k)
                       \/ LateCheck(k) \/ LateInsert(k)
                       \/ CancelRequest(k) \/ DeleteEvent(k)
    \/ \E s \in Slots : ChangeDiary(s)
    \/ Disconnect \/ Reconnect \/ Resume

LEMMA WorldWellFormed ==
    ASSUME WellFormed, WorldStep
    PROVE  WellFormed'
<1> USE DEF provider, google
<1>0. TypeOK /\ ActorsOK
  BY DEF WellFormed
<1>1. UNCHANGED <<exec, worker, crashes>>
  BY DEF WorldStep, ReplyFromCache, IdemExpire, LeaseExpire, LateCheck,
         LateInsert, CancelRequest, DeleteEvent, ChangeDiary, Disconnect,
         Reconnect, Resume
<1>2. ActorsOK'
  BY <1>0, <1>1 DEF ActorsOK
<1>3. TypeOK'
  <2>1. ASSUME NEW k \in Keys, ReplyFromCache(k) \/ IdemExpire(k) PROVE TypeOK'
    <3>1. idem' \in [Keys -> IdemRecord] /\ announced' \subseteq Keys
      <4>1. CASE ReplyFromCache(k)
        BY <1>0, <4>1 DEF ReplyFromCache, TypeOK
      <4>2. CASE IdemExpire(k)
        BY <1>0, <4>2 DEF IdemExpire, TypeOK, IdemRecord
      <4> QED BY <2>1, <4>1, <4>2
    <3> QED BY <1>0, <2>1, <3>1 DEF ReplyFromCache, IdemExpire, TypeOK
  <2>2. ASSUME NEW k \in Keys, LeaseExpire(k) \/ CancelRequest(k) PROVE TypeOK'
    <3>1. row' \in [Keys -> Row]
      <4>1. CASE LeaseExpire(k)
        BY <1>0, <4>1 DEF LeaseExpire, TypeOK, Row
      <4>2. CASE CancelRequest(k)
        <5> DEFINE cancelled == [row[k] EXCEPT !.status = "cancelled",
                                               !.leased = FALSE,
                                               !.noBooking = FALSE]
        <5>1. cancelled \in Row
          BY <1>0 DEF TypeOK, Row, RowStates
        <5>2. row' = [row EXCEPT ![k] = cancelled]
          BY <4>2 DEF CancelRequest
        <5> HIDE DEF cancelled
        <5> QED BY <1>0, <5>1, <5>2 DEF TypeOK
      <4> QED BY <2>2, <4>1, <4>2
    <3> QED BY <1>0, <2>2, <3>1 DEF LeaseExpire, CancelRequest, TypeOK
  <2>3. ASSUME NEW k \in Keys, LateCheck(k) PROVE TypeOK'
    BY <1>0, <2>3 DEF LateCheck, TypeOK
  <2>4. ASSUME NEW k \in Keys, LateInsert(k) \/ DeleteEvent(k) PROVE TypeOK'
    BY <1>0, <2>4 DEF LateInsert, DeleteEvent, TypeOK, EventStates
  <2>5. ASSUME NEW s \in Slots, ChangeDiary(s) PROVE TypeOK'
    BY <1>0, <2>5 DEF ChangeDiary, TypeOK
  <2>6. CASE Disconnect \/ Reconnect
    BY <1>0, <2>6 DEF Disconnect, Reconnect, TypeOK
  <2>7. CASE Resume
    <3>1. row' \in [Keys -> Row]
      <4>1. \A k \in Keys : [row[k] EXCEPT !.status = "pending", !.leased = FALSE,
                                         !.noBooking = FALSE] \in Row
        BY <1>0 DEF TypeOK, Row, RowStates
      <4> QED BY <1>0, <2>7, <4>1 DEF Resume, TypeOK
    <3> QED BY <1>0, <2>7, <3>1 DEF Resume, TypeOK
  <2> QED BY <2>1, <2>2, <2>3, <2>4, <2>5, <2>6, <2>7 DEF WorldStep
<1> QED BY <1>2, <1>3 DEF WellFormed

LEMMA WellFormedInductive == Spec => []WellFormed
<1>1. Init => WellFormed
  <2>1. IdleExec \in ExecState /\ IdleWorker \in WorkerState
    BY BookingAssumption
       DEF IdleExec, IdleWorker, ExecState, WorkerState, Results, Verdicts
  <2>2. IdleExec.pc = "idle" /\ IdleWorker.pc = "idle"
    BY DEF IdleExec, IdleWorker
  <2>3. Init => TypeOK
    <3>1. [status |-> "none", payload |-> "none", expired |-> FALSE] \in IdemRecord
      BY DEF IdemRecord, Results
    <3>2. [status |-> "absent", attempts |-> 0, leased |-> FALSE,
           noBooking |-> FALSE] \in Row
      BY BookingAssumption DEF Row, RowStates
    <3>3. "absent" \in EventStates /\ 0 \in 0..MaxCrashes
      BY BookingAssumption DEF EventStates
    <3> QED BY <2>1, <3>1, <3>2, <3>3 DEF Init, TypeOK
  <2>4. Init => ActorsOK
    BY <2>2 DEF Init, ActorsOK
  <2> QED BY <2>3, <2>4 DEF WellFormed
<1>2. WellFormed /\ [Next]_vars => WellFormed'
  <2> SUFFICES ASSUME WellFormed, [Next]_vars PROVE WellFormed'
    OBVIOUS
  <2>1. CASE UNCHANGED vars
    BY <2>1 DEF vars, google, WellFormed, TypeOK, ActorsOK
  <2>2. ASSUME NEW e \in Execs,
               (\E k \in Keys : AcquireLock(e, k)) \/ ExecStep(e) \/ ExecCrash(e)
        PROVE  WellFormed'
    BY <2>2, HandlerWellFormed
  <2>3. ASSUME NEW w \in Workers,
               (\E k \in Keys : Claim(w, k)) \/ WorkerStep(w) \/ WorkerCrash(w)
        PROVE  WellFormed'
    BY <2>3, WorkerWellFormed
  <2>4. CASE WorldStep
    BY <2>4, WorldWellFormed
  <2> QED BY <2>1, <2>2, <2>3, <2>4 DEF Next, WorldStep
<1> QED BY <1>1, <1>2, PTL DEF Spec

(***************************************************************************)
(* Type correctness: the records the code keeps stay in the domains its    *)
(* columns allow, the CHECK on calendar_booking_requests.status included.  *)
(***************************************************************************)
THEOREM TypeCorrect == Spec => []TypeOK
BY WellFormedInductive, PTL DEF WellFormed

-----------------------------------------------------------------------------
(***************************************************************************)
(* Truthful confirmation.  The answers still on their way have to be true  *)
(* as well, for they are what the next write repeats; and what was said is *)
(* never unsaid, because an event, once made, leaves at least a cancelled  *)
(* one under its identifier.  Being told of a completed row is part of it. *)
(***************************************************************************)
TruthfulAnswers ==
    /\ \A e \in Execs : exec[e].out = "confirmed" => event[exec[e].key] # "absent"
    /\ \A w \in Workers : worker[w].out = "completed"
                          => event[worker[w].key] # "absent"

CompletedIsAnnounced ==
    \A k \in Keys : row[k].status = "completed" => k \in announced

Grounded == TruthfulConfirmation /\ TruthfulAnswers /\ CompletedIsAnnounced

\* Everything newly claimed by a step is backed by an event after it.
NewlyBacked ==
    /\ \A k \in Keys : event[k] # "absent" => event'[k] # "absent"
    /\ \A k \in Keys : k \in announced => k \in announced'
    /\ \A k \in Keys : k \in announced' => k \in announced \/ event'[k] # "absent"
    /\ \A k \in Keys : row'[k].status = "completed"
                       => row[k].status = "completed" \/ k \in announced'
    /\ \A k \in Keys : idem'[k].status = "committed" /\ idem'[k].payload = "confirmed"
                       => \/ idem[k].status = "committed" /\ idem[k].payload = "confirmed"
                          \/ event'[k] # "absent"
    /\ \A e \in Execs : exec'[e].out = "confirmed"
                        => exec'[e] = exec[e] \/ event'[exec'[e].key] # "absent"
    /\ \A w \in Workers : worker'[w].out = "completed"
          => \/ worker'[w].out = worker[w].out /\ worker'[w].key = worker[w].key
             \/ event'[worker'[w].key] # "absent"

LEMMA AnswersHaveKeys ==
    ASSUME WellFormed
    PROVE  /\ \A e \in Execs : exec[e].out = "confirmed" => exec[e].key \in Keys
           /\ \A w \in Workers : worker[w].out = "completed"
                                 => worker[w].key \in Keys
<1>1. IdleExec.out # "confirmed" /\ IdleWorker.out # "completed"
  BY DEF IdleExec, IdleWorker
<1> QED BY <1>1 DEF WellFormed, ActorsOK

LEMMA GroundedStep ==
    ASSUME WellFormed, Grounded, NewlyBacked
    PROVE  Grounded'
<1> USE DEF NewlyBacked
<1>1. TruthfulAnswers'
  <2>1. ASSUME NEW e \in Execs, exec'[e].out = "confirmed"
        PROVE  event'[exec'[e].key] # "absent"
    BY <2>1, AnswersHaveKeys DEF Grounded, TruthfulAnswers
  <2>2. ASSUME NEW w \in Workers, worker'[w].out = "completed"
        PROVE  event'[worker'[w].key] # "absent"
    BY <2>2, AnswersHaveKeys DEF Grounded, TruthfulAnswers
  <2> QED BY <2>1, <2>2 DEF TruthfulAnswers
<1>2. CompletedIsAnnounced'
  BY DEF Grounded, CompletedIsAnnounced
<1>3. TruthfulConfirmation'
  <2>1. ASSUME NEW k \in Keys, k \in announced' PROVE event'[k] # "absent"
    BY <2>1 DEF Grounded, TruthfulConfirmation
  <2>2. ASSUME NEW k \in Keys, row'[k].status = "completed"
        PROVE  event'[k] # "absent"
    BY <2>1, <2>2, <1>2 DEF CompletedIsAnnounced
  <2>3. ASSUME NEW k \in Keys,
               idem'[k].status = "committed", idem'[k].payload = "confirmed"
        PROVE  event'[k] # "absent"
    BY <2>3 DEF Grounded, TruthfulConfirmation
  <2> QED BY <2>1, <2>2, <2>3 DEF TruthfulConfirmation
<1> QED BY <1>1, <1>2, <1>3 DEF Grounded

LEMMA HandlerBacks ==
    ASSUME WellFormed, Grounded, NEW e \in Execs
    PROVE  /\ \A k \in Keys : AcquireLock(e, k) => NewlyBacked
           /\ ExecStep(e) \/ ExecCrash(e) => NewlyBacked
<1> USE DEF provider, google
<1>0. TypeOK /\ ActorsOK
  BY DEF WellFormed
<1>1. ASSUME NEW k \in Keys, AcquireLock(e, k) PROVE NewlyBacked
  <2>1. /\ exec'[e].out = "none"
        /\ \A f \in Execs : f # e => exec'[f] = exec[f]
    BY <1>0, <1>1 DEF AcquireLock, TypeOK
  <2>2. \A j \in Keys : j = k \/ idem'[j] = idem[j]
    BY <1>0, <1>1 DEF AcquireLock, TypeOK
  <2>3. idem'[k].status = "acquired"
    BY <1>0, <1>1 DEF AcquireLock, TypeOK
  <2> QED BY <1>1, <2>1, <2>2, <2>3 DEF AcquireLock, NewlyBacked
<1>2. CASE ExecCheck(e)
  <2>1. exec[e].key \in Keys
    BY <1>2, HandlerAtWork DEF ExecCheck
  <2>2. PICK reply \in ReadReplies(FreeBusy(exec[e].key)) \cup Refusals :
           IF reply = "available" THEN exec' = [exec EXCEPT ![e].pc = "insert"]
                                  ELSE AfterBroker(e, reply)
    BY <1>2 DEF ExecCheck
  <2>3. /\ exec'[e].out = "confirmed" => event[exec'[e].key] # "absent"
        /\ \A f \in Execs : f # e => exec'[f] = exec[f]
    <3>1. CASE reply = "available"
      <4>1. exec'[e].out = exec[e].out /\ exec'[e].key = exec[e].key
        BY <1>0, <2>2, <3>1 DEF TypeOK, ExecState
      <4> QED BY <1>0, <2>2, <3>1, <4>1 DEF TypeOK, Grounded, TruthfulAnswers
    <3>2. CASE reply # "available"
      <4>1. reply \in {"conflict", "refused", "failed", "temporarily_unavailable",
                       "needs_reconnect"}
        BY <3>2, ReadRange, RefusalRange DEF FreeBusy
      <4>2. AfterBroker(e, reply)
        BY <2>2, <3>2
      <4> QED BY <1>0, <2>1, <4>1, <4>2, AfterBrokerEffect DEF BrokerReplies
    <3> QED BY <3>1, <3>2
  <2>4. UNCHANGED <<event, idem, row, worker, announced>>
    BY <1>2 DEF ExecCheck
  <2> QED BY <2>3, <2>4 DEF NewlyBacked
<1>3. CASE ExecInsert(e)
  <2>1. exec[e].key \in Keys
    BY <1>3, HandlerAtWork DEF ExecInsert
  <2>2. PICK reply : InsertEvent(exec[e].key, reply) /\ AfterBroker(e, reply)
    BY <1>3 DEF ExecInsert
  <2>3. /\ reply \in BrokerReplies
        /\ reply = "confirmed" => event'[exec[e].key] # "absent"
        /\ \A k \in Keys : event[k] # "absent" => event'[k] # "absent"
    BY <1>0, <2>1, <2>2, InsertEffect DEF TypeOK
  <2>4. /\ exec'[e].out = "confirmed" => event'[exec'[e].key] # "absent"
        /\ \A f \in Execs : f # e => exec'[f] = exec[f]
    BY <1>0, <2>1, <2>2, <2>3, AfterBrokerEffect
  <2> QED BY <1>3, <2>3, <2>4 DEF ExecInsert, NewlyBacked
<1>4. CASE ExecTimeout(e)
  <2>1. exec[e].key \in Keys
    BY <1>4, HandlerAtWork DEF ExecTimeout
  <2>2. /\ exec'[e].out # "confirmed"
        /\ \A f \in Execs : f # e => exec'[f] = exec[f]
    BY <1>0, <1>4, <2>1, AfterBrokerEffect DEF ExecTimeout, BrokerReplies
  <2> QED BY <1>4, <2>2 DEF ExecTimeout, NewlyBacked
<1>5. CASE ExecQueue(e)
  <2>1. exec[e].key \in Keys
    BY <1>5, HandlerAtWork DEF ExecQueue
  <2>2. /\ exec'[e].out = "confirmed" => event[exec'[e].key] # "absent"
        /\ \A f \in Execs : f # e => exec'[f] = exec[f]
    <3>1. CASE exec' = [exec EXCEPT ![e].pc = "commit"]
      <4>1. exec'[e].out = exec[e].out /\ exec'[e].key = exec[e].key
        BY <1>0, <3>1 DEF TypeOK, ExecState
      <4> QED BY <1>0, <3>1, <4>1 DEF TypeOK, Grounded, TruthfulAnswers
    <3>2. CASE Raise(e)
      BY <1>0, <2>1, <3>2, RaiseEffect
    <3> QED BY <1>5, <3>1, <3>2 DEF ExecQueue
  <2>3. \A k \in Keys : row'[k].status = "completed" => row[k].status = "completed"
    <3>1. ASSUME NEW status \in {"pending", "needs_reconnect"}
          PROVE  Queued(exec[e].key, status).status = "completed"
                 => row[exec[e].key].status = "completed"
      BY DEF Queued
    <3> QED BY <1>0, <1>5, <2>1, <3>1 DEF ExecQueue, TypeOK
  <2> QED BY <1>5, <2>2, <2>3 DEF ExecQueue, NewlyBacked
<1>6. CASE ExecCommit(e)
  <2> DEFINE k == exec[e].key
  <2>1. k \in Keys
    BY <1>6, HandlerAtWork DEF ExecCommit
  <2>2. /\ exec'[e].out # "confirmed"
        /\ \A f \in Execs : f # e => exec'[f] = exec[f]
    <3>1. CASE exec' = [exec EXCEPT ![e] = IdleExec]
      BY <1>0, <3>1, IdleEffect DEF IdleExec
    <3>2. CASE Raise(e)
      BY <1>0, <2>1, <3>2, RaiseEffect
    <3> QED BY <1>6, <3>1, <3>2 DEF ExecCommit
  <2>3. exec[e].out = "confirmed" => event[k] # "absent"
    BY DEF Grounded, TruthfulAnswers
  <2>4. /\ Committed(k, exec[e].out)[k].payload = exec[e].out
        /\ \A j \in Keys : j # k => Committed(k, exec[e].out)[j] = idem[j]
    BY <1>0, <2>1 DEF Committed, TypeOK
  <2>5. /\ announced \subseteq announced'
        /\ announced' \subseteq announced \cup {j \in Keys : event[j] # "absent"}
    BY <1>6, <2>1, <2>3 DEF ExecCommit
  <2>6. idem' = idem \/ idem' = Committed(k, exec[e].out)
    BY <1>6 DEF ExecCommit
  <2>7. UNCHANGED <<event, row, worker>>
    BY <1>6 DEF ExecCommit
  <2> HIDE DEF k
  <2> QED BY <2>2, <2>3, <2>4, <2>5, <2>6, <2>7 DEF NewlyBacked
<1>7. CASE ExecRelease(e) \/ ExecCrash(e)
  <2>1. exec[e].key \in Keys
    BY <1>7, LeavingEffect
  <2>2. /\ exec'[e].out # "confirmed"
        /\ \A f \in Execs : f # e => exec'[f] = exec[f]
    BY <1>7, LeavingEffect
  <2>3. \A k \in Keys : idem'[k] = idem[k] \/ idem'[k].status = "refunded"
    BY <1>7, LeavingEffect
  <2>4. UNCHANGED <<event, row, worker, announced>>
    BY <1>7, LeavingEffect
  <2> QED BY <2>2, <2>3, <2>4 DEF NewlyBacked
<1> QED BY <1>1, <1>2, <1>3, <1>4, <1>5, <1>6, <1>7 DEF ExecStep

LEMMA WorkerBacks ==
    ASSUME WellFormed, Grounded, NEW w \in Workers
    PROVE  /\ \A k \in Keys : Claim(w, k) => NewlyBacked
           /\ WorkerStep(w) \/ WorkerCrash(w) => NewlyBacked
<1> USE DEF provider, google
<1>0. TypeOK /\ ActorsOK
  BY DEF WellFormed
<1>1. ASSUME NEW k \in Keys, Claim(w, k) PROVE NewlyBacked
  <2>1. /\ worker'[w].out = "none"
        /\ \A v \in Workers : v # w => worker'[v] = worker[v]
    BY <1>0, <1>1 DEF Claim, TypeOK
  <2>2. \A j \in Keys : row'[j] = row[j] \/ row'[j].status = "running"
    BY <1>0, <1>1 DEF Claim, TypeOK
  <2>3. UNCHANGED <<event, idem, exec, announced>>
    BY <1>1 DEF Claim
  <2> QED BY <2>1, <2>2, <2>3 DEF NewlyBacked
<1>2. CASE WorkerStatus(w)
  <2>1. worker[w].key \in Keys
    BY <1>2, WorkerAtWork DEF WorkerStatus
  <2>2. PICK reply \in ReadReplies(BookStatus(worker[w].key)) \cup Refusals
                       \cup Unanswered :
           IF reply \in {"not_found", "failed"}
           THEN Advance(w, "avail") ELSE Conclude(w, reply)
    BY <1>2 DEF WorkerStatus
  <2>3. reply = "confirmed" => event[worker[w].key] # "absent"
    <3>1. event[worker[w].key] = "absent" => BookStatus(worker[w].key) # "confirmed"
      BY <1>0, <2>1 DEF BookStatus
    <3> QED BY <3>1, ReadRange, RefusalRange, UnansweredRange
  <2>4. /\ worker'[w].out = "completed" => \/ /\ worker'[w].out = worker[w].out
                                              /\ worker'[w].key = worker[w].key
                                           \/ event[worker'[w].key] # "absent"
        /\ \A v \in Workers : v # w => worker'[v] = worker[v]
    <3>1. CASE Advance(w, "avail")
      BY <1>0, <2>1, <3>1, AdvanceEffect
    <3>2. CASE Conclude(w, reply)
      BY <1>0, <2>1, <2>3, <3>2, ConcludeEffect
    <3> QED BY <2>2, <3>1, <3>2
  <2>5. UNCHANGED <<event, idem, row, exec, announced>>
    BY <1>2 DEF WorkerStatus
  <2> QED BY <2>4, <2>5 DEF NewlyBacked
\* The other reads and a timeout never say "confirmed".
<1>3. CASE WorkerAvailability(w) \/ WorkerCheck(w) \/ WorkerTimeout(w)
  <2>1. worker[w].key \in Keys
    BY <1>3, WorkerAtWork DEF WorkerAvailability, WorkerCheck, WorkerTimeout
  <2>2. \/ \E pc \in {"avail", "check", "insert"} : Advance(w, pc)
        \/ \E reply : reply # "confirmed" /\ Conclude(w, reply)
    <3>1. SlotSearch(worker[w].key) # "confirmed" /\ FreeBusy(worker[w].key) # "confirmed"
      BY DEF SlotSearch, FreeBusy
    <3>2. CASE WorkerAvailability(w)
      <4>1. \A reply \in ReadReplies(SlotSearch(worker[w].key)) \cup Refusals
                            \cup Unanswered : reply # "confirmed"
        BY <3>1, ReadRange, RefusalRange, UnansweredRange
      <4> QED BY <3>2, <4>1 DEF WorkerAvailability
    <3>3. CASE WorkerCheck(w)
      <4>1. \A reply \in ReadReplies(FreeBusy(worker[w].key)) \cup Refusals :
               reply # "confirmed"
        BY <3>1, ReadRange, RefusalRange
      <4> QED BY <3>3, <4>1 DEF WorkerCheck
    <3>4. CASE WorkerTimeout(w)
      BY <3>4 DEF WorkerTimeout
    <3> QED BY <1>3, <3>2, <3>3, <3>4
  <2>3. /\ worker'[w].out = "completed" => /\ worker'[w].out = worker[w].out
                                           /\ worker'[w].key = worker[w].key
        /\ \A v \in Workers : v # w => worker'[v] = worker[v]
    BY <1>0, <2>1, <2>2, AdvanceEffect, ConcludeEffect
  <2>4. UNCHANGED <<event, idem, row, exec, announced>>
    BY <1>3 DEF WorkerAvailability, WorkerCheck, WorkerTimeout
  <2> QED BY <2>3, <2>4 DEF NewlyBacked
<1>4. CASE WorkerInsert(w)
  <2>1. worker[w].key \in Keys
    BY <1>4, WorkerAtWork DEF WorkerInsert
  <2>2. PICK reply : InsertEvent(worker[w].key, reply) /\ Conclude(w, reply)
    BY <1>4 DEF WorkerInsert
  <2>3. /\ reply = "confirmed" => event'[worker[w].key] # "absent"
        /\ \A k \in Keys : event[k] # "absent" => event'[k] # "absent"
    BY <1>0, <2>1, <2>2, InsertEffect DEF TypeOK
  <2>4. /\ worker'[w].out = "completed" => event'[worker'[w].key] # "absent"
        /\ \A v \in Workers : v # w => worker'[v] = worker[v]
    BY <1>0, <2>1, <2>2, <2>3, ConcludeEffect
  <2>5. UNCHANGED <<idem, row, exec, announced>>
    BY <1>4 DEF WorkerInsert
  <2> QED BY <2>3, <2>4, <2>5 DEF NewlyBacked
<1>5. CASE WorkerWrite(w) \/ WorkerWriteFails(w)
  <2>1. worker[w].key \in Keys
    BY <1>5, WorkerAtWork DEF WorkerWrite, WorkerWriteFails
  <2>2. \A k \in Keys : row'[k].status = "completed"
                        => row[k].status = "completed" \/ event[k] # "absent"
    <3>1. \A k \in Keys : Written(w)[k].status = "completed"
                          => \/ row[k].status = "completed"
                             \/ k = worker[w].key /\ worker[w].out = "completed"
      BY <1>0, <2>1 DEF Written, TypeOK
    <3>2. row' = row \/ row' = Written(w)
      BY <1>5 DEF WorkerWrite, WorkerWriteFails
    <3> QED BY <3>1, <3>2 DEF Grounded, TruthfulAnswers
  <2>3. \A k \in Keys : row[k].status = "completed" => event[k] # "absent"
    BY DEF Grounded, TruthfulConfirmation
  <2>4. /\ announced' = announced \cup {k \in Keys : row'[k].status = "completed"}
        /\ UNCHANGED <<event, idem, exec>>
    BY <1>5 DEF WorkerWrite, WorkerWriteFails
  <2>5. /\ worker'[w].out # "completed"
        /\ \A v \in Workers : v # w => worker'[v] = worker[v]
    <3>1. CASE worker' = [worker EXCEPT ![w] = IdleWorker]
      BY <1>0, <3>1, DoneEffect
    <3>2. CASE worker' = [worker EXCEPT
                ![w].pc = "rewrite",
                ![w].out = Verdict("temporarily_unavailable", worker[w].attempt)]
      BY <1>0, <2>1, <3>2, RewriteEffect
    <3> QED BY <1>5, <3>1, <3>2 DEF WorkerWrite, WorkerWriteFails
  <2> QED BY <2>2, <2>3, <2>4, <2>5 DEF NewlyBacked
<1>6. CASE WorkerCrash(w)
  <2>1. /\ worker'[w].out # "completed"
        /\ \A v \in Workers : v # w => worker'[v] = worker[v]
    BY <1>0, <1>6, DoneEffect DEF WorkerCrash
  <2> QED BY <1>6, <2>1 DEF WorkerCrash, NewlyBacked
<1> QED BY <1>1, <1>2, <1>3, <1>4, <1>5, <1>6 DEF WorkerStep

LEMMA WorldBacks ==
    ASSUME WellFormed, Grounded, WorldStep
    PROVE  NewlyBacked
<1> USE DEF provider, google
<1>0. TypeOK /\ ActorsOK
  BY DEF WellFormed
<1>1. UNCHANGED <<exec, worker>>
  BY DEF WorldStep, ReplyFromCache, IdemExpire, LeaseExpire, LateCheck,
         LateInsert, CancelRequest, DeleteEvent, ChangeDiary, Disconnect,
         Reconnect, Resume
<1>2. \A k \in Keys : event[k] # "absent" => event'[k] # "absent"
  BY <1>0 DEF WorldStep, ReplyFromCache, IdemExpire, LeaseExpire, LateCheck,
              LateInsert, CancelRequest, DeleteEvent, ChangeDiary, Disconnect,
              Reconnect, Resume, TypeOK
<1>3. /\ announced \subseteq announced'
      /\ \A k \in Keys : k \in announced' => k \in announced \/ event'[k] # "absent"
  <2>1. ASSUME NEW k \in Keys, ReplyFromCache(k)
        PROVE  announced' = announced \cup {k} /\ event'[k] # "absent"
    BY <2>1 DEF ReplyFromCache, Grounded, TruthfulConfirmation
  <2> QED BY <2>1 DEF WorldStep, IdemExpire, LeaseExpire, LateCheck, LateInsert,
                      CancelRequest, DeleteEvent, ChangeDiary, Disconnect,
                      Reconnect, Resume
<1>4. \A k \in Keys : row'[k].status = "completed" => row[k].status = "completed"
  <2>1. ASSUME NEW j \in Keys, LeaseExpire(j)
        PROVE  \A k \in Keys : row'[k].status = row[k].status
    BY <1>0, <2>1 DEF LeaseExpire, TypeOK, Row
  <2>2. ASSUME NEW j \in Keys, CancelRequest(j)
        PROVE  \A k \in Keys : row'[k] = row[k] \/ row'[k].status = "cancelled"
    BY <1>0, <2>2 DEF CancelRequest, TypeOK, Row
  <2>3. CASE Resume
    <3>1. \A k \in Keys : [row[k] EXCEPT !.status = "pending", !.leased = FALSE,
                                         !.noBooking = FALSE].status = "pending"
      BY <1>0 DEF TypeOK, Row
    <3> QED BY <2>3, <3>1 DEF Resume
  <2> QED BY <2>1, <2>2, <2>3 DEF WorldStep, ReplyFromCache, IdemExpire,
             LateCheck, LateInsert, DeleteEvent, ChangeDiary, Disconnect, Reconnect
<1>5. \A k \in Keys : idem'[k].status = idem[k].status
                      /\ idem'[k].payload = idem[k].payload
  <2>1. ASSUME NEW j \in Keys, IdemExpire(j)
        PROVE  \A k \in Keys : idem'[k].status = idem[k].status
                              /\ idem'[k].payload = idem[k].payload
    BY <1>0, <2>1 DEF IdemExpire, TypeOK, IdemRecord
  <2> QED BY <2>1 DEF WorldStep, ReplyFromCache, LeaseExpire, LateCheck,
             LateInsert, CancelRequest, DeleteEvent, ChangeDiary, Disconnect,
             Reconnect, Resume
<1> QED BY <1>1, <1>2, <1>3, <1>4, <1>5 DEF NewlyBacked

LEMMA GroundedInductive == Spec => []Grounded
<1>1. Init => Grounded
  BY DEF Init, Grounded, TruthfulConfirmation, TruthfulAnswers,
         CompletedIsAnnounced, IdleExec, IdleWorker
<1>2. WellFormed /\ Grounded /\ [Next]_vars => Grounded'
  <2> SUFFICES ASSUME WellFormed, Grounded, [Next]_vars PROVE NewlyBacked
    BY GroundedStep
  <2>1. CASE UNCHANGED vars
    BY <2>1 DEF vars, google, NewlyBacked
  <2>2. ASSUME NEW e \in Execs,
               (\E k \in Keys : AcquireLock(e, k)) \/ ExecStep(e) \/ ExecCrash(e)
        PROVE  NewlyBacked
    BY <2>2, HandlerBacks
  <2>3. ASSUME NEW w \in Workers,
               (\E k \in Keys : Claim(w, k)) \/ WorkerStep(w) \/ WorkerCrash(w)
        PROVE  NewlyBacked
    BY <2>3, WorkerBacks
  <2>4. CASE WorldStep
    BY <2>4, WorldBacks
  <2> QED BY <2>1, <2>2, <2>3, <2>4 DEF Next, WorldStep
<1> QED BY <1>1, <1>2, WellFormedInductive, PTL DEF Spec

(***************************************************************************)
(* Whoever is told "confirmed" -- by a reply, a replay or the row they     *)
(* poll -- is told of an event Google took: whatever is lost or late.      *)
(***************************************************************************)
THEOREM Truthful == Spec => []TruthfulConfirmation
BY GroundedInductive, PTL DEF Grounded

-----------------------------------------------------------------------------
(***************************************************************************)
(* The detailed design keeps the promise made to callers: CalendarBooking  *)
(* implements BookingPromise, for any constants and any faults.            *)
(***************************************************************************)

Made == {k \in Keys : event[k] # "absent"}

\* What any step does to the two facts the promise is about.
PromiseStep ==
    \/ Made' = Made /\ announced' = announced
    \/ \E k \in Keys : /\ k \notin Made /\ Made' = Made \cup {k}
                       /\ announced' = announced
    \/ \E k \in Keys : /\ k \in Made /\ announced' = announced \cup {k}
                       /\ Made' = Made

(***************************************************************************)
(* An insert makes at most the one booking it is for.                      *)
(***************************************************************************)
LEMMA InsertMakes ==
    ASSUME TypeOK, NEW k \in Keys, NEW reply, InsertEvent(k, reply),
           UNCHANGED announced
    PROVE  PromiseStep
<1>1. CASE event' = event
  BY <1>1 DEF PromiseStep, Made
<1>2. CASE event[k] = "absent" /\ event' = [event EXCEPT ![k] = "live"]
  <2>1. Made' = Made \cup {k}
    BY <1>2 DEF Made, TypeOK
  <2>2. k \notin Made
    BY <1>2 DEF Made
  <2> QED BY <2>1, <2>2 DEF PromiseStep
<1> QED BY <1>1, <1>2, InsertEffect

LEMMA HandlerKeepsPromise ==
    ASSUME WellFormed, Grounded, NEW e \in Execs,
           (\E k \in Keys : AcquireLock(e, k)) \/ ExecStep(e) \/ ExecCrash(e)
    PROVE  PromiseStep
<1> USE DEF provider, google
<1>1. CASE ExecInsert(e)
  <2>1. exec[e].key \in Keys
    BY <1>1, HandlerAtWork DEF ExecInsert
  <2>2. PICK reply : InsertEvent(exec[e].key, reply)
    BY <1>1 DEF ExecInsert
  <2>3. UNCHANGED announced
    BY <1>1 DEF ExecInsert
  <2> QED BY <2>1, <2>2, <2>3, InsertMakes DEF WellFormed
<1>2. CASE ExecCommit(e)
  <2>1. exec[e].key \in Keys
    BY <1>2, HandlerAtWork DEF ExecCommit
  <2>2. Made' = Made
    BY <1>2 DEF ExecCommit, Made
  <2>3. \/ announced' = announced
        \/ exec[e].out = "confirmed" /\ announced' = announced \cup {exec[e].key}
    BY <1>2 DEF ExecCommit
  <2>4. exec[e].out = "confirmed" => exec[e].key \in Made
    BY <2>1 DEF Made, Grounded, TruthfulAnswers
  <2> QED BY <2>1, <2>2, <2>3, <2>4 DEF PromiseStep
<1>3. CASE ~ExecInsert(e) /\ ~ExecCommit(e)
  <2>1. UNCHANGED <<event, announced>>
    BY <1>3 DEF AcquireLock, ExecStep, ExecCheck, ExecTimeout, ExecQueue,
                ExecRelease, ExecCrash
  <2> QED BY <2>1 DEF PromiseStep, Made
<1> QED BY <1>1, <1>2, <1>3

LEMMA WorkerKeepsPromise ==
    ASSUME WellFormed, Grounded, NEW w \in Workers,
           (\E k \in Keys : Claim(w, k)) \/ WorkerStep(w) \/ WorkerCrash(w)
    PROVE  PromiseStep
<1> USE DEF provider, google
<1>0. TypeOK
  BY DEF WellFormed
<1>1. CASE WorkerInsert(w)
  <2>1. worker[w].key \in Keys
    BY <1>1, WorkerAtWork DEF WorkerInsert
  <2>2. PICK reply : InsertEvent(worker[w].key, reply)
    BY <1>1 DEF WorkerInsert
  <2>3. UNCHANGED announced
    BY <1>1 DEF WorkerInsert
  <2> QED BY <1>0, <2>1, <2>2, <2>3, InsertMakes
\* Rows completed before have been announced; at most this one is new.
<1>2. CASE WorkerWrite(w) \/ WorkerWriteFails(w)
  <2> DEFINE k == worker[w].key
             done == {j \in Keys : row'[j].status = "completed"}
  <2>1. k \in Keys
    BY <1>2, WorkerAtWork DEF WorkerWrite, WorkerWriteFails
  <2>2. announced' = announced \cup done /\ UNCHANGED event
    BY <1>2 DEF WorkerWrite, WorkerWriteFails
  <2>3. \A j \in Keys : j # k => row'[j] = row[j]
    BY <1>0, <1>2, <2>1 DEF WorkerWrite, WorkerWriteFails, Written, TypeOK
  <2>4. done \subseteq announced \cup {k}
    BY <2>3 DEF Grounded, CompletedIsAnnounced
  <2>5. k \in done => k \in Made
    <3>1. Grounded'
      BY <1>2, WorkerBacks, GroundedStep DEF WorkerStep
    <3> QED BY <2>1, <2>2, <3>1 DEF Made, Grounded, TruthfulConfirmation
  <2>6. Made' = Made
    BY <2>2 DEF Made
  <2>7. CASE k \in done
    <3>1. announced' = announced \cup {k}
      BY <2>2, <2>4, <2>7
    <3> QED BY <2>1, <2>5, <2>6, <2>7, <3>1 DEF PromiseStep
  <2>8. CASE k \notin done
    <3>1. announced' = announced
      BY <2>2, <2>4, <2>8
    <3> QED BY <2>6, <3>1 DEF PromiseStep
  <2> QED BY <2>7, <2>8
<1>3. CASE ~WorkerInsert(w) /\ ~WorkerWrite(w) /\ ~WorkerWriteFails(w)
  <2>1. UNCHANGED <<event, announced>>
    BY <1>3 DEF Claim, WorkerStep, WorkerStatus, WorkerAvailability, WorkerCheck,
                WorkerTimeout, WorkerCrash
  <2> QED BY <2>1 DEF PromiseStep, Made
<1> QED BY <1>1, <1>2, <1>3

LEMMA WorldKeepsPromise ==
    ASSUME WellFormed, Grounded, WorldStep
    PROVE  PromiseStep
<1> USE DEF provider, google
<1>0. TypeOK
  BY DEF WellFormed
<1>1. ASSUME NEW k \in Keys, ReplyFromCache(k) PROVE PromiseStep
  BY <1>1 DEF ReplyFromCache, PromiseStep, Made, Grounded, TruthfulConfirmation
<1>2. ASSUME NEW k \in Keys, LateInsert(k) PROVE PromiseStep
  <2>1. CASE event' = event
    BY <1>2, <2>1 DEF LateInsert, PromiseStep, Made
  <2>2. CASE event[k] = "absent" /\ event' = [event EXCEPT ![k] = "live"]
    <3>1. Made' = Made \cup {k} /\ k \notin Made
      BY <1>0, <2>2 DEF Made, TypeOK
    <3> QED BY <1>2, <3>1 DEF LateInsert, PromiseStep
  <2> QED BY <1>2, <2>1, <2>2 DEF LateInsert
<1>3. ASSUME NEW k \in Keys, DeleteEvent(k) PROVE PromiseStep
  <2>1. Made' = Made
    BY <1>0, <1>3 DEF DeleteEvent, Made, TypeOK
  <2> QED BY <1>3, <2>1 DEF DeleteEvent, PromiseStep
<1>4. CASE UNCHANGED <<event, announced>>
  BY <1>4 DEF PromiseStep, Made
<1> QED BY <1>1, <1>2, <1>3, <1>4
        DEF WorldStep, IdemExpire, LeaseExpire, LateCheck, CancelRequest,
            ChangeDiary, Disconnect, Reconnect, Resume

(***************************************************************************)
(* The queue, the locks, the retries and the late writes change nothing of *)
(* what a caller may rely on: a booking is made once and announced only    *)
(* after it was made.                                                      *)
(***************************************************************************)
THEOREM Implements == Spec => ImplementsPromise
<1>1. Init => Promise!Init
  BY DEF Init, Promise!Init
<1>2. WellFormed /\ Grounded /\ [Next]_vars => [Promise!Next]_(Promise!vars)
  <2> SUFFICES ASSUME WellFormed, Grounded, [Next]_vars
               PROVE  [Promise!Next]_(Promise!vars)
    OBVIOUS
  <2>1. PromiseStep
    <3>1. CASE UNCHANGED vars
      BY <3>1 DEF vars, google, PromiseStep, Made
    <3> QED BY <3>1, HandlerKeepsPromise, WorkerKeepsPromise, WorldKeepsPromise
            DEF Next, WorldStep
  <2> QED BY <2>1 DEF PromiseStep, Made, Promise!Next, Promise!Make,
                      Promise!Announce, Promise!vars
<1> QED BY <1>1, <1>2, WellFormedInductive, GroundedInductive, PTL
        DEF Spec, ImplementsPromise, Promise!Spec

-----------------------------------------------------------------------------
(***************************************************************************)
(* "I will retry it and update you."  Between the queue and the commit the *)
(* handler holds the promise in its hands: the row is there already.       *)
(***************************************************************************)
Promised(k) == idem[k].status = "committed" /\ idem[k].payload = "pending_confirmation"

QueueInv ==
    /\ PromiseIsQueued
    /\ \A e \in Execs : exec[e].pc = "commit" /\ exec[e].out = "pending_confirmation"
                        => row[exec[e].key].status # "absent"

\* What every step leaves of it: rows are not deleted, and a promise is new
\* only where a row is.
QueueFrame ==
    /\ \A k \in Keys : row[k].status # "absent" => row'[k].status # "absent"
    /\ \A k \in Keys : Promised(k)' => Promised(k) \/ row[k].status # "absent"
    /\ \A e \in Execs : exec'[e].pc = "commit"
                        /\ exec'[e].out = "pending_confirmation"
          => exec'[e] = exec[e] \/ row'[exec'[e].key].status # "absent"

LEMMA QueueStep ==
    ASSUME WellFormed, QueueInv, QueueFrame
    PROVE  QueueInv'
<1>1. ASSUME NEW k \in Keys, Promised(k)' PROVE row'[k].status # "absent"
  BY <1>1 DEF QueueFrame, QueueInv, PromiseIsQueued, Promised
<1>2. ASSUME NEW e \in Execs, exec'[e].pc = "commit",
             exec'[e].out = "pending_confirmation"
      PROVE  row'[exec'[e].key].status # "absent"
  BY <1>2, HandlerAtWork DEF QueueFrame, QueueInv
<1> QED BY <1>1, <1>2 DEF QueueInv, PromiseIsQueued, Promised

LEMMA HandlerKeepsQueue ==
    ASSUME WellFormed, QueueInv, NEW e \in Execs,
           (\E k \in Keys : AcquireLock(e, k)) \/ ExecStep(e) \/ ExecCrash(e)
    PROVE  QueueFrame
<1> USE DEF provider, google
<1>0. TypeOK
  BY DEF WellFormed
<1>1. ASSUME NEW k \in Keys, AcquireLock(e, k) PROVE QueueFrame
  <2>1. /\ exec'[e].pc = "check"
        /\ \A f \in Execs : f # e => exec'[f] = exec[f]
    BY <1>0, <1>1 DEF AcquireLock, TypeOK
  <2>2. \A j \in Keys : idem'[j] = idem[j] \/ idem'[j].status = "acquired"
    BY <1>0, <1>1 DEF AcquireLock, TypeOK
  <2>3. UNCHANGED row
    BY <1>1 DEF AcquireLock
  <2> QED BY <2>1, <2>2, <2>3 DEF QueueFrame, Promised
\* The broker's answer "temporarily unavailable" leads to the queue first.
<1>2. CASE ExecCheck(e) \/ ExecInsert(e) \/ ExecTimeout(e)
  <2>1. exec[e].key \in Keys
    BY <1>2, HandlerAtWork DEF ExecCheck, ExecInsert, ExecTimeout
  <2>2. \/ exec' = [exec EXCEPT ![e].pc = "insert"]
        \/ \E reply \in BrokerReplies : AfterBroker(e, reply)
    <3>1. CASE ExecCheck(e)
      <4>1. PICK reply \in ReadReplies(FreeBusy(exec[e].key)) \cup Refusals :
               IF reply = "available"
               THEN exec' = [exec EXCEPT ![e].pc = "insert"]
               ELSE AfterBroker(e, reply)
        BY <3>1 DEF ExecCheck
      <4>2. reply = "available" \/ reply \in BrokerReplies
        <5>1. reply \in {"available", "conflict", "refused", "failed",
                         "temporarily_unavailable", "needs_reconnect"}
          BY ReadRange, RefusalRange DEF FreeBusy
        <5> QED BY <5>1 DEF BrokerReplies
      <4> QED BY <4>1, <4>2
    <3>2. CASE ExecInsert(e)
      BY <1>0, <2>1, <3>2, InsertEffect DEF ExecInsert
    <3>3. CASE ExecTimeout(e)
      BY <3>3 DEF ExecTimeout, BrokerReplies
    <3> QED BY <1>2, <3>1, <3>2, <3>3
  <2>3. /\ exec'[e].pc = "commit" => exec'[e].out # "pending_confirmation"
        /\ \A f \in Execs : f # e => exec'[f] = exec[f]
    <3>1. CASE exec' = [exec EXCEPT ![e].pc = "insert"]
      BY <1>0, <3>1 DEF TypeOK, ExecState
    <3>2. ASSUME NEW reply \in BrokerReplies, AfterBroker(e, reply)
          PROVE  /\ exec'[e].pc = "commit" => exec'[e].out # "pending_confirmation"
                 /\ \A f \in Execs : f # e => exec'[f] = exec[f]
      BY <1>0, <2>1, <3>2, AfterBrokerEffect
    <3> QED BY <2>2, <3>1, <3>2
  <2>4. UNCHANGED <<idem, row>>
    BY <1>2 DEF ExecCheck, ExecInsert, ExecTimeout
  <2> QED BY <2>3, <2>4 DEF QueueFrame, Promised
<1>3. CASE ExecQueue(e)
  <2>1. exec[e].key \in Keys
    BY <1>3, HandlerAtWork DEF ExecQueue
  <2>2. PICK status \in {"pending", "needs_reconnect"} :
           LET queued == [row EXCEPT ![exec[e].key] = Queued(exec[e].key, status)]
           IN \/ row' = queued /\ exec' = [exec EXCEPT ![e].pc = "commit"]
              \/ row' \in {row, queued} /\ Raise(e)
    BY <1>3 DEF ExecQueue
  <2>3. Queued(exec[e].key, status).status # "absent"
    BY DEF Queued
  <2>4. /\ \A k \in Keys : row[k].status # "absent" => row'[k].status # "absent"
        /\ ~Raise(e) => row'[exec[e].key].status # "absent"
    BY <1>0, <2>1, <2>2, <2>3 DEF TypeOK
  <2>5. /\ exec'[e].pc = "commit" => /\ ~Raise(e)
                                     /\ exec'[e].key = exec[e].key
        /\ \A f \in Execs : f # e => exec'[f] = exec[f]
    BY <1>0, <2>1, <2>2, RaiseEffect DEF TypeOK, ExecState
  <2>6. UNCHANGED idem
    BY <1>3 DEF ExecQueue
  <2> QED BY <2>4, <2>5, <2>6 DEF QueueFrame, Promised
<1>4. CASE ExecCommit(e)
  <2>1. exec[e].key \in Keys
    BY <1>4, HandlerAtWork DEF ExecCommit
  <2>2. /\ exec'[e].pc # "commit"
        /\ \A f \in Execs : f # e => exec'[f] = exec[f]
    <3>1. CASE exec' = [exec EXCEPT ![e] = IdleExec]
      BY <1>0, <3>1, IdleEffect
    <3>2. CASE Raise(e)
      BY <1>0, <2>1, <3>2, RaiseEffect
    <3> QED BY <1>4, <3>1, <3>2 DEF ExecCommit
  <2>3. \A k \in Keys : Promised(k)' => Promised(k) \/ row[k].status # "absent"
    <3>1. idem' = idem \/ idem' = Committed(exec[e].key, exec[e].out)
      BY <1>4 DEF ExecCommit
    <3>2. exec[e].out = "pending_confirmation" => row[exec[e].key].status # "absent"
      BY <1>4 DEF ExecCommit, QueueInv
    <3>3. /\ Committed(exec[e].key, exec[e].out)[exec[e].key].payload = exec[e].out
          /\ \A j \in Keys : j # exec[e].key
                => Committed(exec[e].key, exec[e].out)[j] = idem[j]
      BY <1>0, <2>1 DEF Committed, TypeOK
    <3> QED BY <3>1, <3>2, <3>3 DEF Promised
  <2>4. UNCHANGED row
    BY <1>4 DEF ExecCommit
  <2> QED BY <2>2, <2>3, <2>4 DEF QueueFrame
<1>5. CASE ExecRelease(e) \/ ExecCrash(e)
  <2>1. exec'[e].pc \in {"idle", "release"}
    BY <1>5, LeavingEffect
  <2>2. \A f \in Execs : f # e => exec'[f] = exec[f]
    BY <1>5, LeavingEffect
  <2>3. \A k \in Keys : idem'[k] = idem[k] \/ idem'[k].status = "refunded"
    BY <1>5, LeavingEffect
  <2>4. UNCHANGED row
    BY <1>5, LeavingEffect
  <2> QED BY <2>1, <2>2, <2>3, <2>4 DEF QueueFrame, Promised
<1> QED BY <1>1, <1>2, <1>3, <1>4, <1>5 DEF ExecStep

\* Nobody else touches the handlers or adds to the record; rows change state.
LEMMA OthersKeepQueue ==
    ASSUME WellFormed, QueueInv,
           \/ \E w \in Workers : \/ \E k \in Keys : Claim(w, k)
                                 \/ WorkerStep(w) \/ WorkerCrash(w)
           \/ WorldStep
    PROVE  QueueFrame
<1> USE DEF provider, google
<1>0. TypeOK
  BY DEF WellFormed
<1>1. ASSUME NEW w \in Workers, NEW k \in Keys, Claim(w, k) PROVE QueueFrame
  <2>1. \A j \in Keys : row'[j] = row[j] \/ row'[j].status = "running"
    BY <1>0, <1>1 DEF Claim, TypeOK
  <2> QED BY <1>1, <2>1 DEF Claim, QueueFrame, Promised
<1>2. ASSUME NEW w \in Workers, WorkerWrite(w) \/ WorkerWriteFails(w)
      PROVE  QueueFrame
  <2>1. worker[w].out # "none" /\ worker[w].out \in Verdicts
    BY <1>0, <1>2 DEF WorkerWrite, WorkerWriteFails, WellFormed, ActorsOK,
                      TypeOK, WorkerState
  <2>2. worker[w].key \in Keys
    BY <1>2, WorkerAtWork DEF WorkerWrite, WorkerWriteFails
  <2>3. \A j \in Keys : Written(w)[j] = row[j] \/ Written(w)[j].status # "absent"
    BY <1>0, <2>1, <2>2 DEF Written, TypeOK, Verdicts
  <2>4. row' = row \/ row' = Written(w)
    BY <1>2 DEF WorkerWrite, WorkerWriteFails
  <2>5. UNCHANGED <<idem, exec>>
    BY <1>2 DEF WorkerWrite, WorkerWriteFails
  <2> QED BY <2>3, <2>4, <2>5 DEF QueueFrame, Promised
<1>3. ASSUME NEW w \in Workers, WorkerStep(w) \/ WorkerCrash(w),
             ~WorkerWrite(w), ~WorkerWriteFails(w)
      PROVE  QueueFrame
  <2>1. UNCHANGED <<idem, row, exec>>
    BY <1>3 DEF WorkerStep, WorkerStatus, WorkerAvailability, WorkerCheck,
                WorkerInsert, WorkerTimeout, WorkerCrash
  <2> QED BY <2>1 DEF QueueFrame, Promised
<1>4. ASSUME NEW k \in Keys, IdemExpire(k) PROVE QueueFrame
  <2>1. \A j \in Keys : /\ idem'[j].status = idem[j].status
                        /\ idem'[j].payload = idem[j].payload
    BY <1>0, <1>4 DEF IdemExpire, TypeOK, IdemRecord
  <2> QED BY <1>4, <2>1 DEF IdemExpire, QueueFrame, Promised
<1>5. ASSUME NEW k \in Keys, LeaseExpire(k) \/ CancelRequest(k) PROVE QueueFrame
  <2>1. \A j \in Keys : /\ j # k => row'[j] = row[j]
                        /\ row'[k].status \in {row[k].status, "cancelled"}
    BY <1>0, <1>5 DEF LeaseExpire, CancelRequest, TypeOK, Row
  <2>2. UNCHANGED <<idem, exec>>
    BY <1>5 DEF LeaseExpire, CancelRequest
  <2> QED BY <2>1, <2>2 DEF QueueFrame, Promised
<1>6. CASE Resume
  <2>1. \A k \in Keys : row[k].status = "needs_reconnect"
           => [row[k] EXCEPT !.status = "pending", !.leased = FALSE,
                             !.noBooking = FALSE].status = "pending"
    BY <1>0 DEF TypeOK, Row
  <2>2. \A k \in Keys : row'[k] = row[k] \/ row'[k].status = "pending"
    BY <1>6, <2>1 DEF Resume
  <2> QED BY <1>6, <2>2 DEF Resume, QueueFrame, Promised
<1>7. CASE UNCHANGED <<idem, row, exec>>
  BY <1>7 DEF QueueFrame, Promised
<1> QED BY <1>1, <1>2, <1>3, <1>4, <1>5, <1>6, <1>7
        DEF WorldStep, ReplyFromCache, LateCheck, LateInsert, DeleteEvent,
            ChangeDiary, Disconnect, Reconnect

(***************************************************************************)
(* A promise to retry, given once or repeated from the cache, is always    *)
(* backed by a row of the recovery queue, in whatever order the queue's    *)
(* insert, the commit, the release and the worker's writes succeed.        *)
(***************************************************************************)
THEOREM PromiseKept == Spec => []PromiseIsQueued
<1>1. Init => QueueInv
  BY DEF Init, QueueInv, PromiseIsQueued, IdleExec
<1>2. WellFormed /\ QueueInv /\ [Next]_vars => QueueInv'
  <2> SUFFICES ASSUME WellFormed, QueueInv, [Next]_vars PROVE QueueFrame
    BY QueueStep
  <2>1. CASE UNCHANGED vars
    BY <2>1 DEF vars, google, QueueFrame, Promised
  <2> QED BY <2>1, HandlerKeepsQueue, OthersKeepQueue DEF Next, WorldStep
<1>3. QueueInv => PromiseIsQueued
  BY DEF QueueInv
<1> QED BY <1>1, <1>2, <1>3, WellFormedInductive, PTL DEF Spec

=============================================================================
