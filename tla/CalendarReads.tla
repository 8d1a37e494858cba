----------------------------- MODULE CalendarReads -----------------------------
(***************************************************************************)
(* What a company's callers are told of its calendar: the broker answers   *)
(* list and availability from an in-process cache whose loads are shared,  *)
(* the loads read the database mirror when it is fresh, synchronise it     *)
(* with Google when it is not, and read Google itself when that fails.     *)
(* Bookings and cancellations write to Google, empty the cache and mark    *)
(* the mirror stale, one await after another.  A calendar is the number of *)
(* writes made to it: a value is the writes it contains.  One company, one *)
(* broker process; the mirror is enabled.                                  *)
(***************************************************************************)
EXTENDS Naturals

CONSTANTS Keys,      \* questions that are cached
          Writers,   \* requests that book or cancel
          Nobody,    \* the synchronisation lock is free
          MaxWrites, \* writes (a bound of the model)
          MaxFaults  \* refusals, failures, lost answers, expired tokens and restarts (a bound)

ASSUME ReadsAssumption ==
    Nobody \notin Keys \cup {"loop"} /\ MaxWrites \in Nat /\ MaxFaults \in Nat

VARIABLES calendar, \* Google's events
          told,     \* newest write its caller knows of (history)
          write,    \* what each writer is doing
          entry,    \* the cache
          load,     \* the shared load of each key
          sync,     \* the synchronisation that holds the company's lock
          mirror,   \* sync state and events in the database
          known,    \* the company is in _active_mirror_companies
          readFaults

readVars == <<calendar, told, write, entry, load, sync, mirror, known, readFaults>>

Contents == 0..MaxWrites
NoEntry == [at |-> "none", value |-> 0, crossed |-> FALSE]
NoSync == [holder |-> Nobody, at |-> "none", token |-> "none", value |-> 0]
NoWrite == [at |-> "idle", value |-> 0, lost |-> FALSE]
\* an answered write is on its way to the cache and the mirror
Writing == \E w \in Writers : write[w].at \in {"written", "emptied"} /\ ~write[w].lost
Usable == mirror.status = "ready" /\ mirror.fresh

ReadsTypeOK ==
    /\ calendar \in Contents /\ told \in 0..calendar
    /\ write \in [Writers -> [at : {"idle", "unknown", "written", "emptied"},
                              value : Contents, lost : BOOLEAN]]
    /\ entry \in [Keys -> [at : {"none", "held"}, value : Contents, crossed : BOOLEAN]]
    /\ load \in [Keys -> [at : {"none", "mirror", "sync", "again", "live", "done"},
                          value : Contents, crossed : BOOLEAN]]
    /\ sync \in [holder : Keys \cup {"loop", Nobody},
                 at : {"none", "locked", "chosen", "paging", "read"},
                 token : {"none", "good", "gone"}, value : Contents]
    /\ mirror \in [status : {"none", "pending", "syncing", "ready", "failed", "full"},
                   fresh : BOOLEAN, token : {"none", "good", "gone"}, value : Contents,
                   crossed : BOOLEAN]
    /\ known \in BOOLEAN /\ readFaults \in 0..MaxFaults

ReadsInit ==
    /\ calendar = 0 /\ told = 0
    /\ write = [w \in Writers |-> NoWrite]
    /\ entry = [k \in Keys |-> NoEntry] /\ load = [k \in Keys |-> NoEntry] /\ sync = NoSync
    /\ mirror = [status |-> "none", fresh |-> FALSE, token |-> "none", value |-> 0,
                 crossed |-> FALSE]
    /\ known = FALSE /\ readFaults = 0

Fault == readFaults < MaxFaults /\ readFaults' = readFaults + 1

-----------------------------------------------------------------------------
\* book and cancel: Google confirms, the cache is emptied, the mirror is marked
\* a load in flight when Google changes is crossed by the write
GoogleWrites(w) ==
    /\ write[w].at = "idle" /\ calendar < MaxWrites
    /\ calendar' = calendar + 1
    /\ write' = [write EXCEPT ![w] = [at |-> "written", value |-> calendar + 1,
                                      lost |-> FALSE]]
    /\ load' = [k \in Keys |-> [load[k] EXCEPT !.crossed = load[k].at # "none"]]
    /\ UNCHANGED <<told, entry, sync, mirror, known, readFaults>>

\* Google has written and its answer is lost or is no answer: nothing is emptied or marked,
\* so that the write crosses all that was read before it
AnswerLost(w) ==
    /\ write[w].at = "idle" /\ calendar < MaxWrites /\ Fault
    /\ calendar' = calendar + 1
    /\ write' = [write EXCEPT ![w] = [at |-> "unknown", value |-> calendar + 1,
                                      lost |-> TRUE]]
    /\ load' = [k \in Keys |-> [load[k] EXCEPT !.crossed = load[k].at # "none"]]
    /\ entry' = [k \in Keys |-> [entry[k] EXCEPT !.crossed = entry[k].at # "none"]]
    /\ mirror' = [mirror EXCEPT !.crossed = TRUE]
    /\ UNCHANGED <<told, sync, known>>

\* the retried booking: Google says 409 and confirms the event that is there
Repeated(w) ==
    /\ write[w].at = "unknown" /\ write' = [write EXCEPT ![w].at = "written"]
    /\ UNCHANGED <<calendar, told, entry, load, sync, mirror, known, readFaults>>

\* mutant: only the mirror is marked
InvalidateNothing(w) ==
    /\ write[w].at = "written" /\ write' = [write EXCEPT ![w].at = "emptied"]
    /\ UNCHANGED <<calendar, told, entry, load, sync, mirror, known, readFaults>>

InvalidateCompany(w) ==
    /\ write[w].at = "written" /\ write' = [write EXCEPT ![w].at = "emptied"]
    /\ entry' = [k \in Keys |-> NoEntry]
    /\ UNCHANGED <<calendar, told, load, sync, mirror, known, readFaults>>

TellCaller(w) ==
    /\ write' = [write EXCEPT ![w].at = "idle", ![w].lost = FALSE]
    /\ told' = IF write[w].value > told THEN write[w].value ELSE told

\* book-status: Google has the event, which is told and nothing else
BookStatus(w) ==
    /\ write[w].at = "unknown" /\ TellCaller(w)
    /\ UNCHANGED <<calendar, entry, load, sync, mirror, known, readFaults>>

MarkStale(w) ==
    /\ write[w].at = "emptied" /\ TellCaller(w)
    /\ mirror' = IF mirror.status = "none" THEN mirror
                 ELSE [mirror EXCEPT !.status = "pending", !.fresh = FALSE]
    /\ UNCHANGED <<calendar, entry, load, sync, known, readFaults>>

\* the database refuses the mark: it is logged, the write is a success all the same
MarkFails(w) ==
    /\ write[w].at = "emptied" /\ TellCaller(w) /\ Fault
    /\ mirror' = [mirror EXCEPT !.crossed = TRUE]
    /\ UNCHANGED <<calendar, entry, load, sync, known>>

-----------------------------------------------------------------------------
\* list and availability: a hit answers entry[k]; a miss joins the load in flight or starts one
Miss(k) ==
    /\ entry[k].at = "none" /\ load[k].at = "none"
    /\ load' = [load EXCEPT ![k] = [at |-> "mirror", value |-> 0, crossed |-> Writing]]
    /\ known' = TRUE
    /\ UNCHANGED <<calendar, told, write, entry, sync, mirror, readFaults>>

Loaded(k, value, crossed) ==
    load' = [load EXCEPT ![k].at = "done", ![k].value = value, ![k].crossed = @ \/ crossed]

\* get_fresh_mirrored_events, before the synchronisation and after it
ReadMirror(k) ==
    /\ load[k].at \in {"mirror", "again"}
    /\ IF Usable THEN Loaded(k, mirror.value, mirror.crossed)
       ELSE load' = [load EXCEPT ![k].at = IF load[k].at = "mirror" THEN "sync" ELSE "live"]
    /\ UNCHANGED <<calendar, told, write, entry, sync, mirror, known, readFaults>>

\* any error of the database: the live provider answers
MirrorUnavailable(k) ==
    /\ load[k].at \in {"mirror", "again"} /\ Fault
    /\ load' = [load EXCEPT ![k].at = "live"]
    /\ UNCHANGED <<calendar, told, write, entry, sync, mirror, known>>

ReadLive(k) ==
    /\ load[k].at = "live" /\ Loaded(k, calendar, FALSE)
    /\ UNCHANGED <<calendar, told, write, entry, sync, mirror, known, readFaults>>

\* Google's refusal is answered as a status, which is not cached
LiveFails(k) ==
    /\ load[k].at = "live" /\ Fault /\ load' = [load EXCEPT ![k] = NoEntry]
    /\ UNCHANGED <<calendar, told, write, entry, sync, mirror, known>>

\* every reader that waited stores the result: the last one ends the load
StoreResult(k) ==
    /\ load[k].at = "done" /\ entry' = [entry EXCEPT ![k] = [load[k] EXCEPT !.at = "held"]]
    /\ load' \in {load, [load EXCEPT ![k] = NoEntry]}
    /\ UNCHANGED <<calendar, told, write, sync, mirror, known, readFaults>>

EntryExpires(k) ==
    /\ entry[k].at = "held" /\ entry' = [entry EXCEPT ![k] = NoEntry]
    /\ UNCHANGED <<calendar, told, write, load, sync, mirror, known, readFaults>>

-----------------------------------------------------------------------------
\* sync_google_calendar_mirror, by a load or by the broker's loop
TakeLock(h) ==
    /\ sync.holder = Nobody
    /\ IF h = "loop" THEN known ELSE load[h].at = "sync"
    /\ sync' = [NoSync EXCEPT !.holder = h, !.at = "locked"]
    /\ UNCHANGED <<calendar, told, write, entry, load, mirror, known, readFaults>>

\* the lock is released; a load reads the mirror again after a success, Google after a failure
Synced(ok) ==
    /\ sync' = NoSync
    /\ load' = IF sync.holder = "loop" THEN load
               ELSE [load EXCEPT ![sync.holder].at = IF ok THEN "again" ELSE "live"]

\* another one has synchronised while this one waited for the lock
AlreadyReady ==
    /\ sync.at = "locked" /\ Usable /\ Synced(TRUE)
    /\ UNCHANGED <<calendar, told, write, entry, mirror, known, readFaults>>

\* the token the row holds, or none for a full synchronisation
ChooseToken ==
    /\ sync.at = "locked" /\ ~Usable
    /\ sync' = [sync EXCEPT !.at = "chosen",
                            !.token = IF mirror.status = "full" THEN "none" ELSE mirror.token]
    /\ UNCHANGED <<calendar, told, write, entry, load, mirror, known, readFaults>>

MarkStarted ==
    /\ sync.at = "chosen" /\ sync' = [sync EXCEPT !.at = "paging"]
    /\ mirror' = [mirror EXCEPT !.status = "syncing"]
    /\ UNCHANGED <<calendar, told, write, entry, load, known, readFaults>>

ReadPages ==
    /\ sync.at = "paging" /\ sync.token # "gone"
    /\ sync' = [sync EXCEPT !.at = "read", !.value = calendar]
    /\ UNCHANGED <<calendar, told, write, entry, load, mirror, known, readFaults>>

\* mutant: an expired token is a failure like any other
MarkTokenFailed == mirror' = [mirror EXCEPT !.status = "failed"]

\* 410: the next synchronisation is a full one
MarkTokenGone == mirror' = [mirror EXCEPT !.status = "full", !.token = "none"]

TokenGone ==
    /\ sync.at = "paging" /\ sync.token = "gone" /\ Synced(FALSE) /\ MarkTokenGone
    /\ UNCHANGED <<calendar, told, write, entry, known, readFaults>>

\* no access token, a refusal, a network error, pages without end
SyncFails ==
    /\ sync.at \in {"chosen", "paging"} /\ Fault /\ Synced(FALSE)
    /\ mirror' = [mirror EXCEPT !.status = "failed"]
    /\ UNCHANGED <<calendar, told, write, entry, known>>

\* the database fails in the middle: the row stays as it is
SyncThrows ==
    /\ sync.at # "none" /\ Fault /\ Synced(FALSE)
    /\ UNCHANGED <<calendar, told, write, entry, mirror, known>>

\* crossed: Google changed between the pages and the commit
CommitSync ==
    /\ sync.at = "read" /\ Synced(TRUE)
    /\ mirror' = [status |-> "ready", fresh |-> TRUE, token |-> "good", value |-> sync.value,
                  crossed |-> sync.value < calendar]
    /\ UNCHANGED <<calendar, told, write, entry, known, readFaults>>

-----------------------------------------------------------------------------
\* calendar_mirror_max_staleness_seconds have passed
MirrorAges ==
    /\ Usable /\ mirror' = [mirror EXCEPT !.fresh = FALSE]
    /\ UNCHANGED <<calendar, told, write, entry, load, sync, known, readFaults>>

\* nobody asked for calendar_mirror_active_tenant_ttl_seconds
CompanyForgotten ==
    /\ known /\ known' = FALSE
    /\ UNCHANGED <<calendar, told, write, entry, load, sync, mirror, readFaults>>

SyncTokenExpires ==
    /\ mirror.token = "good" /\ Fault /\ mirror' = [mirror EXCEPT !.token = "gone"]
    /\ UNCHANGED <<calendar, told, write, entry, load, sync, known>>

\* the process dies; the database stays as it is, a write on its way is not marked and
\* its caller has no answer
BrokerRestarts ==
    /\ Fault
    /\ write' = [w \in Writers |->
                    IF write[w].at = "idle" THEN write[w]
                    ELSE [write[w] EXCEPT !.at = "unknown", !.lost = TRUE]]
    /\ mirror' = [mirror EXCEPT !.crossed = @ \/ Writing]
    /\ entry' = [k \in Keys |-> NoEntry] /\ load' = [k \in Keys |-> NoEntry] /\ sync' = NoSync
    /\ known' = FALSE
    /\ UNCHANGED <<calendar, told>>

Synchronise ==
    \/ AlreadyReady \/ ChooseToken \/ MarkStarted \/ ReadPages \/ TokenGone \/ CommitSync

ReadsNext ==
    \/ \E w \in Writers :
          \/ GoogleWrites(w) \/ InvalidateCompany(w) \/ MarkStale(w) \/ MarkFails(w)
          \/ AnswerLost(w) \/ Repeated(w) \/ BookStatus(w)
    \/ \E k \in Keys :
          \/ Miss(k) \/ ReadMirror(k) \/ MirrorUnavailable(k)
          \/ ReadLive(k) \/ LiveFails(k) \/ StoreResult(k) \/ EntryExpires(k)
    \/ \E h \in Keys \cup {"loop"} : TakeLock(h)
    \/ Synchronise \/ SyncFails \/ SyncThrows
    \/ MirrorAges \/ CompanyForgotten \/ SyncTokenExpires \/ BrokerRestarts

\* the loop's timer and the event loop; refusals are not forced
ReadsFairness == WF_readVars(TakeLock("loop")) /\ WF_readVars(Synchronise)

ReadsSpec == ReadsInit /\ [][ReadsNext]_readVars /\ ReadsFairness

-----------------------------------------------------------------------------
(***************************************************************************)
(* A caller who was told of a booking or a cancellation is not contradicted*)
(* by what the broker keeps: a cached answer, and a mirror that may be     *)
(* read, contain every write the caller was told of, but where the write   *)
(* crossed the load or the synchronisation that read them, the mark        *)
(* failed, or Google's answer to the write was lost after they were read:  *)
(* such a write empties and marks nothing, and book-status tells of it     *)
(* later.  What is read after it contains it (calendar_read_cache.py       *)
(* invalidate_company, google_calendar.py                                  *)
(* _mark_calendar_mirror_stale_after_write).                               *)
(***************************************************************************)
WritesAreSeen ==
    /\ \A k \in Keys :
          /\ entry[k].at = "held" /\ entry[k].value < told => entry[k].crossed
          /\ load[k].at = "done" /\ load[k].value < told => load[k].crossed
    /\ Usable /\ mirror.value < told => mirror.crossed

(***************************************************************************)
(* A mirror in use does not stay out of use: while callers keep the        *)
(* company active, whatever failed, expired or died half way through, the  *)
(* broker's loop makes the mirror ready again (reconcile_loop,             *)
(* mark_calendar_sync_failed).                                             *)
(***************************************************************************)
MirrorRecovers ==
    known /\ mirror.status \notin {"none", "ready"} ~> mirror.status = "ready" \/ ~known
================================================================================
