------------------------ MODULE BookingExclusionProofs ------------------------
(***************************************************************************)
(* Mutual exclusion of the handlers by the idempotency lock and of the     *)
(* workers by the lease, when nobody is held up past its lock or lease.    *)
(***************************************************************************)
EXTENDS BookingProofs

(***************************************************************************)
(* A handler's record stays taken, and unsettled, while it works: nobody   *)
(* else can acquire it, and no commit or release of its own was applied    *)
(* while it still has one to make.  With the record's writes failing it    *)
(* would not be so: the release after a commit or release that was applied *)
(* but raised finds the record settled, or taken by another handler.       *)
(***************************************************************************)
HoldsLock(e) ==
    idem[exec[e].key].status = "acquired" /\ ~idem[exec[e].key].expired

LockInv ==
    {"stall", "dberror"} \cap Faults = {} =>
        /\ \A e \in Execs : exec[e].pc # "idle" => HoldsLock(e)
        /\ \A e1, e2 \in Execs :
              exec[e1].pc # "idle" /\ exec[e2].pc # "idle"
              /\ exec[e1].key = exec[e2].key => e1 = e2

(***************************************************************************)
(* A step of one handler keeps the invariant when it leaves the others and *)
(* the other keys' records alone and keeps or gives up its own lock.       *)
(***************************************************************************)
LEMMA LockFrame ==
    ASSUME WellFormed, LockInv, NEW e \in Execs, exec[e].pc # "idle",
           \A f \in Execs : f # e => exec'[f] = exec[f],
           \A j \in Keys : j # exec[e].key => idem'[j] = idem[j],
           exec'[e].pc # "idle" => /\ exec'[e].key = exec[e].key
                                   /\ idem' = idem \/ "dberror" \in Faults
    PROVE  LockInv'
<1> SUFFICES ASSUME {"stall", "dberror"} \cap Faults = {}
             PROVE  /\ \A f \in Execs : exec'[f].pc # "idle" => HoldsLock(f)'
                    /\ \A e1, e2 \in Execs :
                          exec'[e1].pc # "idle" /\ exec'[e2].pc # "idle"
                          /\ exec'[e1].key = exec'[e2].key => e1 = e2
  BY DEF LockInv
<1>1. ASSUME NEW f \in Execs, exec'[f].pc # "idle" PROVE HoldsLock(f)'
  <2>1. CASE f = e
    BY <1>1, <2>1 DEF LockInv, HoldsLock
  <2>2. CASE f # e
    <3>1. exec[f].key # exec[e].key /\ exec[f].key \in Keys
      BY <1>1, <2>2, HandlerAtWork DEF LockInv
    <3> QED BY <1>1, <2>2, <3>1 DEF LockInv, HoldsLock
  <2> QED BY <2>1, <2>2
<1>2. ASSUME NEW e1 \in Execs, NEW e2 \in Execs,
             exec'[e1].pc # "idle", exec'[e2].pc # "idle",
             exec'[e1].key = exec'[e2].key
      PROVE  e1 = e2
  BY <1>2 DEF LockInv
<1> QED BY <1>1, <1>2

LEMMA HandlerKeepsLocks ==
    ASSUME WellFormed, LockInv, NEW e \in Execs
    PROVE  /\ \A k \in Keys : AcquireLock(e, k) => LockInv'
           /\ ExecStep(e) \/ ExecCrash(e) => LockInv'
<1> USE DEF provider, google
<1>0. TypeOK
  BY DEF WellFormed
\* The record was free or run out, so that no handler works on the key.
<1>1. ASSUME NEW k \in Keys, AcquireLock(e, k) PROVE LockInv'
  <2> SUFFICES ASSUME {"stall", "dberror"} \cap Faults = {} PROVE LockInv'
    BY DEF LockInv
  <2>1. \A f \in Execs : exec[f].pc # "idle" => exec[f].key # k
    BY <1>1 DEF AcquireLock, LockInv, HoldsLock
  <2>2. /\ exec'[e].pc # "idle" /\ exec'[e].key = k
        /\ \A f \in Execs : f # e => exec'[f] = exec[f]
    BY <1>0, <1>1 DEF AcquireLock, TypeOK
  <2>3. /\ idem'[k].status = "acquired" /\ ~idem'[k].expired
        /\ \A j \in Keys : j # k => idem'[j] = idem[j]
    BY <1>0, <1>1 DEF AcquireLock, TypeOK
  <2>4. ASSUME NEW f \in Execs, exec'[f].pc # "idle" PROVE HoldsLock(f)'
    <3>1. CASE f = e
      BY <2>2, <2>3, <3>1 DEF HoldsLock
    <3>2. CASE f # e
      <4>1. exec[f].key \in Keys /\ exec[f].key # k
        BY <2>1, <2>2, <2>4, <3>2, HandlerAtWork
      <4> QED BY <2>2, <2>3, <2>4, <3>2, <4>1 DEF LockInv, HoldsLock
    <3> QED BY <3>1, <3>2
  <2>5. ASSUME NEW e1 \in Execs, NEW e2 \in Execs,
               exec'[e1].pc # "idle", exec'[e2].pc # "idle",
               exec'[e1].key = exec'[e2].key
        PROVE  e1 = e2
    BY <2>1, <2>2, <2>5 DEF LockInv
  <2> QED BY <2>4, <2>5 DEF LockInv
\* Steps that leave the record alone and keep working on the key.
<1>2. CASE ExecCheck(e) \/ ExecInsert(e) \/ ExecTimeout(e) \/ ExecQueue(e)
  <2>1. exec[e].key \in Keys /\ exec[e].pc # "idle"
    BY <1>2, HandlerAtWork DEF ExecCheck, ExecInsert, ExecTimeout, ExecQueue
  <2>2. \/ exec' = [exec EXCEPT ![e].pc = "insert"]
        \/ exec' = [exec EXCEPT ![e].pc = "commit"]
        \/ Raise(e)
        \/ \E reply : AfterBroker(e, reply)
    BY <1>2 DEF ExecCheck, ExecInsert, ExecTimeout, ExecQueue
  <2>3. /\ exec'[e].key = exec[e].key
        /\ \A f \in Execs : f # e => exec'[f] = exec[f]
    BY <1>0, <2>2 DEF Raise, AfterBroker, TypeOK, ExecState
  <2>4. idem' = idem
    BY <1>2 DEF ExecCheck, ExecInsert, ExecTimeout, ExecQueue
  <2> QED BY <2>1, <2>3, <2>4, LockFrame
<1>3. CASE ExecCommit(e)
  <2>1. exec[e].key \in Keys /\ exec[e].pc # "idle"
    BY <1>3, HandlerAtWork DEF ExecCommit
  <2>2. /\ exec'[e].pc # "idle" => /\ exec'[e].key = exec[e].key
                                   /\ "dberror" \in Faults
        /\ \A f \in Execs : f # e => exec'[f] = exec[f]
    <3>1. CASE exec' = [exec EXCEPT ![e] = IdleExec]
      BY <1>0, <3>1, IdleEffect
    <3>2. CASE Raise(e) /\ "dberror" \in Faults
      BY <1>0, <2>1, <3>2, RaiseEffect
    <3> QED BY <1>3, <3>1, <3>2 DEF ExecCommit
  <2>3. \A j \in Keys : j # exec[e].key => idem'[j] = idem[j]
    BY <1>0, <1>3, <2>1 DEF ExecCommit, Committed, TypeOK
  <2> QED BY <2>1, <2>2, <2>3, LockFrame
<1>4. CASE ExecRelease(e) \/ ExecCrash(e)
  <2>1. exec[e].key \in Keys /\ exec[e].pc # "idle"
    BY <1>4, HandlerAtWork DEF ExecRelease, ExecCrash
  <2>2. /\ exec'[e].pc # "idle" => exec'[e].key = exec[e].key
        /\ \A f \in Execs : f # e => exec'[f] = exec[f]
    BY <1>4, LeavingEffect
  <2>3. exec'[e].pc # "idle" => "dberror" \in Faults
    <3>1. CASE exec' = [exec EXCEPT ![e] = IdleExec]
      BY <1>0, <3>1, IdleEffect
    <3> QED BY <1>4, <3>1 DEF ExecRelease, ExecCrash
  <2>4. \A j \in Keys : j # exec[e].key => idem'[j] = idem[j]
    BY <1>0, <1>4, <2>1 DEF ExecRelease, ExecCrash, Released, TypeOK
  <2> QED BY <2>1, <2>2, <2>3, <2>4, LockFrame
<1> QED BY <1>1, <1>2, <1>3, <1>4 DEF ExecStep

LEMMA LockInductive == Spec => []LockInv
<1>1. Init => LockInv
  BY DEF Init, LockInv, IdleExec
<1>2. WellFormed /\ LockInv /\ [Next]_vars => LockInv'
  <2> SUFFICES ASSUME WellFormed, LockInv, [Next]_vars PROVE LockInv'
    OBVIOUS
  <2> USE DEF provider, google
  \* A lock runs out only when its handler is gone.
  <2>1. ASSUME NEW k \in Keys, IdemExpire(k) PROVE LockInv'
    <3> SUFFICES ASSUME {"stall", "dberror"} \cap Faults = {} PROVE LockInv'
      BY DEF LockInv
    <3>1. \A e \in Execs : exec[e].key # k
      BY <2>1 DEF IdemExpire
    <3>2. \A j \in Keys : j # k => idem'[j] = idem[j]
      BY <2>1 DEF IdemExpire, WellFormed, TypeOK
    <3>3. UNCHANGED exec
      BY <2>1 DEF IdemExpire
    <3>4. \A e \in Execs : exec[e].pc # "idle" => exec[e].key \in Keys
      BY HandlerAtWork
    <3> QED BY <3>1, <3>2, <3>3, <3>4 DEF LockInv, HoldsLock
  <2>2. ASSUME NEW e \in Execs,
               (\E k \in Keys : AcquireLock(e, k)) \/ ExecStep(e) \/ ExecCrash(e)
        PROVE  LockInv'
    BY <2>2, HandlerKeepsLocks
  <2>3. CASE UNCHANGED <<idem, exec>>
    BY <2>3 DEF LockInv, HoldsLock
  <2>4. ASSUME NEW w \in Workers,
               (\E k \in Keys : Claim(w, k)) \/ WorkerStep(w) \/ WorkerCrash(w)
        PROVE  UNCHANGED <<idem, exec>>
    BY <2>4 DEF Claim, WorkerStep, WorkerStatus, WorkerAvailability,
                WorkerCheck, WorkerInsert, WorkerTimeout, WorkerWrite,
                WorkerWriteFails, WorkerCrash
  <2>5. ASSUME NEW k \in Keys,
               \/ ReplyFromCache(k) \/ LeaseExpire(k) \/ LateCheck(k)
               \/ LateInsert(k) \/ CancelRequest(k) \/ DeleteEvent(k)
        PROVE  UNCHANGED <<idem, exec>>
    BY <2>5 DEF ReplyFromCache, LeaseExpire, LateCheck, LateInsert,
                CancelRequest, DeleteEvent
  <2>6. ASSUME (\E s \in Slots : ChangeDiary(s)) \/ Disconnect \/ Reconnect \/ Resume
        PROVE  UNCHANGED <<idem, exec>>
    BY <2>6 DEF ChangeDiary, Disconnect, Reconnect, Resume
  <2>7. CASE UNCHANGED vars
    BY <2>3, <2>7 DEF vars
  <2> QED BY <2>1, <2>2, <2>3, <2>4, <2>5, <2>6, <2>7 DEF Next
<1> QED BY <1>1, <1>2, WellFormedInductive, PTL DEF Spec

(***************************************************************************)
(* Two handlers are never at work on one booking: acquire, commit, release *)
(* and expiry of the idempotency record exclude it for any number of them, *)
(* whatever crashes, is refused or times out, as long as no handler is     *)
(* held up past its lock's lifetime and the record's writes succeed.       *)
(***************************************************************************)
THEOREM OneHandlerPerBooking == Spec => []ExclusiveExecution
<1>1. WellFormed /\ LockInv => ExclusiveExecution
  <2> SUFFICES ASSUME WellFormed, LockInv,
                      {"stall", "dberror"} \cap Faults = {},
                      NEW e1 \in Execs, NEW e2 \in Execs,
                      exec[e1].key # NoKey, exec[e1].key = exec[e2].key
               PROVE  e1 = e2
    BY DEF ExclusiveExecution
  <2>1. IdleExec.key = NoKey
    BY DEF IdleExec
  <2>2. exec[e1].pc # "idle" /\ exec[e2].pc # "idle"
    BY <2>1 DEF WellFormed, ActorsOK
  <2> QED BY <2>2 DEF LockInv
<1> QED BY <1>1, WellFormedInductive, LockInductive, PTL

-----------------------------------------------------------------------------
(***************************************************************************)
(* The same for the workers: a row in a worker's hands is running under a  *)
(* lease.  With the queue's writes failing (dberror) a worker would go on  *)
(* after its row was written already, and the lease protect nothing.       *)
(***************************************************************************)
Leased(k) == row[k].status = "running" /\ row[k].leased

LeaseInv ==
    {"stall", "dberror"} \cap Faults = {} =>
        /\ \A w \in Workers : worker[w].pc # "idle" => Leased(worker[w].key)
        /\ \A v, w \in Workers :
              worker[v].pc # "idle" /\ worker[w].pc # "idle"
              /\ worker[v].key = worker[w].key => v = w

\* A step that leaves rows under a lease, and the workers, alone.
LEMMA LeasedRowsUntouched ==
    ASSUME WellFormed, LeaseInv, UNCHANGED worker,
           {"stall", "dberror"} \cap Faults = {} =>
              \A k \in Keys : Leased(k) /\ (\E w \in Workers : worker[w].key = k)
                              => row'[k] = row[k]
    PROVE  LeaseInv'
<1> SUFFICES ASSUME {"stall", "dberror"} \cap Faults = {} PROVE LeaseInv'
  BY DEF LeaseInv
<1>1. ASSUME NEW w \in Workers, worker[w].pc # "idle"
      PROVE  Leased(worker[w].key)'
  <2>1. worker[w].key \in Keys /\ Leased(worker[w].key)
    BY <1>1, WorkerAtWork DEF LeaseInv
  <2> QED BY <2>1 DEF Leased
<1> QED BY <1>1 DEF LeaseInv

\* A step of one worker that keeps its row, or leaves it for good.
LEMMA LeaseFrame ==
    ASSUME WellFormed, LeaseInv, NEW w \in Workers, worker[w].pc # "idle",
           \A v \in Workers : v # w => worker'[v] = worker[v],
           \A k \in Keys : k # worker[w].key => row'[k] = row[k],
           worker'[w].pc # "idle" => /\ worker'[w].key = worker[w].key
                                     /\ row' = row \/ "dberror" \in Faults
    PROVE  LeaseInv'
<1> SUFFICES ASSUME {"stall", "dberror"} \cap Faults = {}
             PROVE  /\ \A v \in Workers :
                          worker'[v].pc # "idle" => Leased(worker[v].key)'
                    /\ \A u, v \in Workers :
                          worker'[u].pc # "idle" /\ worker'[v].pc # "idle"
                          /\ worker'[u].key = worker'[v].key => u = v
  BY DEF LeaseInv
<1>1. ASSUME NEW v \in Workers, worker'[v].pc # "idle"
      PROVE  Leased(worker[v].key)'
  <2>1. CASE v = w
    BY <1>1, <2>1 DEF LeaseInv, Leased
  <2>2. CASE v # w
    <3>1. worker[v].key # worker[w].key /\ worker[v].key \in Keys
      BY <1>1, <2>2, WorkerAtWork DEF LeaseInv
    <3> QED BY <1>1, <2>2, <3>1 DEF LeaseInv, Leased
  <2> QED BY <2>1, <2>2
<1>2. ASSUME NEW u \in Workers, NEW v \in Workers,
             worker'[u].pc # "idle", worker'[v].pc # "idle",
             worker'[u].key = worker'[v].key
      PROVE  u = v
  BY <1>2 DEF LeaseInv
<1> QED BY <1>1, <1>2

LEMMA WorkerKeepsLeases ==
    ASSUME WellFormed, LeaseInv, NEW w \in Workers
    PROVE  /\ \A k \in Keys : Claim(w, k) => LeaseInv'
           /\ WorkerStep(w) \/ WorkerCrash(w) => LeaseInv'
<1> USE DEF provider, google
<1>0. TypeOK
  BY DEF WellFormed
<1>1. ASSUME NEW k \in Keys, Claim(w, k) PROVE LeaseInv'
  <2> SUFFICES ASSUME {"stall", "dberror"} \cap Faults = {} PROVE LeaseInv'
    BY DEF LeaseInv
  <2>1. \A v \in Workers : worker[v].pc # "idle" => worker[v].key # k
    BY <1>1 DEF Claim, Claimable, LeaseInv, Leased
  <2>2. /\ worker'[w].pc # "idle" /\ worker'[w].key = k
        /\ \A v \in Workers : v # w => worker'[v] = worker[v]
    BY <1>0, <1>1 DEF Claim, TypeOK
  <2>3. /\ row'[k].status = "running" /\ row'[k].leased
        /\ \A j \in Keys : j # k => row'[j] = row[j]
    BY <1>0, <1>1 DEF Claim, TypeOK
  <2>4. ASSUME NEW v \in Workers, worker'[v].pc # "idle"
        PROVE  Leased(worker[v].key)'
    <3>1. CASE v = w
      BY <2>2, <2>3, <3>1 DEF Leased
    <3>2. CASE v # w
      <4>1. worker[v].key \in Keys /\ worker[v].key # k
        BY <2>1, <2>2, <2>4, <3>2, WorkerAtWork
      <4> QED BY <2>2, <2>3, <2>4, <3>2, <4>1 DEF LeaseInv, Leased
    <3> QED BY <3>1, <3>2
  <2>5. ASSUME NEW u \in Workers, NEW v \in Workers,
               worker'[u].pc # "idle", worker'[v].pc # "idle",
               worker'[u].key = worker'[v].key
        PROVE  u = v
    BY <2>1, <2>2, <2>5 DEF LeaseInv
  <2> QED BY <2>4, <2>5 DEF LeaseInv
\* Steps that leave the queue alone and keep working on the row.
<1>2. CASE \/ WorkerStatus(w) \/ WorkerAvailability(w) \/ WorkerCheck(w)
           \/ WorkerInsert(w) \/ WorkerTimeout(w)
  <2> USE DEF WorkerStatus, WorkerAvailability, WorkerCheck, WorkerInsert,
              WorkerTimeout
  <2>1. worker[w].key \in Keys /\ worker[w].pc # "idle"
    BY <1>2, WorkerAtWork
  <2>2. \/ \E pc \in {"avail", "check", "insert"} : Advance(w, pc)
        \/ \E reply : Conclude(w, reply)
    BY <1>2
  <2>3. /\ worker'[w].key = worker[w].key
        /\ \A v \in Workers : v # w => worker'[v] = worker[v]
    BY <1>0, <2>1, <2>2, AdvanceEffect, ConcludeEffect
  <2>4. row' = row
    BY <1>2
  <2> QED BY <2>1, <2>3, <2>4, LeaseFrame
<1>3. CASE WorkerWrite(w) \/ WorkerWriteFails(w)
  <2>1. worker[w].key \in Keys /\ worker[w].pc # "idle"
    BY <1>3, WorkerAtWork DEF WorkerWrite, WorkerWriteFails
  <2>2. \A k \in Keys : k # worker[w].key => row'[k] = row[k]
    BY <1>0, <1>3, <2>1 DEF WorkerWrite, WorkerWriteFails, Written, TypeOK
  <2>3. CASE worker' = [worker EXCEPT ![w] = IdleWorker]
    BY <1>0, <2>1, <2>2, <2>3, DoneEffect, LeaseFrame
  <2>4. CASE "dberror" \in Faults /\ UNCHANGED exec
    BY <2>4 DEF LeaseInv
  <2> QED BY <1>3, <2>3, <2>4 DEF WorkerWrite, WorkerWriteFails
<1>4. CASE WorkerCrash(w)
  <2>1. worker[w].key \in Keys /\ worker[w].pc # "idle"
    BY <1>4, WorkerAtWork DEF WorkerCrash
  <2>2. row' = row /\ worker' = [worker EXCEPT ![w] = IdleWorker]
    BY <1>4 DEF WorkerCrash
  <2> QED BY <1>0, <2>1, <2>2, DoneEffect, LeaseFrame
<1> QED BY <1>1, <1>2, <1>3, <1>4 DEF WorkerStep

LEMMA LeaseInductive == Spec => []LeaseInv
<1>1. Init => LeaseInv
  BY DEF Init, LeaseInv, IdleWorker
<1>2. WellFormed /\ LeaseInv /\ [Next]_vars => LeaseInv'
  <2> SUFFICES ASSUME WellFormed, LeaseInv, [Next]_vars PROVE LeaseInv'
    OBVIOUS
  <2> USE DEF provider, google
  <2>0. TypeOK
    BY DEF WellFormed
  \* A lease runs out only when its worker is gone.
  <2>1. ASSUME NEW k \in Keys, LeaseExpire(k) PROVE LeaseInv'
    <3>1. \A j \in Keys : j # k => row'[j] = row[j]
      BY <2>0, <2>1 DEF LeaseExpire, TypeOK
    <3> QED BY <2>1, <3>1, LeasedRowsUntouched DEF LeaseExpire
  \* The client and the OAuth callback touch waiting rows only.
  <2>2. ASSUME NEW k \in Keys, CancelRequest(k) PROVE LeaseInv'
    <3>1. \A j \in Keys : j # k => row'[j] = row[j]
      BY <2>0, <2>2 DEF CancelRequest, TypeOK
    <3> QED BY <2>2, <3>1, LeasedRowsUntouched DEF CancelRequest, Leased
  <2>3. CASE Resume
    <3>1. \A j \in Keys : row[j].status # "needs_reconnect" => row'[j] = row[j]
      BY <2>3 DEF Resume
    <3> QED BY <2>3, <3>1, LeasedRowsUntouched DEF Resume, Leased
  <2>4. ASSUME NEW e \in Execs, ExecQueue(e) PROVE LeaseInv'
    <3>1. exec[e].key \in Keys
      BY <2>4, HandlerAtWork DEF ExecQueue
    <3>2. \A j \in Keys : row[j].status # "absent" => row'[j] = row[j]
      BY <2>0, <2>4, <3>1 DEF ExecQueue, Queued, TypeOK
    <3> QED BY <2>4, <3>2, LeasedRowsUntouched DEF ExecQueue, Leased
  <2>5. ASSUME NEW w \in Workers,
               (\E k \in Keys : Claim(w, k)) \/ WorkerStep(w) \/ WorkerCrash(w)
        PROVE  LeaseInv'
    BY <2>5, WorkerKeepsLeases
  <2>6. CASE UNCHANGED <<row, worker>>
    BY <2>6 DEF LeaseInv, Leased
  <2>7. ASSUME NEW e \in Execs, ~ExecQueue(e),
               (\E k \in Keys : AcquireLock(e, k)) \/ ExecStep(e) \/ ExecCrash(e)
        PROVE  UNCHANGED <<row, worker>>
    BY <2>7 DEF AcquireLock, ExecStep, ExecCheck, ExecInsert, ExecTimeout,
                ExecCommit, ExecRelease, ExecCrash
  <2>8. ASSUME NEW k \in Keys, \/ ReplyFromCache(k) \/ IdemExpire(k)
                               \/ LateCheck(k) \/ LateInsert(k) \/ DeleteEvent(k)
        PROVE  UNCHANGED <<row, worker>>
    BY <2>8 DEF ReplyFromCache, IdemExpire, LateCheck, LateInsert, DeleteEvent
  <2>9. ASSUME (\E s \in Slots : ChangeDiary(s)) \/ Disconnect \/ Reconnect
        PROVE  UNCHANGED <<row, worker>>
    BY <2>9 DEF ChangeDiary, Disconnect, Reconnect
  <2>10. CASE UNCHANGED vars
    BY <2>6, <2>10 DEF vars
  <2> QED BY <2>1, <2>2, <2>3, <2>4, <2>5, <2>6, <2>7, <2>8, <2>9, <2>10
          DEF Next
<1> QED BY <1>1, <1>2, WellFormedInductive, PTL DEF Spec

(***************************************************************************)
(* A request is in the hands of one worker at a time, under a lease no     *)
(* cancellation, resume or duplicate request can take away: claim_one and  *)
(* the guards of the queue's other writers exclude it, crashes included.   *)
(***************************************************************************)
THEOREM OneWorkerPerRequest == Spec => []ExclusiveClaim
<1>1. WellFormed /\ LeaseInv => ExclusiveClaim
  <2> SUFFICES ASSUME WellFormed, LeaseInv,
                      {"stall", "dberror"} \cap Faults = {},
                      NEW w \in Workers, worker[w].key # NoKey
               PROVE  /\ row[worker[w].key].status = "running"
                      /\ row[worker[w].key].leased
                      /\ \A v \in Workers : worker[v].key = worker[w].key => v = w
    BY DEF ExclusiveClaim
  <2>1. IdleWorker.key = NoKey
    BY DEF IdleWorker
  <2>2. \A v \in Workers : worker[v].key # NoKey => worker[v].pc # "idle"
    BY <2>1 DEF WellFormed, ActorsOK
  <2> QED BY <2>2 DEF LeaseInv, Leased
<1> QED BY <1>1, WellFormedInductive, LeaseInductive, PTL

-----------------------------------------------------------------------------
\* A row that is settled, and a record that is committed, before and after a step.
RowsStay == \A k \in Keys : row[k].status \in {"completed", "failed", "cancelled"}
                             => row'[k] = row[k]
RecordsStay == \A k \in Keys : idem[k].status = "committed" => idem'[k] = idem[k]

LEMMA SettledRowsStay ==
    ASSUME WellFormed, LeaseInv, [Next]_vars, {"stall", "dberror"} \cap Faults = {}
    PROVE  RowsStay
<1> USE DEF provider, google
<1>0. TypeOK
  BY DEF WellFormed
<1>1. ASSUME NEW e \in Execs, ExecQueue(e) PROVE RowsStay
  <2>1. exec[e].key \in Keys
    BY <1>1, HandlerAtWork DEF ExecQueue
  <2> QED BY <1>0, <1>1, <2>1 DEF ExecQueue, Queued, TypeOK, RowsStay
<1>2. ASSUME NEW w \in Workers, NEW k \in Keys, Claim(w, k) PROVE RowsStay
  BY <1>0, <1>2 DEF Claim, Claimable, TypeOK, RowsStay
\* The row a worker writes is running under its lease.
<1>3. ASSUME NEW w \in Workers, WorkerWrite(w) PROVE RowsStay
  <2>1. worker[w].key \in Keys /\ row[worker[w].key].status = "running"
    BY <1>3, WorkerAtWork DEF WorkerWrite, LeaseInv, Leased
  <2> QED BY <1>0, <1>3, <2>1 DEF WorkerWrite, Written, TypeOK, RowsStay
<1>4. ASSUME NEW k \in Keys, LeaseExpire(k) \/ CancelRequest(k) PROVE RowsStay
  BY <1>0, <1>4 DEF LeaseExpire, CancelRequest, TypeOK, RowsStay
<1>5. CASE Resume
  BY <1>5 DEF Resume, RowsStay
<1>6. CASE UNCHANGED row
  BY <1>6 DEF RowsStay
<1>7. ASSUME NEW e \in Execs, ~ExecQueue(e),
             (\E k \in Keys : AcquireLock(e, k)) \/ ExecStep(e) \/ ExecCrash(e)
      PROVE  UNCHANGED row
  BY <1>7 DEF AcquireLock, ExecStep, ExecCheck, ExecInsert, ExecTimeout,
              ExecCommit, ExecRelease, ExecCrash
<1>8. ASSUME NEW w \in Workers, ~WorkerWrite(w), WorkerStep(w) \/ WorkerCrash(w)
      PROVE  UNCHANGED row
  BY <1>8 DEF WorkerStep, WorkerStatus, WorkerAvailability, WorkerCheck, WorkerInsert,
              WorkerTimeout, WorkerWriteFails, WorkerCrash
<1>9. ASSUME NEW k \in Keys, \/ ReplyFromCache(k) \/ IdemExpire(k)
                             \/ LateCheck(k) \/ LateInsert(k) \/ DeleteEvent(k)
      PROVE  UNCHANGED row
  BY <1>9 DEF ReplyFromCache, IdemExpire, LateCheck, LateInsert, DeleteEvent
<1>10. ASSUME (\E s \in Slots : ChangeDiary(s)) \/ Disconnect \/ Reconnect
       PROVE  UNCHANGED row
  BY <1>10 DEF ChangeDiary, Disconnect, Reconnect
<1>11. CASE UNCHANGED vars
  BY <1>6, <1>11 DEF vars
<1> QED BY <1>1, <1>2, <1>3, <1>4, <1>5, <1>6, <1>7, <1>8, <1>9, <1>10, <1>11 DEF Next

LEMMA CommittedRecordsStay ==
    ASSUME WellFormed, LockInv, [Next]_vars, {"stall", "dberror"} \cap Faults = {}
    PROVE  RecordsStay
<1> USE DEF provider, google
<1>0. TypeOK
  BY DEF WellFormed
<1>1. ASSUME NEW e \in Execs, NEW k \in Keys, AcquireLock(e, k) PROVE RecordsStay
  BY <1>0, <1>1 DEF AcquireLock, TypeOK, RecordsStay
\* The record a handler settles is still acquired.
<1>2. ASSUME NEW e \in Execs, ExecCommit(e) \/ ExecRelease(e) PROVE RecordsStay
  <2>1. exec[e].key \in Keys /\ idem[exec[e].key].status = "acquired"
    BY <1>2, HandlerAtWork DEF ExecCommit, ExecRelease, LockInv, HoldsLock
  <2> QED BY <1>0, <1>2, <2>1 DEF ExecCommit, ExecRelease, Committed, Released,
                                  TypeOK, RecordsStay
<1>3. ASSUME NEW k \in Keys, IdemExpire(k) PROVE RecordsStay
  BY <1>0, <1>3 DEF IdemExpire, TypeOK, RecordsStay
<1>4. CASE UNCHANGED idem
  BY <1>4 DEF RecordsStay
<1>5. ASSUME NEW e \in Execs, ~ExecCommit(e), ~ExecRelease(e), ExecStep(e) \/ ExecCrash(e)
      PROVE  UNCHANGED idem
  BY <1>5 DEF ExecStep, ExecCheck, ExecInsert, ExecTimeout, ExecQueue, ExecCrash
<1>6. ASSUME NEW w \in Workers,
             (\E k \in Keys : Claim(w, k)) \/ WorkerStep(w) \/ WorkerCrash(w)
      PROVE  UNCHANGED idem
  BY <1>6 DEF Claim, WorkerStep, WorkerStatus, WorkerAvailability, WorkerCheck,
              WorkerInsert, WorkerTimeout, WorkerWrite, WorkerWriteFails, WorkerCrash
<1>7. ASSUME NEW k \in Keys,
             \/ ReplyFromCache(k) \/ LeaseExpire(k) \/ LateCheck(k)
             \/ LateInsert(k) \/ CancelRequest(k) \/ DeleteEvent(k)
      PROVE  UNCHANGED idem
  BY <1>7 DEF ReplyFromCache, LeaseExpire, LateCheck, LateInsert, CancelRequest, DeleteEvent
<1>8. ASSUME (\E s \in Slots : ChangeDiary(s)) \/ Disconnect \/ Reconnect \/ Resume
      PROVE  UNCHANGED idem
  BY <1>8 DEF ChangeDiary, Disconnect, Reconnect, Resume
<1>9. CASE UNCHANGED vars
  BY <1>4, <1>9 DEF vars
<1> QED BY <1>1, <1>2, <1>3, <1>4, <1>5, <1>6, <1>7, <1>8, <1>9 DEF Next, ExecStep

(***************************************************************************)
(* What is settled stays settled, for any number of handlers and workers   *)
(* and through any crashes: the writes of _write_result, the commit and    *)
(* the release have no condition of their own, but the lease and the lock  *)
(* leave only open rows and records to them.                               *)
(***************************************************************************)
THEOREM SettledStays == Spec => SettledIsFinal
<1>1. WellFormed /\ LeaseInv /\ LockInv /\ [Next]_vars
      => [{"stall", "dberror"} \cap Faults = {} =>
            \A k \in Keys :
               /\ row[k].status \in {"completed", "failed", "cancelled"}
                  => row'[k] = row[k]
               /\ idem[k].status = "committed" => idem'[k] = idem[k]]_vars
  BY SettledRowsStay, CommittedRecordsStay DEF RowsStay, RecordsStay
<1> QED
  BY <1>1, WellFormedInductive, LeaseInductive, LockInductive, PTL
  DEF Spec, SettledIsFinal

=============================================================================
