---------------------------- MODULE ConnectorProofs -----------------------------
(***************************************************************************)
(* The supervisor's runtimes and the media bridge of a call, as            *)
(* MCConnector puts them side by side: two runtimes of a company never     *)
(* take calls at once, and a call that is over moves no audio.             *)
(***************************************************************************)
EXTENDS MCConnector, TLAPS

Ending == state \in {"stopping", "stopped"}
InMap(r) == tenants[run[r].tenant] = r

(***************************************************************************)
(* The map holds every runtime that takes calls, but for those a           *)
(* reconciliation started after the shutdown had begun; their tenants are  *)
(* not due again.                                                          *)
(***************************************************************************)
MapIsConsistent == \A t \in Tenants : tenants[t] # None => run[tenants[t]].tenant = t

TakingIsMapped ==
    \A r \in Runtimes : Taking(r) =>
        /\ run[r].tenant \in Tenants
        /\ InMap(r) \/ (Ending /\ raced /\ run[r].tenant \notin rec.due)

HaltingIsMapped ==
    /\ halting # {} => state = "stopping"
    /\ \A r \in halting : Taking(r) => InMap(r)
    /\ \A r, s \in halting : run[r].tenant = run[s].tenant => r = s
    /\ \A r \in halting : run[r].tenant \in Tenants

LateIsNotDue ==
    Ending => /\ ~raced => rec = Resting
              /\ \A r \in Runtimes : Taking(r) /\ r \notin halting =>
                    raced /\ rec.at # "fetch" /\ run[r].tenant \notin rec.due

AwaitIsKnown ==
    /\ rec.at \in {"removing", "replacing", "starting"} =>
          /\ rec.tenant \in Tenants /\ rec.victim \in Runtimes
          /\ tenants[rec.tenant] \in {rec.victim, None}
    /\ rec.at = "starting" => run[rec.victim].state = "starting"

SupervisorInv ==
    /\ SupervisorTypeOK /\ OneRuntimeTakesCalls
    /\ MapIsConsistent /\ TakingIsMapped /\ HaltingIsMapped /\ LateIsNotDue /\ AwaitIsKnown

LEMMA Bounds == {0, 1} \subseteq Fingerprint /\ MaxEdits \in Nat
BY SupervisorAssumption DEF Fingerprint

LEMMA RestingType ==
    /\ Resting \in Reconciliation /\ NoRun \in RuntimeState
    /\ Resting.at = "idle" /\ Resting.due = {}
BY Bounds DEF Resting, Reconciliation, NoRun, RuntimeState

LEMMA SupervisorInitial == SupervisorInit => SupervisorInv
<1>. SUFFICES ASSUME SupervisorInit PROVE SupervisorInv
  OBVIOUS
<1>1. \A r \in Runtimes : ~Taking(r)
  BY DEF SupervisorInit, NoRun, Taking
<1>2. SupervisorTypeOK
  <2>1. active \in [Tenants -> Fingerprint] /\ edits \in 0..MaxEdits
    BY Bounds DEF SupervisorInit
  <2>2. run \in [Runtimes -> RuntimeState] /\ tenants \in [Tenants -> Runtimes \cup {None}]
    BY RestingType DEF SupervisorInit
  <2>. QED
    BY <2>1, <2>2, RestingType DEF SupervisorInit, SupervisorTypeOK
<1>. QED
  BY <1>1, <1>2 DEF SupervisorInit, SupervisorInv, OneRuntimeTakesCalls, MapIsConsistent,
     TakingIsMapped, HaltingIsMapped, LateIsNotDue, AwaitIsKnown, Ending, Resting

-----------------------------------------------------------------------------
(***************************************************************************)
(* Steps that touch neither the runtimes nor the map nor the shutdown.     *)
(***************************************************************************)
LEMMA BookkeepingSteps ==
    ASSUME SupervisorInv,
           \/ \E t \in Tenants : Edit(t) \/ Remove(t)
           \/ BeginReconcile \/ FetchFails \/ Fetched \/ AllRemoved \/ Completed
    PROVE  SupervisorInv'
<1>1. UNCHANGED <<run, tenants, halting, raced>>
  BY DEF Edit, Remove, BeginReconcile, FetchFails, Fetched, AllRemoved, Completed
<1>2. /\ state' = state \/ (state = "idle" /\ state' = "running")
      /\ Ending' <=> Ending
  BY DEF Edit, Remove, BeginReconcile, FetchFails, Fetched, AllRemoved, Completed, Ending
<1>3. \A r \in Runtimes : Taking(r)' <=> Taking(r)
  BY <1>1 DEF Taking
<1>4. /\ edits' \in 0..MaxEdits /\ active' \in [Tenants -> Fingerprint]
      /\ timer' \in BOOLEAN
  <2>. USE DEF SupervisorInv, SupervisorTypeOK
  <2>1. ASSUME NEW t \in Tenants, Edit(t)
        PROVE  edits' \in 0..MaxEdits /\ active' \in [Tenants -> Fingerprint]
    <3>1. /\ edits' = edits + 1 /\ edits < MaxEdits
          /\ \E f \in {0, edits + 2} : active' = [active EXCEPT ![t] = f]
      BY <2>1 DEF Edit
    <3>2. {0, edits + 2} \subseteq Fingerprint
      BY <3>1, Bounds DEF Fingerprint
    <3>. QED
      BY <3>1, <3>2, Bounds
  <2>2. (\E t \in Tenants : Edit(t)) \/ UNCHANGED <<edits, active>>
    BY DEF Remove, BeginReconcile, FetchFails, Fetched, AllRemoved, Completed
  <2>3. timer' \in BOOLEAN
    BY DEF Edit, Remove, BeginReconcile, FetchFails, Fetched, AllRemoved, Completed,
           EndReconcile
  <2>. QED
    BY <2>1, <2>2, <2>3
<1>5. /\ rec' \in Reconciliation
      /\ rec'.due \subseteq rec.due \/ rec.at = "fetch"
      /\ rec'.at = "fetch" => rec.at = "fetch" \/ ~Ending
      /\ ~raced /\ Ending /\ rec = Resting => rec' = Resting
      /\ AwaitIsKnown'
  <2>. USE DEF SupervisorInv, SupervisorTypeOK, Ending, AwaitIsKnown
  <2>1. CASE \E t \in Tenants : Edit(t)
    <3>1. UNCHANGED <<rec, run, tenants>>
      BY <2>1 DEF Edit
    <3>. QED
      BY <3>1
  <2>2. CASE \E t \in Tenants : Remove(t)
    <3>1. PICK t \in Tenants :
             /\ rec.at = "remove"
             /\ rec' = [rec EXCEPT !.at = IF tenants[t] = None THEN "remove" ELSE "removing",
                                   !.removed = @ \ {t}, !.tenant = t, !.victim = tenants[t]]
      BY <2>2 DEF Remove
    <3>2. rec' \in Reconciliation /\ rec'.due = rec.due /\ rec'.tenant = t
          /\ rec'.victim = tenants[t]
          /\ rec'.at \in {"remove", "removing"} /\ (rec'.at = "removing" => tenants[t] # None)
      BY <3>1 DEF Reconciliation
    <3>3. rec # Resting
      BY <3>1, RestingType
    <3>. QED
      BY <1>1, <3>1, <3>2, <3>3
  <2>3. CASE BeginReconcile
    BY <1>1, <2>3, RestingType DEF BeginReconcile, Reconciliation
  <2>4. CASE FetchFails \/ Completed
    BY <1>1, <2>4, RestingType DEF FetchFails, Completed, EndReconcile
  <2>5. CASE Fetched
    BY <1>1, <2>5, RestingType DEF Fetched, Reconciliation
  <2>6. CASE AllRemoved
    BY <1>1, <2>6, RestingType DEF AllRemoved, Reconciliation
  <2>. QED
    BY <2>1, <2>2, <2>3, <2>4, <2>5, <2>6
<1>6. SupervisorTypeOK'
  BY <1>1, <1>2, <1>4, <1>5 DEF SupervisorInv, SupervisorTypeOK
<1>7. OneRuntimeTakesCalls' /\ MapIsConsistent'
  BY <1>1, <1>3 DEF SupervisorInv, OneRuntimeTakesCalls, MapIsConsistent
<1>8. TakingIsMapped'
  BY <1>1, <1>2, <1>3, <1>5
     DEF SupervisorInv, TakingIsMapped, HaltingIsMapped, LateIsNotDue, InMap
<1>9. HaltingIsMapped'
  BY <1>1, <1>2, <1>3 DEF SupervisorInv, SupervisorTypeOK, HaltingIsMapped, InMap
<1>10. LateIsNotDue'
  BY <1>1, <1>2, <1>3, <1>5 DEF SupervisorInv, LateIsNotDue
<1>. QED
  BY <1>5, <1>6, <1>7, <1>8, <1>9, <1>10 DEF SupervisorInv

-----------------------------------------------------------------------------
(***************************************************************************)
(* The reconciliation gives up the runtime its await was about.            *)
(***************************************************************************)
GivesUp == Removed \/ Replaced \/ RuntimeStartFails

LEMMA GivingUp ==
    ASSUME SupervisorInv, GivesUp
    PROVE  SupervisorInv'
<1>. DEFINE v == rec.victim  t == rec.tenant
<1>1. /\ rec.at \in {"removing", "replacing", "starting"}
      /\ run' = [run EXCEPT ![v].state = "over"]
      /\ tenants' = [tenants EXCEPT ![t] = None]
      /\ UNCHANGED <<active, edits, state, timer, halting, raced>>
      /\ \E at \in {"remove", "adopt"} :
            rec' = [rec EXCEPT !.at = at, !.tenant = None, !.victim = None]
  BY DEF GivesUp, Removed, Replaced, RuntimeStartFails, ShutDown
<1>2. t \in Tenants /\ v \in Runtimes /\ tenants[t] \in {v, None}
  BY <1>1 DEF SupervisorInv, AwaitIsKnown
<1>3. SupervisorTypeOK'
  <2>1. rec' \in Reconciliation
    BY <1>1 DEF SupervisorInv, SupervisorTypeOK, Reconciliation
  <2>2. run' \in [Runtimes -> RuntimeState]
    BY <1>1, <1>2 DEF SupervisorInv, SupervisorTypeOK, RuntimeState
  <2>. QED
    BY <1>1, <1>2, <2>1, <2>2 DEF SupervisorInv, SupervisorTypeOK
<1>4. /\ \A r \in Runtimes : Taking(r)' => Taking(r) /\ r # v
      /\ \A r \in Runtimes : run'[r].tenant = run[r].tenant
  BY <1>1, <1>2 DEF SupervisorInv, SupervisorTypeOK, RuntimeState, Taking
<1>5. /\ rec'.due = rec.due /\ rec'.at \in {"remove", "adopt"}
      /\ rec # Resting
  BY <1>1, RestingType DEF SupervisorInv, SupervisorTypeOK, Reconciliation
<1>6. \A r \in Runtimes : Taking(r)' /\ InMap(r) /\ run[r].tenant \in Tenants => InMap(r)'
  BY <1>1, <1>2, <1>4 DEF InMap, SupervisorInv, SupervisorTypeOK
<1>7. OneRuntimeTakesCalls' /\ MapIsConsistent'
  BY <1>1, <1>2, <1>4, SupervisorAssumption
     DEF SupervisorInv, SupervisorTypeOK, OneRuntimeTakesCalls, MapIsConsistent
<1>8. TakingIsMapped'
  BY <1>1, <1>4, <1>5, <1>6 DEF SupervisorInv, TakingIsMapped, Ending
<1>9. HaltingIsMapped'
  BY <1>1, <1>4, <1>6 DEF SupervisorInv, SupervisorTypeOK, HaltingIsMapped
<1>10. LateIsNotDue'
  BY <1>1, <1>4, <1>5 DEF SupervisorInv, LateIsNotDue, Ending
<1>11. AwaitIsKnown'
  BY <1>5 DEF AwaitIsKnown
<1>. QED
  BY <1>3, <1>7, <1>8, <1>9, <1>10, <1>11 DEF SupervisorInv

(***************************************************************************)
(* A start that succeeds and a lease that runs out: one runtime changes    *)
(* its state and starts nothing.                                           *)
(***************************************************************************)
LEMMA RuntimeSteps ==
    ASSUME SupervisorInv, StartSucceeds \/ \E r \in Runtimes : LeaseExpires(r)
    PROVE  SupervisorInv'
<1>1. /\ UNCHANGED <<active, edits, tenants, state, timer, halting, raced>>
      /\ \E r \in Runtimes, s \in {"serving", "over"} :
            run' = [run EXCEPT ![r].state = s] /\ Taking(r)
            /\ (run[r].state = "starting" => rec'.at # "starting")
      /\ rec' \in Reconciliation /\ rec'.due = rec.due
      /\ \/ UNCHANGED rec
         \/ rec'.at = "adopt" /\ rec.at = "starting"
  <2>1. CASE StartSucceeds
    BY <2>1 DEF StartSucceeds, Taking, SupervisorInv, SupervisorTypeOK, AwaitIsKnown,
                Reconciliation
  <2>2. CASE \E r \in Runtimes : LeaseExpires(r)
    BY <2>2 DEF LeaseExpires, Taking, SupervisorInv, SupervisorTypeOK
  <2>. QED
    BY <2>1, <2>2
<1>2. SupervisorTypeOK'
  BY <1>1 DEF SupervisorInv, SupervisorTypeOK, RuntimeState
<1>3. /\ \A r \in Runtimes : Taking(r)' => Taking(r)
      /\ \A r \in Runtimes : run'[r].tenant = run[r].tenant
      /\ \A r \in Runtimes : rec'.at = "starting" /\ run[r].state = "starting" =>
                                run'[r].state = "starting"
  BY <1>1 DEF SupervisorInv, SupervisorTypeOK, RuntimeState, Taking
<1>4. OneRuntimeTakesCalls' /\ MapIsConsistent'
  BY <1>1, <1>3, SupervisorAssumption
     DEF SupervisorInv, SupervisorTypeOK, OneRuntimeTakesCalls, MapIsConsistent
<1>5. TakingIsMapped' /\ HaltingIsMapped'
  BY <1>1, <1>3
     DEF SupervisorInv, SupervisorTypeOK, TakingIsMapped, HaltingIsMapped, InMap, Ending
<1>6. LateIsNotDue'
  BY <1>1, <1>3, RestingType DEF SupervisorInv, LateIsNotDue, Ending
<1>7. AwaitIsKnown'
  BY <1>1, <1>3 DEF SupervisorInv, AwaitIsKnown
<1>. QED
  BY <1>2, <1>4, <1>5, <1>6, <1>7 DEF SupervisorInv

-----------------------------------------------------------------------------
(***************************************************************************)
(* The adoption of a tenant that is due.                                   *)
(***************************************************************************)
LEMMA FreshRuntime ==
    ASSUME NEW t \in Tenants, StartTenant(t)
    PROVE  \E r \in Runtimes :
              /\ Free(r)
              /\ run' = [run EXCEPT ![r] = [tenant |-> t, print |-> rec.list[t],
                                            state |-> "starting"]]
              /\ tenants' = [tenants EXCEPT ![t] = r]
              /\ rec' = [rec EXCEPT !.at = "starting", !.due = @ \ {t}, !.tenant = t,
                                    !.victim = r]
<1>. DEFINE r == CHOOSE x \in Runtimes : Free(x)
<1>1. r \in Runtimes /\ Free(r)
  BY DEF StartTenant
<1>. QED
  BY <1>1 DEF StartTenant

LEMMA AdoptStarts ==
    ASSUME SupervisorInv, NEW t \in Tenants, Adopt(t), tenants[t] = None
    PROVE  SupervisorInv'
<1>1. /\ rec.at = "adopt" /\ t \in rec.due /\ StartTenant(t)
      /\ UNCHANGED <<active, edits, state, timer, halting, raced>>
  BY DEF Adopt, IsStarted
<1>2. PICK r \in Runtimes :
         /\ Free(r)
         /\ run' = [run EXCEPT ![r] = [tenant |-> t, print |-> rec.list[t],
                                       state |-> "starting"]]
         /\ tenants' = [tenants EXCEPT ![t] = r]
         /\ rec' = [rec EXCEPT !.at = "starting", !.due = @ \ {t}, !.tenant = t, !.victim = r]
  BY <1>1, FreshRuntime
<1>3. r # None /\ r \notin halting /\ \A u \in Tenants : tenants[u] # r
  BY <1>2, SupervisorAssumption DEF Free
<1>4. SupervisorTypeOK'
  BY <1>1, <1>2 DEF SupervisorInv, SupervisorTypeOK, RuntimeState, Reconciliation
<1>5. /\ \A s \in Runtimes \ {r} : run'[s] = run[s]
      /\ run'[r].tenant = t /\ run'[r].state = "starting"
      /\ \A u \in Tenants \ {t} : tenants'[u] = tenants[u]
      /\ tenants'[t] = r
      /\ rec'.at = "starting" /\ rec'.due = rec.due \ {t}
      /\ rec'.tenant = t /\ rec'.victim = r /\ rec # Resting
  BY <1>1, <1>2, RestingType DEF SupervisorInv, SupervisorTypeOK, Reconciliation
<1>6. \A s \in Runtimes \ {r} : Taking(s)' => Taking(s) /\ run[s].tenant # t
  BY <1>1, <1>5, SupervisorAssumption DEF SupervisorInv, TakingIsMapped, InMap, Taking
<1>7. \A s \in Runtimes \ {r} : Taking(s) /\ InMap(s) => InMap(s)'
  BY <1>5, <1>6 DEF InMap, Taking, SupervisorInv, TakingIsMapped
<1>8. OneRuntimeTakesCalls'
  BY <1>5, <1>6 DEF SupervisorInv, OneRuntimeTakesCalls
<1>9. MapIsConsistent'
  BY <1>3, <1>5, SupervisorAssumption
     DEF SupervisorInv, SupervisorTypeOK, MapIsConsistent
<1>10. TakingIsMapped'
  BY <1>1, <1>5, <1>6, <1>7 DEF SupervisorInv, TakingIsMapped, InMap, Ending
<1>11. HaltingIsMapped'
  BY <1>1, <1>3, <1>5, <1>6, <1>7 DEF SupervisorInv, SupervisorTypeOK, HaltingIsMapped
<1>12. LateIsNotDue'
  BY <1>1, <1>3, <1>5, <1>6 DEF SupervisorInv, LateIsNotDue, Ending
<1>13. AwaitIsKnown'
  BY <1>5 DEF AwaitIsKnown
<1>. QED
  BY <1>4, <1>8, <1>9, <1>10, <1>11, <1>12, <1>13 DEF SupervisorInv

LEMMA AdoptKeeps ==
    ASSUME SupervisorInv, NEW t \in Tenants, Adopt(t), tenants[t] # None
    PROVE  SupervisorInv'
<1>1. /\ UNCHANGED <<active, edits, run, tenants, state, timer, halting, raced>>
      /\ rec.at = "adopt"
      /\ \/ rec' = [rec EXCEPT !.at = "replacing", !.tenant = t, !.victim = tenants[t]]
         \/ rec' = [rec EXCEPT !.due = @ \ {t}]
  BY DEF Adopt, IsStarted
<1>2. /\ rec' \in Reconciliation /\ rec'.due \subseteq rec.due /\ rec # Resting
      /\ rec'.at \in {"adopt", "replacing"}
      /\ rec'.at = "replacing" => rec'.tenant = t /\ rec'.victim = tenants[t]
  BY <1>1, RestingType DEF SupervisorInv, SupervisorTypeOK, Reconciliation
<1>3. AwaitIsKnown'
  BY <1>1, <1>2 DEF AwaitIsKnown, SupervisorInv, SupervisorTypeOK
<1>4. SupervisorTypeOK'
  BY <1>1, <1>2 DEF SupervisorInv, SupervisorTypeOK
<1>. QED
  BY <1>1, <1>2, <1>3, <1>4
     DEF SupervisorInv, OneRuntimeTakesCalls, MapIsConsistent, TakingIsMapped,
         HaltingIsMapped, LateIsNotDue, Taking, InMap, Ending

-----------------------------------------------------------------------------
(***************************************************************************)
(* The shutdown takes hold of every runtime in the map.                    *)
(***************************************************************************)
LEMMA ShutdownBegins ==
    ASSUME SupervisorInv, SupervisorShutdown
    PROVE  SupervisorInv'
<1>1. /\ state \in {"idle", "running"} /\ state' = "stopping" /\ timer' = FALSE
      /\ halting' = {tenants[t] : t \in Tenants} \ {None}
      /\ raced' = (rec # Resting)
      /\ UNCHANGED <<active, edits, run, tenants, rec>>
  BY DEF SupervisorShutdown
<1>2. SupervisorTypeOK'
  BY <1>1 DEF SupervisorInv, SupervisorTypeOK
<1>3. \A r \in Runtimes : Taking(r) => InMap(r) /\ run[r].tenant \in Tenants
  BY <1>1 DEF SupervisorInv, TakingIsMapped, Ending
<1>4. \A r \in Runtimes : Taking(r) => r \in halting'
  BY <1>1, <1>3, SupervisorAssumption DEF InMap
<1>5. \A r \in halting' : run[r].tenant \in Tenants /\ InMap(r)
  BY <1>1 DEF InMap, SupervisorInv, MapIsConsistent
<1>6. HaltingIsMapped'
  BY <1>1, <1>5 DEF HaltingIsMapped, InMap
<1>7. LateIsNotDue'
  BY <1>1, <1>4 DEF LateIsNotDue, Taking
<1>8. TakingIsMapped'
  BY <1>1, <1>3 DEF TakingIsMapped, InMap, Taking
<1>. QED
  BY <1>1, <1>2, <1>6, <1>7, <1>8
     DEF SupervisorInv, OneRuntimeTakesCalls, MapIsConsistent, AwaitIsKnown, Taking

(***************************************************************************)
(* The shutdown drains one runtime; the entry it deletes may be that of a  *)
(* runtime the reconciliation has started since.                           *)
(***************************************************************************)
LEMMA HaltedStep ==
    ASSUME SupervisorInv, NEW r \in Runtimes, Halted(r)
    PROVE  SupervisorInv'
<1>. DEFINE t == run[r].tenant
<1>1. /\ r \in halting /\ run[r].state # "starting"
      /\ run' = [run EXCEPT ![r].state = "over"]
      /\ tenants' = [tenants EXCEPT ![t] = None]
      /\ halting' = halting \ {r}
      /\ UNCHANGED <<active, edits, state, timer, rec, raced>>
  BY DEF Halted, ShutDown, Stoppable
<1>2. t \in Tenants /\ state = "stopping"
  BY <1>1 DEF SupervisorInv, HaltingIsMapped
<1>3. SupervisorTypeOK'
  BY <1>1, <1>2 DEF SupervisorInv, SupervisorTypeOK, RuntimeState
<1>4. /\ \A s \in Runtimes : Taking(s)' => Taking(s) /\ s # r
      /\ \A s \in Runtimes : run'[s].tenant = run[s].tenant
      /\ \A s \in Runtimes : run[s].state = "starting" => run'[s].state = "starting"
  BY <1>1 DEF SupervisorInv, SupervisorTypeOK, RuntimeState, Taking
<1>5. \A s \in Runtimes : InMap(s) /\ run[s].tenant \in Tenants \ {t} => InMap(s)'
  BY <1>1, <1>4 DEF InMap, SupervisorInv, SupervisorTypeOK
<1>6. \A s \in halting' : run[s].tenant \in Tenants \ {t}
  BY <1>1 DEF SupervisorInv, HaltingIsMapped
<1>7. OneRuntimeTakesCalls'
  BY <1>4 DEF SupervisorInv, OneRuntimeTakesCalls
<1>8. MapIsConsistent'
  BY <1>1, <1>4, SupervisorAssumption DEF SupervisorInv, SupervisorTypeOK, MapIsConsistent
<1>9. HaltingIsMapped'
  <2>1. \A s \in halting' : Taking(s)' => InMap(s)'
    BY <1>1, <1>4, <1>5, <1>6 DEF SupervisorInv, SupervisorTypeOK, HaltingIsMapped
  <2>. QED
    BY <1>1, <1>2, <1>4, <1>6, <2>1 DEF SupervisorInv, SupervisorTypeOK, HaltingIsMapped
<1>10. LateIsNotDue'
  BY <1>1, <1>2, <1>4 DEF SupervisorInv, LateIsNotDue, Ending
<1>11. TakingIsMapped'
  <2>. SUFFICES ASSUME NEW s \in Runtimes, Taking(s)'
                PROVE  /\ run'[s].tenant \in Tenants
                       /\ InMap(s)' \/ (Ending' /\ raced' /\ run'[s].tenant \notin rec'.due)
    BY DEF TakingIsMapped
  <2>1. Taking(s) /\ s # r /\ run'[s].tenant = run[s].tenant /\ run[s].tenant \in Tenants
    BY <1>4 DEF SupervisorInv, TakingIsMapped
  <2>2. CASE s \in halting
    BY <1>1, <1>5, <1>6, <2>1, <2>2 DEF SupervisorInv, HaltingIsMapped
  <2>3. CASE s \notin halting
    BY <1>1, <1>2, <2>1, <2>3 DEF SupervisorInv, LateIsNotDue, Ending
  <2>. QED
    BY <2>2, <2>3
<1>12. AwaitIsKnown'
  BY <1>1, <1>2, <1>4 DEF SupervisorInv, SupervisorTypeOK, AwaitIsKnown
<1>. QED
  BY <1>3, <1>7, <1>8, <1>9, <1>10, <1>11, <1>12 DEF SupervisorInv

LEMMA StoppedStep ==
    ASSUME SupervisorInv, Stopped
    PROVE  SupervisorInv'
<1>1. /\ state = "stopping" /\ halting = {} /\ state' = "stopped"
      /\ tenants' = [t \in Tenants |-> None]
      /\ UNCHANGED <<active, edits, run, timer, rec, halting, raced>>
  BY DEF Stopped
<1>2. SupervisorTypeOK'
  BY <1>1 DEF SupervisorInv, SupervisorTypeOK
<1>3. \A r \in Runtimes : Taking(r) => raced /\ run[r].tenant \notin rec.due
  BY <1>1 DEF SupervisorInv, LateIsNotDue, Ending
<1>4. TakingIsMapped'
  BY <1>1, <1>3 DEF SupervisorInv, TakingIsMapped, Taking, Ending
<1>5. LateIsNotDue' /\ HaltingIsMapped' /\ AwaitIsKnown'
  BY <1>1 DEF SupervisorInv, LateIsNotDue, HaltingIsMapped, AwaitIsKnown, Taking, Ending
<1>. QED
  BY <1>1, <1>2, <1>4, <1>5
     DEF SupervisorInv, OneRuntimeTakesCalls, MapIsConsistent, Taking

-----------------------------------------------------------------------------
LEMMA SupervisorInductive == SupervisorInv /\ [SupervisorNext]_supervisorVars => SupervisorInv'
<1>. SUFFICES ASSUME SupervisorInv, [SupervisorNext]_supervisorVars PROVE SupervisorInv'
  OBVIOUS
<1>1. CASE UNCHANGED supervisorVars
  BY <1>1 DEF supervisorVars, SupervisorInv, SupervisorTypeOK, OneRuntimeTakesCalls,
              MapIsConsistent, TakingIsMapped, HaltingIsMapped, LateIsNotDue, AwaitIsKnown,
              Taking, InMap, Ending
<1>2. CASE Reconcile
  BY <1>2, BookkeepingSteps, GivingUp, RuntimeSteps, AdoptStarts, AdoptKeeps
     DEF Reconcile, GivesUp
<1>. QED
  BY <1>1, <1>2, BookkeepingSteps, RuntimeSteps, HaltedStep, ShutdownBegins, StoppedStep
     DEF SupervisorNext

-----------------------------------------------------------------------------
(***************************************************************************)
(* The bridge: what close() has ended stays ended, since nothing that      *)
(* could start it again can still happen; and whoever held the close of a  *)
(* call has waited for it, or there was no bridge to close.                *)
(***************************************************************************)
ClosedIsUnderWay ==
    /\ closed <=> closing # "none"
    /\ closed => start \in {"started", "failing", "failed"}

CloseIsHeld ==
    /\ held => start = "started"
    /\ call = "over" => ~held
    /\ handler # "none" => call # "starting"
    /\ bound /\ ~held /\ call # "starting" => closing = "done" \/ start = "failed"

CloseGoesOn ==
    /\ closing \in {"pump", "tasks", "done"} => \A t \in Tracks : reader[t] # "reading"
    /\ closing \in {"tasks", "done"} => pump \in {"none", "over"}
    /\ closing = "done" => writer.state # "open" /\ \A t \in Tracks : reader[t] = "none"

MediaInv == MediaTypeOK /\ ClosedIsUnderWay /\ CloseIsHeld /\ CloseGoesOn

-----------------------------------------------------------------------------
LEMMA MediaInitial == MediaInit => MediaInv
<1>. SUFFICES ASSUME MediaInit PROVE MediaInv
  OBVIOUS
<1>1. MediaTypeOK
  <2>1. polls \in 0..MaxPolls /\ 0 \in 0..MaxQueue
    BY MediaAssumption DEF MediaInit
  <2>2. {closed, failed, hanging, held, bound, entryClosed} \subseteq BOOLEAN
    <3>1. bound \in BOOLEAN /\ closed \in BOOLEAN /\ failed \in BOOLEAN /\ hanging \in BOOLEAN
          /\ held \in BOOLEAN /\ entryClosed \in BOOLEAN
      BY DEF MediaInit
    <3>. QED BY <3>1
  <2>3. /\ reader \in [Tracks -> {"none", "reading", "unwinding"}]
        /\ writer \in [frames : 0..MaxQueue, state : {"none", "open", "cancelled"}]
    BY <2>1 DEF MediaInit
  <2>. QED BY <2>1, <2>2, <2>3 DEF MediaInit, MediaTypeOK
<1>. QED
  BY <1>1 DEF MediaInit, MediaInv, ClosedIsUnderWay, CloseIsHeld, CloseGoesOn

LEMMA FailType ==
    ASSUME MediaTypeOK, Fail
    PROVE  failed' \in BOOLEAN /\ report' \in {"none", "scheduled", "handling", "done"}
<1>1. CASE failed \/ closed
  BY <1>1 DEF Fail, MediaTypeOK
<1>2. CASE ~(failed \/ closed)
  BY <1>2 DEF Fail, MediaTypeOK
<1>. QED BY <1>1, <1>2

\* The bridge's start.
LEMMA StartingKeeps ==
    ASSUME MediaInv, Ask \/ Starting
    PROVE  MediaInv'
<1>. USE MediaAssumption DEF MediaInv, MediaTypeOK, ClosedIsUnderWay, CloseIsHeld, CloseGoesOn
<1>1. CASE Ask
  BY <1>1 DEF Ask, callVars
<1>2. CASE Poll
  BY <1>2 DEF Poll, callVars
<1>3. CASE TrackPublished
  BY <1>3 DEF TrackPublished, callVars
<1>4. CASE Opened
  BY <1>4 DEF Opened, callVars
<1>5. CASE StartThrows
  BY <1>5 DEF StartThrows, BeginClose, callVars
<1>6. CASE StartGivesUp
  BY <1>6 DEF StartGivesUp, callVars
<1>7. CASE Attached
  BY <1>7 DEF Attached, Handlers
<1>8. CASE NotAttached
  BY <1>8 DEF NotAttached
<1>. QED
  BY <1>1, <1>2, <1>3, <1>4, <1>5, <1>6, <1>7, <1>8 DEF Starting

\* Its close, and the tasks the close waits for.
LEMMA ClosingKeeps ==
    ASSUME MediaInv, Closing \/ Captured \/ PumpEnds \/ \E t \in Tracks : Task(t)
    PROVE  MediaInv'
<1>. USE MediaAssumption DEF MediaInv, MediaTypeOK, ClosedIsUnderWay, CloseIsHeld, CloseGoesOn
<1>1. CASE CloseReaders
  BY <1>1 DEF CloseReaders, callVars
<1>2. CASE ClosePump
  BY <1>2 DEF ClosePump, callVars
<1>3. CASE CloseTasks
  BY <1>3 DEF CloseTasks, callVars
<1>4. CASE Captured
  BY <1>4 DEF Captured, callVars
<1>5. CASE PumpEnds
  BY <1>5, FailType DEF PumpEnds, callVars
<1>6. ASSUME NEW t \in Tracks, AgentFrame(t) PROVE MediaInv'
  <2>1. /\ failed' \in BOOLEAN /\ report' \in {"none", "scheduled", "handling", "done"}
        /\ writer' \in [frames : 0..MaxQueue, state : {"none", "open", "cancelled"}]
        /\ reader' \in {reader, [reader EXCEPT ![t] = "unwinding"]}
    BY <1>6, FailType DEF AgentFrame, HasRoom
  <2>2. closing = "none" /\ UNCHANGED <<start, polls, closed, hanging, pump, pending, closing,
                                        agent, hangup, callVars>>
    BY <1>6 DEF AgentFrame
  <2>. QED BY <2>1, <2>2 DEF callVars
<1>7. ASSUME NEW t \in Tracks, ReadEnds(t) PROVE MediaInv'
  <2>1. failed' \in BOOLEAN /\ report' \in {"none", "scheduled", "handling", "done"}
    BY <1>7, FailType DEF ReadEnds
  <2>. QED BY <1>7, <2>1 DEF ReadEnds, callVars
<1>8. ASSUME NEW t \in Tracks, ReaderUnwinds(t) PROVE MediaInv'
  BY <1>8 DEF ReaderUnwinds, callVars
<1>. QED
  BY <1>1, <1>2, <1>3, <1>4, <1>5, <1>6, <1>7, <1>8 DEF Closing, Task

\* The room and the PBX.
LEMMA OutsideKeeps ==
    ASSUME MediaInv, Room \/ Pbx
    PROVE  MediaInv'
<1>. USE MediaAssumption DEF MediaInv, MediaTypeOK, ClosedIsUnderWay, CloseIsHeld, CloseGoesOn
<1>1. CASE AgentLeaves
  <2>1. failed' \in BOOLEAN /\ report' \in {"none", "scheduled", "handling", "done"}
    BY <1>1, FailType DEF AgentLeaves
  <2>. QED BY <1>1, <2>1 DEF AgentLeaves, callVars
<1>2. CASE AgentHangsUp
  BY <1>2 DEF AgentHangsUp, callVars
<1>3. ASSUME NEW t \in Tracks, Subscribed(t) PROVE MediaInv'
  BY <1>3 DEF Subscribed, Listening, callVars
<1>4. ASSUME NEW t \in Tracks, TrackUnsubscribed(t) PROVE MediaInv'
  <2>1. failed' \in BOOLEAN /\ report' \in {"none", "scheduled", "handling", "done"}
    BY <1>4, FailType DEF TrackUnsubscribed
  <2>. QED BY <1>4, <2>1 DEF TrackUnsubscribed, Listening, callVars
<1>5. CASE PbxPlays
  BY <1>5 DEF PbxPlays, callVars
<1>6. CASE PbxCancelsWriter
  BY <1>6 DEF PbxCancelsWriter, callVars
<1>7. ASSUME NEW n \in 1..2 * MaxQueue + 1, PumpChunk(n) PROVE MediaInv'
  <2>1. failed' \in BOOLEAN /\ report' \in {"none", "scheduled", "handling", "done"}
    BY <1>7, FailType DEF PumpChunk
  <2>2. /\ closing = "none" /\ pending' \in 0..1 /\ pump' \in {"over", "waiting", "capturing"}
        /\ UNCHANGED <<start, polls, closed, hanging, reader, writer, closing, agent, hangup, callVars>>
    BY <1>7 DEF PumpChunk
  <2>. QED BY <2>1, <2>2 DEF callVars
<1>. QED
  BY <1>1, <1>2, <1>3, <1>4, <1>5, <1>6, <1>7 DEF Room, Pbx

\* The call's handlers.
LEMMA HandlingKeeps ==
    ASSUME MediaInv, Handling \/ \E h \in Handlers : Handle(h)
    PROVE  MediaInv'
<1>. USE MediaAssumption DEF MediaInv, MediaTypeOK, ClosedIsUnderWay, CloseIsHeld, CloseGoesOn
<1>1. CASE CallClose
  BY <1>1 DEF CallClose, BeginClose, callVars
<1>2. CASE CallCloseThrows
  BY <1>2 DEF CallCloseThrows, HandlerDone, Settle
<1>3. CASE CleanUp
  <2>1. /\ handler # "none" /\ handler' = "none" /\ held' = FALSE
        /\ call' \in {"ending", "over", "disowned"}
        /\ report' \in {report, "done"} /\ hangup' \in {hangup, "done"}
        /\ UNCHANGED <<start, polls, closed, failed, hanging, reader, pump, pending, writer,
                       closing, agent, bound, entryClosed>>
    BY <1>3 DEF CleanUp, HandlerDone, Settle
  <2>2. bound /\ held => closing = "done"
    BY <1>3 DEF CleanUp, CloseReturned
  <2>3. bound => closing = "done" \/ start = "failed"
    BY <2>1, <2>2
  <2>4. MediaTypeOK'
    <3>1. held' \in BOOLEAN /\ {closed, failed, hanging, bound, entryClosed}' \subseteq BOOLEAN
      BY <2>1
    <3>2. {closed, failed, hanging, held, bound, entryClosed}' \subseteq BOOLEAN
      BY <3>1
    <3>. QED BY <2>1, <3>2
  <2>5. ClosedIsUnderWay' /\ CloseGoesOn'
    BY <2>1
  <2>6. CloseIsHeld'
    BY <2>1, <2>3
  <2>. QED BY <2>4, <2>5, <2>6
<1>4. ASSUME NEW h \in Handlers, Handle(h) PROVE MediaInv'
  BY <1>4 DEF Handle, Settle, Handlers
<1>. QED
  BY <1>1, <1>2, <1>3, <1>4 DEF Handling

LEMMA MediaInductive == MediaInv /\ [MediaNext]_mediaVars => MediaInv'
<1>. SUFFICES ASSUME MediaInv, [MediaNext]_mediaVars PROVE MediaInv'
  OBVIOUS
<1>1. CASE UNCHANGED mediaVars
  BY <1>1 DEF mediaVars, callVars, MediaInv, MediaTypeOK, ClosedIsUnderWay, CloseIsHeld, CloseGoesOn
<1>. QED
  BY <1>1, StartingKeeps, ClosingKeeps, OutsideKeeps, HandlingKeeps DEF MediaNext

-----------------------------------------------------------------------------
\* A behaviour of the instance is one of both parts.
LEMMA ConnectorInvariance == ConnectorSpec => [](SupervisorInv /\ MediaInv)
<1>1. ConnectorInit => SupervisorInv /\ MediaInv
  BY SupervisorInitial, MediaInitial DEF ConnectorInit
<1>2. [ConnectorNext]_connectorVars => [SupervisorNext]_supervisorVars /\ [MediaNext]_mediaVars
  BY DEF ConnectorNext, connectorVars
<1>. QED
  BY <1>1, <1>2, SupervisorInductive, MediaInductive, PTL DEF ConnectorSpec

(***************************************************************************)
(* Whatever the broker lists and whenever the shutdown comes, two runtimes *)
(* of one company never take calls side by side, and one that takes calls  *)
(* is in the map or, once the process ends, with the shutdown; only a      *)
(* reconciliation the shutdown interrupted starts others.                  *)
(***************************************************************************)
THEOREM InHand == ConnectorSpec => []RuntimesAreInHand
<1>1. SupervisorInv => OneRuntimeTakesCalls
  BY DEF SupervisorInv
<1>2. SupervisorInv => RuntimesAreKnown
  BY DEF SupervisorInv, SupervisorTypeOK, TakingIsMapped, LateIsNotDue, HaltingIsMapped,
         RuntimesAreKnown, InMap, Ending
<1>. QED
  BY <1>1, <1>2, ConnectorInvariance, PTL DEF RuntimesAreInHand

(***************************************************************************)
(* Types of both parts: the supervisor's map and reconciliation, and the   *)
(* bridge's buffers, which hold no more frames than they may               *)
(* (threecx-livekit-media-bridge.mjs, maxBufferedMs).                      *)
(***************************************************************************)
THEOREM ConnectorTypes == ConnectorSpec => []ConnectorTypeOK
<1>1. SupervisorInv /\ MediaInv => ConnectorTypeOK
  BY DEF SupervisorInv, MediaInv, ConnectorTypeOK
<1>. QED
  BY <1>1, ConnectorInvariance, PTL

(***************************************************************************)
(* A call is over only when its bridge is closed and none of its tasks     *)
(* moves audio, for any number of tracks, polls and buffered frames,       *)
(* provided the entry's close reaches the bridge (close() of the bridge,   *)
(* #cleanup of the controller).                                            *)
(***************************************************************************)
THEOREM EndedCallsAreQuiet == ConnectorSpec => []EndedCallIsQuiet
<1>1. MediaInv => EndedCallIsQuiet
  BY DEF MediaInv, ClosedIsUnderWay, CloseIsHeld, CloseGoesOn, MediaTypeOK, EndedCallIsQuiet, Quiet
<1>. QED
  BY <1>1, ConnectorInvariance, PTL
================================================================================
