--------------------------- MODULE TenantSupervisor ---------------------------
(***************************************************************************)
(* MultiTenantSupervisor: every reconcileIntervalMs it fetches the active  *)
(* tenants from the broker, stops the runtimes of tenants that are gone,   *)
(* starts those of new ones and restarts those whose configuration has     *)
(* another fingerprint, one await at a time, while owners edit their       *)
(* integrations, leases run out and the process is told to shut down.      *)
(* A runtime is what TenantRuntime models, seen from outside.              *)
(***************************************************************************)
EXTENDS Naturals, FiniteSets

CONSTANTS Tenants,   \* companies
          Runtimes,  \* runtime objects; one that has ended is free again
          None,      \* no runtime, no tenant
          MaxEdits   \* bound on changes of configuration (a bound of the model)

ASSUME SupervisorAssumption == None \notin Tenants \cup Runtimes /\ MaxEdits \in Nat

VARIABLES active,  \* broker: fingerprint of each tenant's configuration, 0 when inactive
          edits,   \* changes so far
          run,     \* the runtime objects
          tenants, \* the supervisor's map
          state,   \* the supervisor's state
          timer,   \* the next reconciliation is scheduled
          rec,     \* the reconciliation in progress and the await it is in
          halting, \* runtimes the shutdown waits for
          raced    \* shutdown began during a reconciliation (history)

supervisorVars == <<active, edits, run, tenants, state, timer, rec, halting, raced>>

Fingerprint == 0..MaxEdits + 1
NoRun == [tenant |-> None, print |-> 0, state |-> "unused"]
Resting == [at |-> "idle", list |-> [t \in Tenants |-> 0], removed |-> {},
            due |-> {}, tenant |-> None, victim |-> None]

Reconciliation ==
    [at : {"idle", "fetch", "remove", "removing", "adopt", "replacing", "starting"},
     list : [Tenants -> Fingerprint], removed : SUBSET Tenants, due : SUBSET Tenants,
     tenant : Tenants \cup {None}, victim : Runtimes \cup {None}]
RuntimeState == [tenant : Tenants \cup {None}, print : Fingerprint,
                 state : {"unused", "starting", "serving", "over"}]

SupervisorTypeOK ==
    /\ active \in [Tenants -> Fingerprint] /\ edits \in 0..MaxEdits
    /\ run \in [Runtimes -> RuntimeState]
    /\ tenants \in [Tenants -> Runtimes \cup {None}]
    /\ state \in {"idle", "running", "stopping", "stopped"}
    /\ timer \in BOOLEAN /\ raced \in BOOLEAN
    /\ rec \in Reconciliation
    /\ halting \subseteq Runtimes

SupervisorInit ==
    /\ active \in [Tenants -> {0, 1}] /\ edits = 0
    /\ run = [r \in Runtimes |-> NoRun]
    /\ tenants = [t \in Tenants |-> None]
    /\ state = "idle" /\ timer = FALSE /\ rec = Resting
    /\ halting = {} /\ raced = FALSE

Taking(r) == run[r].state \in {"starting", "serving"}

-----------------------------------------------------------------------------
\* an owner connects, disconnects or edits a 3CX integration
Edit(t) ==
    /\ edits < MaxEdits /\ edits' = edits + 1
    /\ active' \in {[active EXCEPT ![t] = f] : f \in {0, edits + 2} \ {active[t]}}
    /\ UNCHANGED <<run, tenants, state, timer, rec, halting, raced>>

\* start() and the timer of #scheduleNextReconcile both enter reconcile()
BeginReconcile ==
    /\ rec = Resting
    /\ \/ state = "idle" /\ state' = "running" /\ UNCHANGED timer
       \/ state = "running" /\ timer /\ timer' = FALSE /\ UNCHANGED state
    /\ rec' = [Resting EXCEPT !.at = "fetch"]
    /\ UNCHANGED <<active, edits, run, tenants, halting, raced>>

\* the end of reconcile(), whatever its outcome, and #scheduleNextReconcile
EndReconcile == rec' = Resting /\ timer' = (state = "running")

\* mutant: only a reconciliation that fetched its list schedules the next
FetchFailsForGood ==
    /\ rec.at = "fetch" /\ rec' = Resting
    /\ UNCHANGED <<active, edits, run, tenants, state, timer, halting, raced>>

FetchFails ==
    /\ rec.at = "fetch" /\ EndReconcile
    /\ UNCHANGED <<active, edits, run, tenants, state, halting, raced>>

Fetched ==
    /\ rec.at = "fetch"
    /\ rec' = [rec EXCEPT !.at = "remove", !.list = active,
                          !.removed = {t \in Tenants : tenants[t] # None /\ active[t] = 0},
                          !.due = {t \in Tenants : active[t] # 0}]
    /\ UNCHANGED <<active, edits, run, tenants, state, timer, halting, raced>>

\* #stopTenant of a tenant that is no longer listed; the entry was read at the fetch
Remove(t) ==
    /\ rec.at = "remove" /\ t \in rec.removed
    /\ rec' = [rec EXCEPT !.at = IF tenants[t] = None THEN "remove" ELSE "removing",
                          !.removed = @ \ {t}, !.tenant = t, !.victim = tenants[t]]
    /\ UNCHANGED <<active, edits, run, tenants, state, timer, halting, raced>>

AllRemoved ==
    /\ rec.at = "remove" /\ rec.removed = {}
    /\ rec' = [rec EXCEPT !.at = "adopt"]
    /\ UNCHANGED <<active, edits, run, tenants, state, timer, halting, raced>>

\* shutdown() of a runtime that starts waits for the start
Stoppable(r) == run[r].state # "starting"

\* runtime.shutdown() answers or throws: drained or not, it takes no more calls
ShutDown(r) == Stoppable(r) /\ run' = [run EXCEPT ![r].state = "over"]

Removed ==
    /\ rec.at = "removing"
    /\ ShutDown(rec.victim)
    /\ tenants' = [tenants EXCEPT ![rec.tenant] = None]
    /\ rec' = [rec EXCEPT !.at = "remove", !.tenant = None, !.victim = None]
    /\ UNCHANGED <<active, edits, state, timer, halting, raced>>

\* an object nothing refers to any more
Free(r) == ~Taking(r) /\ r \notin halting /\ \A t \in Tenants : tenants[t] # r

\* #startTenant up to its await: the entry is in the map before the start
StartTenant(t) ==
    LET r == CHOOSE x \in Runtimes : Free(x) IN
        /\ \E x \in Runtimes : Free(x)
        /\ run' = [run EXCEPT ![r] = [tenant |-> t, print |-> rec.list[t], state |-> "starting"]]
        /\ tenants' = [tenants EXCEPT ![t] = r]
        /\ rec' = [rec EXCEPT !.at = "starting", !.due = @ \ {t}, !.tenant = t, !.victim = r]

\* mutant: the new runtime is started without stopping the old one
IsStartedInPlace(t) == tenants[t] # None => run[tenants[t]].print # rec.list[t]

IsStarted(t) == tenants[t] = None

Adopt(t) ==
    /\ rec.at = "adopt" /\ t \in rec.due
    /\ \/ /\ IsStarted(t)
          /\ StartTenant(t)
       \/ /\ ~IsStarted(t) /\ run[tenants[t]].print # rec.list[t]
          /\ rec' = [rec EXCEPT !.at = "replacing", !.tenant = t, !.victim = tenants[t]]
          /\ UNCHANGED <<run, tenants>>
       \/ /\ tenants[t] # None /\ run[tenants[t]].print = rec.list[t]
          /\ rec' = [rec EXCEPT !.due = @ \ {t}]
          /\ UNCHANGED <<run, tenants>>
    /\ UNCHANGED <<active, edits, state, timer, halting, raced>>

\* the old runtime's shutdown answers; the tenant is due without an entry again
Replaced ==
    /\ rec.at = "replacing"
    /\ ShutDown(rec.victim)
    /\ tenants' = [tenants EXCEPT ![rec.tenant] = None]
    /\ rec' = [rec EXCEPT !.at = "adopt", !.tenant = None, !.victim = None]
    /\ UNCHANGED <<active, edits, state, timer, halting, raced>>

StartSucceeds ==
    /\ rec.at = "starting"
    /\ run' = [run EXCEPT ![rec.victim].state = "serving"]
    /\ rec' = [rec EXCEPT !.at = "adopt", !.tenant = None, !.victim = None]
    /\ UNCHANGED <<active, edits, tenants, state, timer, halting, raced>>

RuntimeStartFails ==
    /\ rec.at = "starting"
    /\ run' = [run EXCEPT ![rec.victim].state = "over"]
    /\ tenants' = [tenants EXCEPT ![rec.tenant] = None]
    /\ rec' = [rec EXCEPT !.at = "adopt", !.tenant = None, !.victim = None]
    /\ UNCHANGED <<active, edits, state, timer, halting, raced>>

Completed ==
    /\ rec.at = "adopt" /\ rec.due = {} /\ EndReconcile
    /\ UNCHANGED <<active, edits, run, tenants, state, halting, raced>>

-----------------------------------------------------------------------------
\* the lease's watchdog shuts a runtime down; the supervisor is not told
LeaseExpires(r) ==
    /\ run[r].state = "serving"
    /\ run' = [run EXCEPT ![r].state = "over"]
    /\ UNCHANGED <<active, edits, tenants, state, timer, rec, halting, raced>>

SupervisorShutdown ==
    /\ state \in {"idle", "running"} /\ state' = "stopping"
    /\ timer' = FALSE
    /\ halting' = {tenants[t] : t \in Tenants} \ {None}
    /\ raced' = (rec # Resting)
    /\ UNCHANGED <<active, edits, run, tenants, rec>>

\* #stopTenant for the shutdown: it deletes the tenant's entry, whichever that is
Halted(r) ==
    /\ r \in halting
    /\ ShutDown(r)
    /\ tenants' = [tenants EXCEPT ![run[r].tenant] = None]
    /\ halting' = halting \ {r}
    /\ UNCHANGED <<active, edits, state, timer, rec, raced>>

Stopped ==
    /\ state = "stopping" /\ halting = {}
    /\ tenants' = [t \in Tenants |-> None]
    /\ state' = "stopped"
    /\ UNCHANGED <<active, edits, run, timer, rec, halting, raced>>

Reconcile ==
    \/ BeginReconcile \/ FetchFails \/ Fetched \/ AllRemoved \/ Completed
    \/ Removed \/ Replaced \/ StartSucceeds \/ RuntimeStartFails
    \/ \E t \in Tenants : Remove(t) \/ Adopt(t)

SupervisorNext ==
    \/ Reconcile
    \/ \E t \in Tenants : Edit(t)
    \/ \E r \in Runtimes : LeaseExpires(r) \/ Halted(r)
    \/ SupervisorShutdown \/ Stopped

SupervisorSpec == SupervisorInit /\ [][SupervisorNext]_supervisorVars

(***************************************************************************)
(* Promises settle and the timer fires; a broker that is asked over and    *)
(* over answers sometimes, and a start tried over and over succeeds.       *)
(***************************************************************************)
SupervisorFairness ==
    /\ WF_supervisorVars(state # "idle" /\ Reconcile) /\ WF_supervisorVars(Stopped)
    /\ SF_supervisorVars(Fetched) /\ SF_supervisorVars(StartSucceeds)
    /\ \A r \in Runtimes : WF_supervisorVars(Halted(r))

-----------------------------------------------------------------------------
(***************************************************************************)
(* Two runtimes of one company never take calls side by side, whatever     *)
(* the order of edits, failures and the shutdown: the old one has at least *)
(* begun to drain before the new one starts.                               *)
(***************************************************************************)
OneRuntimeTakesCalls ==
    \A r, s \in Runtimes : Taking(r) /\ Taking(s) /\ run[r].tenant = run[s].tenant => r = s

(***************************************************************************)
(* A runtime that takes calls is in the map, where a later change or the   *)
(* shutdown finds it; when the supervisor has stopped none is left, unless *)
(* the shutdown came during a reconciliation (multi-tenant-supervisor.mjs  *)
(* :133, which goes on starting tenants).                                  *)
(***************************************************************************)
RuntimesAreKnown ==
    \A r \in Runtimes : Taking(r) =>
        \/ state \in {"idle", "running"} /\ tenants[run[r].tenant] = r
        \/ state = "stopping" /\ (r \in halting \/ raced)
        \/ state = "stopped" /\ raced

(***************************************************************************)
(* A change of the active tenants reaches the runtimes: once the           *)
(* configurations rest, the map of a supervisor that was started comes to  *)
(* match them, unless it is shut down.                                    *)
(***************************************************************************)
Adopted(t) ==
    IF active[t] = 0 THEN tenants[t] = None
    ELSE tenants[t] # None /\ run[tenants[t]].print = active[t]

ConfigurationIsAdopted ==
    \A t \in Tenants : state = "running" /\ edits = MaxEdits
                          ~> Adopted(t) \/ state \in {"stopping", "stopped"}

(***************************************************************************)
(* The supervisor has its runtimes in hand: one at most takes calls for a  *)
(* company, and it is the one a later change or the shutdown finds.        *)
(***************************************************************************)
RuntimesAreInHand == OneRuntimeTakesCalls /\ RuntimesAreKnown
=============================================================================
