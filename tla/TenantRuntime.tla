----------------------------- MODULE TenantRuntime -----------------------------
(***************************************************************************)
(* One tenant's connection to its PBX: a broker-issued lease               *)
(* (createBrokerBoundTenantRuntime) around an authenticated client, the    *)
(* event adapter and the call controller (createThreeCxTenantRuntime).     *)
(* Starting and shutting down await the broker, the PBX and the            *)
(* controller's drain, each of which may fail; calls arrive, end and get   *)
(* stuck meanwhile, and the lease runs out.                                *)
(***************************************************************************)
EXTENDS EventAdapter

VARIABLES broker,   \* state of the broker-bound runtime
          runtime,  \* state of the 3CX runtime it owns
          lease,    \* the tenant's lease at the broker
          expired,  \* its expiresAt has passed
          armed,    \* the expiry watchdog's timer runs
          step      \* the await start() or shutdown() is in

owner == <<broker, runtime, lease, expired, armed, step>>
runtimeVars == <<adapterVars, owner>>

RuntimeTypeOK ==
    /\ AdapterTypeOK
    /\ broker \in {"idle", "starting", "running", "stopping", "draining", "failed", "stopped"}
    /\ runtime \in {"none", "starting", "running", "draining", "failed", "stopped", "abandoned"}
    /\ lease \in {"none", "held", "released"}
    /\ {expired, armed} \subseteq BOOLEAN
    /\ step \in {"none", "acquire", "connect", "drain", "disconnect", "release"}
    /\ step # "none" => broker \in {"starting", "stopping"}
    /\ armed => lease = "held"

RuntimeInit ==
    /\ AdapterInit
    /\ broker = "idle" /\ runtime = "none" /\ lease = "none"
    /\ expired = FALSE /\ armed = FALSE /\ step = "none"

Held == {c \in Calls : served[c] \in {"active", "stuck"}}

-----------------------------------------------------------------------------
StartTenant ==
    /\ broker = "idle"
    /\ broker' = "starting" /\ step' = "acquire"
    /\ UNCHANGED <<adapterVars, runtime, lease, expired, armed>>

\* acquireTenantLease, isLease, and the first half of the 3CX runtime's start
Acquire ==
    /\ step = "acquire"
    /\ \/ /\ broker' = "failed" /\ step' = "none"
          /\ UNCHANGED <<adapterVars, runtime, lease>>
       \/ /\ lease' = "held" /\ runtime' = "starting" /\ step' = "connect"
          /\ link' = "down" /\ Listen
          /\ UNCHANGED <<leg, number, drops, queue, task, tracked, control, broker>>
    /\ UNCHANGED <<expired, armed>>

\* client.connect() resolves: the watchdog is armed with what is left of the lease
Connects ==
    /\ step = "connect" /\ everConnected
    /\ runtime' = "running" /\ broker' = "running" /\ step' = "none"
    /\ armed' = TRUE
    /\ UNCHANGED <<adapterVars, lease, expired>>

Drain ==
    /\ stopping' = TRUE /\ step' = "drain"
    /\ UNCHANGED <<pbx, intake, queue, task, tracked, served, turnedAway>>

\* client.connect() rejects
ConnectFails ==
    /\ step = "connect"
    /\ Drain
    /\ UNCHANGED <<broker, runtime, lease, expired, armed>>

-----------------------------------------------------------------------------
(***************************************************************************)
(* ThreeCxSdkEventAdapter.shutdown: the controller drains, then the        *)
(* listeners go, then the client disconnects.                              *)
(***************************************************************************)
Starting == broker = "starting"

\* mutant: shutdown gives the lease back although calls are left
IncompleteReleasing == runtime' = "draining" /\ step' = "release" /\ broker' = broker

\* a drain that is not complete: start() goes on to give the lease back
Incomplete ==
    /\ runtime' = "draining"
    /\ step' = IF Starting THEN "release" ELSE "none"
    /\ broker' = IF Starting THEN broker ELSE "draining"

\* ThreeCxCallController.shutdown waits for the joins in flight, then ends each call
Drained ==
    /\ step = "drain" /\ task.at # "join"
    /\ \E left \in SUBSET Held :
         /\ served' = [c \in Calls |-> IF c \in left THEN "stuck"
                                       ELSE IF c \in Held THEN "closed" ELSE served[c]]
         /\ IF left = {}
            THEN Unlisten /\ step' = "disconnect" /\ UNCHANGED <<broker, runtime>>
            ELSE Incomplete /\ UNCHANGED intake
    /\ UNCHANGED <<pbx, queue, task, tracked, stopping, turnedAway, lease, expired, armed>>

Disconnect ==
    /\ step = "disconnect"
    /\ \/ /\ link' = "off"
          /\ runtime' = IF Starting THEN "failed" ELSE "stopped"
          /\ step' = "release" /\ UNCHANGED broker
       \/ link' \in {link, "off"} /\ Incomplete
    /\ UNCHANGED <<leg, number, drops, intake, queue, task, tracked, control, lease, expired, armed>>

\* mutant: the watchdog of a lease that was given back is left running
StaysArmedAlways == armed

\* a shutdown that could not give the lease back keeps the watchdog
StaysArmed == armed /\ broker' = "draining" /\ ~Starting

\* releaseOnce, and what start() and shutdown() do once it has answered
ReleaseLease ==
    /\ step = "release" /\ step' = "none"
    /\ \/ /\ lease' = "released"
          /\ broker' = IF Starting THEN "failed" ELSE "stopped"
       \/ broker' = "draining" /\ UNCHANGED lease
    /\ runtime' = IF Starting
                  THEN IF runtime = "draining" THEN "abandoned" ELSE "none"
                  ELSE runtime
    /\ armed' = StaysArmed
    /\ UNCHANGED <<adapterVars, expired>>

\* shutdown(): a call during start() takes effect when start() has ended
Shutdown ==
    /\ broker \in {"idle", "running", "draining", "failed"} /\ step = "none"
    /\ \/ /\ runtime \in {"running", "draining"}
          /\ broker' = "stopping" /\ Drain
       \/ /\ runtime \in {"none", "stopped", "abandoned"}
          /\ IF lease = "held" THEN broker' = "stopping" /\ step' = "release"
             ELSE broker' = "stopped" /\ UNCHANGED step
          /\ UNCHANGED adapterVars
    /\ UNCHANGED <<runtime, lease, expired, armed>>

-----------------------------------------------------------------------------
Expire ==
    /\ lease = "held" /\ ~expired /\ expired' = TRUE
    /\ UNCHANGED <<adapterVars, broker, runtime, lease, armed, step>>

\* armLeaseExpiryWatchdog's timer fires
Watchdog ==
    /\ armed /\ expired /\ armed' = FALSE
    /\ IF broker = "running" THEN broker' = "stopping" /\ Drain
       ELSE UNCHANGED <<adapterVars, broker, step>>
    /\ UNCHANGED <<runtime, lease, expired>>

Adapter == AdapterNext /\ UNCHANGED owner

RuntimeNext ==
    \/ Adapter
    \/ StartTenant \/ Acquire \/ Connects \/ ConnectFails
    \/ Drained \/ Disconnect \/ ReleaseLease \/ Shutdown
    \/ Expire \/ Watchdog

RuntimeSpec == RuntimeInit /\ [][RuntimeNext]_runtimeVars

-----------------------------------------------------------------------------
IntakeIsOpen == listening /\ link = "up" /\ accepting /\ queue = <<>> /\ task = Idle

\* a participant number that a stuck call's leg has given to another one
Reused(c) == \E d \in Calls \ {c} : number[d] = number[c]

(***************************************************************************)
(* Once events that were lost with the connection have been made up for,   *)
(* the controller serves nobody who has left: with the intake open and     *)
(* every event handled, each active call's leg is on the PBX               *)
(* (#reconcileAfterReconnect, threecx-sdk-event-adapter.mjs:200).          *)
(***************************************************************************)
OpenIntakeIsCurrent ==
    IntakeIsOpen => \A c \in Calls : served[c] = "active" => leg[c] = "up" \/ Reused(c)

(***************************************************************************)
(* ... and nobody on the line has been overlooked: each leg has been taken *)
(* to the controller or turned away for a reason, whether it came by an    *)
(* event, by a snapshot or by both.                                        *)
(***************************************************************************)
EveryCallerIsOffered ==
    IntakeIsOpen => \A c \in Up : served[c] # "unknown" \/ c \in turnedAway

(***************************************************************************)
(* A call the controller serves can be ended by the adapter: both maps     *)
(* know it, and they agree, unless another call was given its participant  *)
(* number, before it or after.                                             *)
(***************************************************************************)
ServedIsTracked ==
    \A c \in Calls : served[c] = "active" =>
        Reused(c) \/ (byCall[c] = number[c] /\ byId[number[c]] = c)

(***************************************************************************)
(* The lease outlives the calls it covers: it is given back only when none *)
(* is left, save after a failed start whose drain was not complete         *)
(* (broker-bound-tenant-runtime.mjs:71).                                   *)
(***************************************************************************)
LeaseCoversCalls ==
    lease # "held" => Held = {} \/ runtime = "abandoned"

(***************************************************************************)
(* The intake and the PBX agree: with the intake open and every event      *)
(* handled, the controller serves nobody who has left and has overlooked   *)
(* nobody who is there, whatever was lost with the connection in between.  *)
(***************************************************************************)
IntakeIsTrue == OpenIntakeIsCurrent /\ EveryCallerIsOffered
=============================================================================
