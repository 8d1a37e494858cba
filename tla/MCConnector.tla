------------------------------ MODULE MCConnector ------------------------------
(***************************************************************************)
(* A small instance for TLC of two parts of a connector: the supervisor of *)
(* the tenants and the media bridge of a call.  They share no variable: a  *)
(* behaviour is one of a single part, chosen at the start.  No fair action *)
(* is enabled in a part's initial state: fairness asks nothing of the part *)
(* that is not followed.                                                   *)
(***************************************************************************)
EXTENDS TenantSupervisor, MediaBridge, TLC

CONSTANT Parts  \* the parts this instance follows

VARIABLE part

connectorVars == <<part, supervisorVars, mediaVars>>

\* a part that is not followed has one initial state
ConnectorInit ==
    /\ part \in Parts
    /\ SupervisorInit /\ MediaInit
    /\ part # "tenants" => \A t \in Tenants : active[t] = 0
    /\ part # "media" => bound

ConnectorNext ==
    \/ /\ part = "tenants" /\ SupervisorNext
       /\ UNCHANGED <<part, mediaVars>>
    \/ /\ part = "media" /\ MediaNext
       /\ UNCHANGED <<part, supervisorVars>>

ConnectorSpec == ConnectorInit /\ [][ConnectorNext]_connectorVars
                 /\ SupervisorFairness /\ MediaFairness

(***************************************************************************)
(* Every state of the two parts is well typed.                             *)
(***************************************************************************)
ConnectorTypeOK == SupervisorTypeOK /\ MediaTypeOK

(***************************************************************************)
(* Work under way comes to its end: the configuration last read is adopted *)
(* by the supervisor (multi-tenant-supervisor.mjs #reconcile), and the     *)
(* bridge of a call that ends stops its tasks                              *)
(* (threecx-livekit-media-bridge.mjs close), whatever failed meanwhile.    *)
(***************************************************************************)
ConnectorSettles == ConfigurationIsAdopted /\ MediaWindsDown
================================================================================
