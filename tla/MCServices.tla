------------------------------ MODULE MCServices ------------------------------
(***************************************************************************)
(* A small instance for TLC of the broker's calendar reads, the voice      *)
(* agent, and the pages that hold a voice session or show a status that    *)
(* the backend changes.  They share no variable: a behaviour is one of a   *)
(* single part, chosen at the start.  No fair action is enabled in a       *)
(* part's initial state: fairness asks nothing of the parts that are not   *)
(* followed.                                                               *)
(***************************************************************************)
EXTENDS CalendarReads, AgentSession, TestingSandbox, LiveKitSession, StatusCards, TLC

CONSTANT Parts  \* the parts this instance follows

VARIABLE part

serverVars == <<readVars, agentVars>>
pageVars == <<sandboxVars, liveVars, cardVars>>
servicesVars == <<part, serverVars, pageVars>>

\* a part that is not followed has one initial state
ServicesInit ==
    /\ part \in Parts
    /\ ReadsInit /\ AgentInit /\ SandboxInit /\ LiveInit /\ CardsInit
    /\ part # "agent" => snapshot
    /\ part # "sandbox" => webLocks
    /\ part # "card" => ~linked.up /\ card.kind = "3cx"

ServerNext ==
    \/ /\ part = "reads" /\ ReadsNext /\ UNCHANGED agentVars
    \/ /\ part = "agent" /\ AgentNext /\ UNCHANGED readVars

PageNext ==
    \/ /\ part = "sandbox" /\ SandboxNext /\ UNCHANGED <<liveVars, cardVars>>
    \/ /\ part = "hook" /\ LiveNext /\ UNCHANGED <<sandboxVars, cardVars>>
    \/ /\ part = "notices" /\ NoticesNext /\ UNCHANGED <<sandboxVars, liveVars>>
    \/ /\ part = "card" /\ CardNext /\ UNCHANGED <<sandboxVars, liveVars>>

ServicesNext ==
    \/ ServerNext /\ UNCHANGED <<part, pageVars>>
    \/ PageNext /\ UNCHANGED <<part, serverVars>>

ServicesSpec ==
    /\ ServicesInit /\ [][ServicesNext]_servicesVars
    /\ ReadsFairness /\ AgentFairness /\ SandboxFairness /\ LiveFairness /\ CardsFairness

(***************************************************************************)
(* Every state of the parts is well typed.                                 *)
(***************************************************************************)
ServicesTypeOK ==
    /\ ReadsTypeOK /\ AgentTypeOK /\ SandboxTypeOK /\ LiveTypeOK /\ CardsTypeOK

(***************************************************************************)
(* A screen shows what there is: the hook's state is its room's            *)
(* (useLiveKitSession.ts), a card's that of the integration (App.tsx).     *)
(***************************************************************************)
ScreensAreTrue == HookIsInHand /\ CardIsTrue

(***************************************************************************)
(* Silence ends a session: an agent that falls silent does not keep its    *)
(* user, whatever the page shows (TestingSandboxPage.tsx and               *)
(* useLiveKitSession.ts, heartbeat timers), and a caller who does is left  *)
(* by the agent, but where its one attempt to leave failed (agent.py       *)
(* _silence_watchdog).                                                     *)
(***************************************************************************)
SilenceIsNotKept == SilentAgentIsNoticed /\ DeadAgentEndsTheSession /\ SilenceEndsTheCall

(***************************************************************************)
(* News arrive late but arrive: the mirror of a calendar is made ready     *)
(* again after a write or a failed synchronisation (main.py                *)
(* reconcile_loop), and no notice waits for a booking that has settled     *)
(* (App.tsx booking refresh), but where a refresh failed.                  *)
(***************************************************************************)
NewsArrive == MirrorRecovers /\ NoticeSettles
================================================================================
