------------------------------ MODULE SessionToken ------------------------------
(***************************************************************************)
(* One voice session being set up: the web proxy sends the token request   *)
(* again when it had no answer, and every request that reaches the backend *)
(* resolves a profile and runs get_or_create_session, which dispatches the *)
(* agent inside the transaction that records it.  A request the proxy gave *)
(* up goes on in the backend.  The owner may publish another profile.      *)
(* LiveKit's room is created at most once by its name and is left out.     *)
(***************************************************************************)
EXTENDS Naturals, FiniteSets

CONSTANTS Tries,    \* requests for the one session id: 1 + retries of the proxy
          Versions, \* profile versions the owner publishes, in any order
          Nothing   \* no row, no holder

Session == [agent : Tries, profile : Versions]

ASSUME TokenAssumption == Nothing \notin Tries \cup Versions \cup Session

VARIABLES proxy,     \* tries sent, the one waited for, and the answer given
          try,       \* the handler of each try: where it is and its profile
          sessionRow, \* the committed row of livekit_sessions
          advisory,  \* holder of the advisory transaction lock
          agents,    \* agents dispatched into the room: the try and its profile
          published  \* the published profile version

tokenVars == <<proxy, try, sessionRow, advisory, agents, published>>

\* within the transaction that took the lock
Inside == {"read", "dispatch", "insert", "commit"}

TokenTypeOK ==
    /\ proxy \in [sent : SUBSET Tries, waits : Tries \cup {Nothing},
                  answer : {"none", "token", "refused", "unavailable"}]
    /\ try \in [Tries -> [at : {"none", "profile", "lock", "read", "dispatch", "insert",
                                "commit", "token", "failed", "conflict"},
                          profile : Versions \cup {Nothing}]]
    /\ sessionRow \in Session \cup {Nothing}
    /\ advisory \in Tries \cup {Nothing}
    /\ \A t \in Tries : advisory = t <=> try[t].at \in Inside
    /\ agents \subseteq Tries \X Versions /\ published \in Versions

TokenInit ==
    /\ proxy = [sent |-> {}, waits |-> Nothing, answer |-> "none"]
    /\ try = [t \in Tries |-> [at |-> "none", profile |-> Nothing]]
    /\ sessionRow = Nothing /\ advisory = Nothing /\ agents = {}
    /\ published \in Versions

-----------------------------------------------------------------------------
\* proxyBackend: another attempt while there are any left, else 502
Send(t) ==
    /\ proxy.answer = "none" /\ proxy.waits = Nothing /\ t \notin proxy.sent
    /\ proxy' = [proxy EXCEPT !.sent = @ \cup {t}, !.waits = t]
    /\ try' = [try EXCEPT ![t].at = "profile"]
    /\ UNCHANGED <<sessionRow, advisory, agents, published>>

\* the request times out or its connection breaks; the handler is not told
NoAnswer ==
    /\ proxy.waits # Nothing
    /\ proxy' = [proxy EXCEPT !.waits = Nothing,
                     !.answer = IF proxy.sent = Tries THEN "unavailable" ELSE @]
    /\ UNCHANGED <<try, sessionRow, advisory, agents, published>>

\* any HTTP answer is passed on, an error status too
Answered ==
    /\ proxy.waits # Nothing
    /\ try[proxy.waits].at \in {"token", "failed", "conflict"}
    /\ proxy' = [proxy EXCEPT !.waits = Nothing,
                     !.answer = IF try[proxy.waits].at = "token" THEN "token" ELSE "refused"]
    /\ UNCHANGED <<try, sessionRow, advisory, agents, published>>

-----------------------------------------------------------------------------
\* resolve_livekit_profile; a missing or unusable profile answers an error
ResolveProfile(t) ==
    /\ try[t].at = "profile"
    /\ try' = [try EXCEPT ![t] = [at |-> "lock", profile |-> published]]
    /\ UNCHANGED <<proxy, sessionRow, advisory, agents, published>>

\* mutant: the lock does not exclude
NobodyInsideUnchecked == TRUE

NobodyInside == advisory = Nothing

\* pg_advisory_xact_lock
Lock(t) ==
    /\ try[t].at = "lock" /\ NobodyInside
    /\ advisory' = t /\ try' = [try EXCEPT ![t].at = "read"]
    /\ UNCHANGED <<proxy, sessionRow, agents, published>>

Ends(t, at) == advisory' = Nothing /\ try' = [try EXCEPT ![t].at = at]

\* mutant: a session on record is taken whatever its profile
SameProfileUnchecked(t) == TRUE

SameProfile(t) == sessionRow.profile = try[t].profile

\* the row another try committed: its session, or a conflict of profiles
Read(t) ==
    /\ try[t].at = "read"
    /\ \/ /\ sessionRow # Nothing /\ SameProfile(t)
          /\ Ends(t, "token")
       \/ /\ sessionRow # Nothing /\ ~SameProfile(t)
          /\ Ends(t, "conflict")
       \/ /\ sessionRow = Nothing
          /\ try' = [try EXCEPT ![t].at = "dispatch"] /\ UNCHANGED advisory
    /\ UNCHANGED <<proxy, sessionRow, agents, published>>

\* create_dispatch: the agent starts, also when its answer is lost
Dispatch(t) ==
    /\ try[t].at = "dispatch"
    /\ agents' = agents \cup {<<t, try[t].profile>>}
    /\ \/ try' = [try EXCEPT ![t].at = "insert"] /\ UNCHANGED advisory
       \/ Ends(t, "failed")
    /\ UNCHANGED <<proxy, sessionRow, published>>

Insert(t) ==
    /\ try[t].at = "insert"
    /\ try' = [try EXCEPT ![t].at = "commit"]
    /\ UNCHANGED <<proxy, sessionRow, advisory, agents, published>>

\* the commit, whose acknowledgement may be lost
Commit(t) ==
    /\ try[t].at = "commit"
    /\ sessionRow' = [agent |-> t, profile |-> try[t].profile]
    /\ Ends(t, "token") \/ Ends(t, "failed")
    /\ UNCHANGED <<proxy, agents, published>>

\* mutant: a transaction that fails keeps its lock
FailsInside(t) ==
    /\ try[t].at \in {"profile", "lock"} \cup Inside
    /\ try' = [try EXCEPT ![t].at = "failed"]
    /\ UNCHANGED <<proxy, sessionRow, advisory, agents, published>>

\* the handler, its connection or LiveKit fails: the transaction is undone
Fails(t) ==
    /\ try[t].at \in {"profile", "lock"} \cup Inside
    /\ try' = [try EXCEPT ![t].at = "failed"]
    /\ advisory' = IF advisory = t THEN Nothing ELSE advisory
    /\ UNCHANGED <<proxy, sessionRow, agents, published>>

PublishVersion(v) ==
    /\ published' = v
    /\ UNCHANGED <<proxy, try, sessionRow, advisory, agents>>

Handler(t) == ResolveProfile(t) \/ Lock(t) \/ Read(t) \/ Dispatch(t) \/ Insert(t)
                \/ Commit(t) \/ Fails(t)

TokenNext == \/ NoAnswer \/ Answered
             \/ \E t \in Tries : Send(t) \/ Handler(t)
             \/ \E v \in Versions : PublishVersion(v)

TokenSpec == TokenInit /\ [][TokenNext]_tokenVars

-----------------------------------------------------------------------------
(***************************************************************************)
(* "Return the durable room/dispatch pair, creating it exactly once"       *)
(* (livekit_sessions.py:24), as far as it goes: of the agents in the room  *)
(* only the recorded one belongs to a try that did not fail, however the   *)
(* tries and the proxy's time-outs interleave.                             *)
(***************************************************************************)
OnlyFailuresLeaveAgents ==
    \A a \in agents :
        a[1] = advisory \/ try[a[1]].at = "failed"
            \/ (sessionRow # Nothing /\ sessionRow.agent = a[1])

(***************************************************************************)
(* A token the browser is given names the session on record, whose agent   *)
(* was dispatched with the recorded profile.                               *)
(***************************************************************************)
TokenNamesTheSession ==
    \A t \in Tries : try[t].at = "token" =>
        /\ sessionRow # Nothing /\ sessionRow.profile = try[t].profile
        /\ <<sessionRow.agent, sessionRow.profile>> \in agents
=================================================================================
