----------------------------- MODULE EventAdapter -----------------------------
(***************************************************************************)
(* ThreeCxSdkEventAdapter between the PBX and the call controller.  The    *)
(* SDK's events are queued and handled one at a time, each handler awaits  *)
(* the DID resolver, the controller or the PBX; losing the connection acts *)
(* at once, between those awaits.  Events of the time without a connection *)
(* are never delivered: a reconnection compares the calls tracked here     *)
(* with a snapshot of the PBX before it opens the intake again.            *)
(***************************************************************************)
EXTENDS Naturals, Sequences, FiniteSets

CONSTANTS Calls,     \* legs on the route point, one participant_uid each
          Ids,       \* participant numbers, given again once they are free
          None,      \* no call, no number
          MaxDrops   \* bound on lost connections (a bound of the model)

ASSUME AdapterAssumption ==
    None \notin Calls \cup Ids /\ IsFiniteSet(Calls) /\ MaxDrops \in Nat

VARIABLES leg, number,  \* PBX: where each leg is, and its participant number
          link, drops,  \* the SDK's WebSocket, and how often it was lost
          epoch, everConnected, accepting, listening,  \* the adapter's fields
          queue,        \* eventQueue: operations that wait for their turn
          task,         \* the operation that runs, and the await it is in
          byCall, byId, \* participantByCallId and callIdByParticipantId
          served,       \* the controller: what it has of each call
          stopping,     \* the controller drains
          turnedAway    \* calls the resolver or the controller refused (history)

pbx == <<leg, number, link, drops>>
intake == <<epoch, everConnected, accepting, listening>>
tracked == <<byCall, byId>>
control == <<served, stopping, turnedAway>>
adapterVars == <<pbx, intake, queue, task, tracked, control>>

-----------------------------------------------------------------------------
Idle == [at |-> "idle", call |-> None, id |-> None, reconciling |-> FALSE,
         stale |-> {}, fresh |-> {}]

Up == {c \in Calls : leg[c] = "up"}

\* what handleConnected and the two participant listeners queue
Event == [op : {"connected"}, epoch : Nat, first : BOOLEAN]
         \cup [op : {"join"}, call : Calls] \cup [op : {"end"}, id : Ids]

Task == [at : {"idle", "snapshot", "purge", "admit", "resolve", "join", "end"},
         call : Calls \cup {None}, id : Ids \cup {None}, reconciling : BOOLEAN,
         stale : SUBSET Calls, fresh : SUBSET Calls]

AdapterTypeOK ==
    /\ leg \in [Calls -> {"none", "up", "gone"}]
    /\ number \in [Calls -> Ids \cup {None}]
    /\ link \in {"off", "down", "up"} /\ drops \in 0..MaxDrops
    /\ epoch \in Nat /\ {everConnected, accepting, listening, stopping} \subseteq BOOLEAN
    /\ queue \in Seq(Event) /\ task \in Task
    /\ byCall \in [Calls -> Ids \cup {None}]
    /\ byId \in [Ids -> Calls \cup {None}]
    /\ served \in [Calls -> {"unknown", "active", "stuck", "closed"}]
    /\ turnedAway \subseteq Calls

AdapterInit ==
    /\ leg = [c \in Calls |-> "none"] /\ number = [c \in Calls |-> None]
    /\ link = "off" /\ drops = 0
    /\ epoch = 0 /\ everConnected = FALSE /\ accepting = FALSE /\ listening = FALSE
    /\ queue = <<>> /\ task = Idle
    /\ byCall = [c \in Calls |-> None] /\ byId = [i \in Ids |-> None]
    /\ served = [c \in Calls |-> "unknown"]
    /\ stopping = FALSE /\ turnedAway = {}

-----------------------------------------------------------------------------
(***************************************************************************)
(* The PBX and the SDK.  The first connection announces the participants   *)
(* that are there already, a later one announces nothing.                  *)
(***************************************************************************)
JoinOf(c) == [op |-> "join", call |-> c]
Heard(events) == IF listening /\ link = "up" THEN queue \o events ELSE queue

Ring(c, i) ==
    /\ leg[c] = "none" /\ \A d \in Up : number[d] # i
    /\ leg' = [leg EXCEPT ![c] = "up"] /\ number' = [number EXCEPT ![c] = i]
    /\ queue' = Heard(<<JoinOf(c)>>)
    /\ UNCHANGED <<link, drops, intake, task, tracked, control>>

HangsUp(c) ==
    /\ leg[c] = "up"
    /\ leg' = [leg EXCEPT ![c] = "gone"]
    /\ queue' = Heard(<<[op |-> "end", id |-> number[c]]>>)
    /\ UNCHANGED <<number, link, drops, intake, task, tracked, control>>

\* handleConnected
Connected ==
    /\ link = "down" /\ link' = "up"
    /\ IF listening
       THEN \E order \in {s \in [1..Cardinality(Up) -> Up] :
                              {s[n] : n \in DOMAIN s} = Up} :
              /\ epoch' = epoch + 1 /\ everConnected' = TRUE
              /\ queue' = queue \o <<[op |-> "connected", epoch |-> epoch + 1,
                                      first |-> ~everConnected]>>
                   \o (IF everConnected THEN <<>>
                       ELSE [n \in DOMAIN order |-> JoinOf(order[n])])
       ELSE UNCHANGED <<epoch, everConnected, queue>>
    /\ UNCHANGED <<leg, number, drops, accepting, listening, task, tracked, control>>

\* handleClientDisconnected
Disconnected ==
    /\ link = "up" /\ drops < MaxDrops
    /\ link' = "down" /\ drops' = drops + 1
    /\ IF listening THEN epoch' = epoch + 1 /\ accepting' = FALSE
       ELSE UNCHANGED <<epoch, accepting>>
    /\ UNCHANGED <<leg, number, everConnected, listening, queue, task, tracked, control>>

-----------------------------------------------------------------------------
(***************************************************************************)
(* #enqueue: the next operation starts when the one before has ended.      *)
(***************************************************************************)
Next1(op) == task = Idle /\ queue # <<>> /\ Head(queue).op = op /\ queue' = Tail(queue)

\* mutant: a reconnection opens the intake without a snapshot
OpensAtOnceAlways(e) == TRUE

OpensAtOnce(e) == e.first

TakeConnected ==
    /\ Next1("connected")
    /\ LET e == Head(queue) IN
       \/ /\ e.epoch # epoch
          /\ UNCHANGED <<accepting, task>>
       \/ /\ e.epoch = epoch /\ OpensAtOnce(e)
          /\ accepting' = TRUE
          /\ UNCHANGED task
       \/ /\ e.epoch = epoch /\ ~OpensAtOnce(e)
          /\ accepting' = FALSE
          /\ task' = [Idle EXCEPT !.at = "snapshot", !.reconciling = TRUE]
    /\ UNCHANGED <<pbx, epoch, everConnected, listening, tracked, control>>

\* mutant: a call that is tracked already is taken again
AdmittedAgain(c) == accepting

\* #onParticipantConnected up to its first await
Admitted(c) == accepting /\ byCall[c] = None

TakeJoin ==
    /\ Next1("join")
    /\ LET c == Head(queue).call IN
       task' = IF Admitted(c) THEN [Idle EXCEPT !.at = "resolve", !.call = c] ELSE Idle
    /\ UNCHANGED <<pbx, intake, tracked, control>>

\* #onParticipantDisconnected up to its await
TakeEnd ==
    /\ Next1("end")
    /\ LET i == Head(queue).id IN
       task' = IF byId[i] = None THEN Idle
               ELSE [Idle EXCEPT !.at = "end", !.call = byId[i], !.id = i]
    /\ UNCHANGED <<pbx, intake, tracked, control>>

\* where a join goes on: a reconciliation has more of its snapshot to admit
Resumed == IF task.reconciling THEN [task EXCEPT !.at = "admit", !.call = None] ELSE Idle

\* resolveInboundCall answers; the event is at the controller's door
Resolved ==
    /\ task.at = "resolve"
    /\ LET c == task.call IN
       \/ /\ task' = Resumed /\ turnedAway' = turnedAway \cup {c}
          /\ UNCHANGED <<tracked, served>>
       \/ /\ stopping
          /\ byId' = [byId EXCEPT ![number[c]] = None]
          /\ task' = Resumed /\ turnedAway' = turnedAway \cup {c}
          /\ UNCHANGED <<byCall, served>>
       \/ /\ ~stopping
          /\ byCall' = [byCall EXCEPT ![c] = number[c]]
          /\ byId' = [byId EXCEPT ![number[c]] = c]
          /\ task' = [task EXCEPT !.at = "join"]
          /\ UNCHANGED <<served, turnedAway>>
    /\ UNCHANGED <<pbx, intake, queue, stopping>>

Untracked(c, i) == byCall' = [byCall EXCEPT ![c] = None] /\ byId' = [byId EXCEPT ![i] = None]

\* what handleEvent makes of a join: a call is claimed at most once
JoinOutcome(c) == {served[c]} \cup (IF served[c] = "unknown" THEN {"active", "stuck", "closed"} ELSE {})

JoinAnswered ==
    /\ task.at = "join"
    /\ LET c == task.call IN \E outcome \in JoinOutcome(c) :
         /\ served' = [served EXCEPT ![c] = outcome]
         /\ IF outcome = "active" /\ served[c] = "unknown" THEN UNCHANGED <<tracked, turnedAway>>
            ELSE Untracked(c, number[c]) /\ turnedAway' = turnedAway \cup {c}
    /\ task' = Resumed
    /\ UNCHANGED <<pbx, intake, queue, stopping>>

\* what handleEvent makes of an end: cleanup or a transition may fail
EndOutcome(c) == IF served[c] \in {"active", "stuck"} THEN {"closed", "stuck"} ELSE {served[c]}

EndAnswered ==
    /\ task.at = "end"
    /\ \E outcome \in EndOutcome(task.call) :
         /\ served' = [served EXCEPT ![task.call] = outcome]
         /\ IF outcome = "stuck" THEN UNCHANGED tracked ELSE Untracked(task.call, task.id)
    /\ task' = Idle
    /\ UNCHANGED <<pbx, intake, queue, stopping, turnedAway>>

-----------------------------------------------------------------------------
(***************************************************************************)
(* #reconcileAfterReconnect                                                *)
(***************************************************************************)
\* a tracked number belongs to its call only while its participant_uid is the same
GoneFromPbx == {c \in Calls : byCall[c] # None /\ ~\E d \in Up : number[d] = byCall[c] /\ d = c}

Snapshot ==
    /\ task.at = "snapshot"
    /\ task' \in {Idle, [task EXCEPT !.at = "purge", !.stale = GoneFromPbx, !.fresh = Up]}
    /\ UNCHANGED <<pbx, intake, queue, tracked, control>>

\* a tracked call the snapshot does not know has ended
Purge(c) ==
    /\ task.at = "purge" /\ c \in task.stale
    /\ \E outcome \in EndOutcome(c) :
         /\ served' = [served EXCEPT ![c] = outcome]
         /\ IF outcome = "stuck" THEN task' = Idle /\ UNCHANGED tracked
            ELSE task' = [task EXCEPT !.stale = @ \ {c}] /\ Untracked(c, byCall[c])
    /\ UNCHANGED <<pbx, intake, queue, stopping, turnedAway>>

Reopen ==
    /\ task.at = "purge" /\ task.stale = {}
    /\ accepting' = TRUE
    /\ task' = [task EXCEPT !.at = "admit"]
    /\ UNCHANGED <<pbx, epoch, everConnected, listening, queue, tracked, control>>

AdmitFresh(c) ==
    /\ task.at = "admit" /\ c \in task.fresh
    /\ task' = [task EXCEPT !.at = IF Admitted(c) THEN "resolve" ELSE "admit",
                            !.call = IF Admitted(c) THEN c ELSE None,
                            !.fresh = @ \ {c}]
    /\ UNCHANGED <<pbx, intake, queue, tracked, control>>

Reconciled ==
    /\ task.at = "admit" /\ task.fresh = {}
    /\ task' = Idle
    /\ UNCHANGED <<pbx, intake, queue, tracked, control>>

-----------------------------------------------------------------------------
\* the controller ends a call by itself: hang-up, media failure, lost lease
EndedByController(c) ==
    /\ served[c] = "active"
    /\ served' \in {[served EXCEPT ![c] = s] : s \in {"closed", "stuck"}}
    /\ UNCHANGED <<pbx, intake, queue, task, tracked, stopping, turnedAway>>

Handlers ==
    \/ TakeConnected \/ TakeJoin \/ TakeEnd
    \/ Resolved \/ JoinAnswered \/ EndAnswered
    \/ Snapshot \/ Reopen \/ Reconciled
    \/ \E c \in Calls : Purge(c) \/ AdmitFresh(c)

AdapterNext ==
    \/ \E c \in Calls : HangsUp(c) \/ EndedByController(c) \/ \E i \in Ids : Ring(c, i)
    \/ Connected \/ Disconnected
    \/ Handlers

\* start and stop of the adapter, for the runtime that owns it
Listen   == listening' = TRUE /\ UNCHANGED <<epoch, everConnected, accepting>>
Unlisten == listening' = FALSE /\ accepting' = FALSE /\ UNCHANGED <<epoch, everConnected>>
=============================================================================
