---------------------------- MODULE CallController ----------------------------
(***************************************************************************)
(* One inbound 3CX call in the hands of ThreeCxCallController.  A join     *)
(* event claims the call's row in threecx_call_sessions, then an agent is  *)
(* dispatched to LiveKit and a media bridge attached; the end of the call, *)
(* a media failure, the agent's own hang-up, a lost lease or the shutdown  *)
(* of the connector take all of that down again.  Each of these operations *)
(* awaits the database, LiveKit and the PBX many times; the operations on  *)
(* one call take turns under the call's lock, the calls and the connector  *)
(* processes interleave at every await.                                    *)
(***************************************************************************)
EXTENDS Naturals, FiniteSets

CONSTANTS Connectors,   \* connector processes bound to the tenant
          NoConnector,  \* the owner of an unclaimed call
          Calls,        \* PBX calls, one pbx_call_id each
          MaxCrashes,   \* bound on process crashes (a bound of the model)
          Faults        \* the kinds of trouble this instance meets

(***************************************************************************)
(* database: a statement raises, applied or not.   livekit: a request to   *)
(* LiveKit fails.   lost: the answer to a dispatch is lost.   pbx: the     *)
(* transfer or drop of the caller is not confirmed.   stall: the lease of  *)
(* a call runs out.   crash: a connector dies and is started again.        *)
(***************************************************************************)
CallFaultKinds == {"database", "livekit", "lost", "pbx", "stall", "crash"}

ASSUME CallAssumption ==
    /\ NoConnector \notin Connectors
    /\ MaxCrashes \in Nat
    /\ Faults \subseteq CallFaultKinds

VARIABLES row,        \* threecx_call_sessions
          caller,     \* the caller on the PBX's route point
          agents,     \* LiveKit: <<connector, call>> with a dispatched agent
          bridges,    \* <<connector, call>> with an open media bridge
          dispatches, \* agents dispatched to each call so far (history)
          entry,      \* the controllers' maps of calls and their locks
          claiming,   \* join events that wait for claim_threecx_call
          mode,       \* how far each controller's shutdown has got
          todo,       \* calls a running shutdown has yet to drain
          died        \* connectors whose process has died (history)

outside == <<row, caller, agents, bridges, dispatches>>
controller == <<claiming, mode, todo>>
vars == <<outside, entry, controller, died>>

-----------------------------------------------------------------------------
(***************************************************************************)
(* THREECX_CALL_TRANSITIONS.                                               *)
(***************************************************************************)
RowStates == {"claimed", "connecting", "active", "transferring",
              "transferred", "ending", "ended", "failed"}
Terminal == {"ended", "failed"}

Transitions == [s \in RowStates |->
    CASE s = "claimed"      -> {"connecting", "failed", "ended"}
      [] s = "connecting"   -> {"active", "failed", "ending"}
      [] s = "active"       -> {"transferring", "ending", "failed"}
      [] s = "transferring" -> {"transferred", "active", "failed"}
      [] s = "transferred"  -> {"ending", "ended"}
      [] s = "ending"       -> {"ended", "failed"}
      [] OTHER              -> {}]

Ops == {"start", "end", "mediaFailure", "hangup", "shutdown", "renew"}
Pcs == {"idle", "connecting", "dispatch", "attach", "activate", "renew",
        "ending", "media", "agent", "fallback", "final"}

Row == [state : RowStates \cup {"absent"}, owner : Connectors \cup {NoConnector},
        leased : BOOLEAN]

\* tracked: still in the controller's map.  agent, media: dispatchId and
\* closeMedia are set.  due: the join was answered "call_active", so the event
\* adapter keeps the participant and owes one end event for it.  op, pc: the
\* operation that holds the lock.
Entry == [tracked : BOOLEAN, state : RowStates, agent : BOOLEAN,
          media : BOOLEAN, due : BOOLEAN, timer : BOOLEAN, leaseLost : BOOLEAN,
          renewFailed : BOOLEAN, waiting : SUBSET (Ops \ {"start"}),
          op : Ops \cup {"none"}, pc : Pcs, clean : BOOLEAN, moved : BOOLEAN]

NoEntry == [tracked |-> FALSE, state |-> "claimed", agent |-> FALSE,
            media |-> FALSE, due |-> FALSE, timer |-> FALSE, leaseLost |-> FALSE,
            renewFailed |-> FALSE, waiting |-> {}, op |-> "none",
            pc |-> "idle", clean |-> TRUE, moved |-> FALSE]

Modes == {"serving", "waiting", "draining", "incomplete", "drained"}

CallTypeOK ==
    /\ row \in [Calls -> Row]
    /\ caller \in [Calls -> {"away", "waiting", "gone"}]
    /\ agents \subseteq Connectors \X Calls
    /\ bridges \subseteq Connectors \X Calls
    /\ dispatches \in [Calls -> Nat]
    /\ entry \in [Connectors -> [Calls -> Entry]]
    /\ claiming \in [Connectors -> SUBSET Calls]
    /\ mode \in [Connectors -> Modes]
    /\ todo \in [Connectors -> SUBSET Calls]
    /\ died \subseteq Connectors
    /\ \A k \in Connectors, c \in Calls :
          entry[k][c].op = "none" <=> entry[k][c].pc = "idle"

Init ==
    /\ row = [c \in Calls |-> [state |-> "absent", owner |-> NoConnector,
                               leased |-> FALSE]]
    /\ caller = [c \in Calls |-> "away"]
    /\ agents = {}
    /\ bridges = {}
    /\ dispatches = [c \in Calls |-> 0]
    /\ entry = [k \in Connectors |-> [c \in Calls |-> NoEntry]]
    /\ claiming = [k \in Connectors |-> {}]
    /\ mode = [k \in Connectors |-> "serving"]
    /\ todo = [k \in Connectors |-> {}]
    /\ died = {}

-----------------------------------------------------------------------------
(***************************************************************************)
(* The database.                                                           *)
(***************************************************************************)
Moved(c, to) == [row EXCEPT ![c].state = to]

\* Mutant: the compare-and-set does not look at the state it expects.
OwnsIgnoringState(k, c) == row[c].owner = k

\* The row still is as this connector's entry believes: its claim_token and
\* its state match.
Owns(k, c) == row[c].owner = k /\ row[c].state = entry[k][c].state

\* transition_threecx_call: a compare-and-set on owner and state, whose answer
\* may be lost.  An illegal transition raises.
Transition(k, c, to, answer) ==
    LET legal == to \in Transitions[entry[k][c].state] IN
    \/ /\ answer = "done" /\ legal /\ Owns(k, c)
       /\ row' = Moved(c, to)
    \/ /\ answer = "refused" /\ legal /\ ~Owns(k, c)
       /\ UNCHANGED row
    \/ /\ answer = "raised"
       /\ ~legal \/ "database" \in Faults
       /\ UNCHANGED row
    \/ /\ answer = "raised" /\ "database" \in Faults /\ legal /\ Owns(k, c)
       /\ row' = Moved(c, to)

Answers == {"done", "refused", "raised"}

\* A connector's process ends and is started anew: its map, its bridges and the
\* joins and the shutdown under way are lost, its agents stay in their rooms.
ProcessEnds(k) ==
    /\ died' = died \cup {k}
    /\ entry' = [entry EXCEPT ![k] = [c \in Calls |-> NoEntry]]
    /\ bridges' = {b \in bridges : b[1] # k}
    /\ claiming' = [claiming EXCEPT ![k] = {}]
    /\ mode' = [mode EXCEPT ![k] = "serving"]
    /\ todo' = [todo EXCEPT ![k] = {}]

-----------------------------------------------------------------------------
(***************************************************************************)
(* The operations and the lock they queue for.                             *)
(***************************************************************************)
Put(k, c, e) == entry' = [entry EXCEPT ![k][c] = e]
Goto(k, c, pc) == Put(k, c, [entry[k][c] EXCEPT !.pc = pc])

\* Mutant: the operation ends without handing on the lock.
FinishedHoldingLock(e) == [e EXCEPT !.pc = "idle", !.clean = TRUE]

\* The lock is released; a renewal sets the next timer.
Finished(e) ==
    [e EXCEPT !.op = "none", !.pc = "idle", !.clean = TRUE, !.moved = FALSE,
              !.timer = e.timer \/ (e.op = "renew" /\ e.state = "active"
                                    /\ ~e.leaseLost)]

Finish(k, c) == Put(k, c, Finished(entry[k][c]))

Request(k, c, o) ==
    /\ o \notin entry[k][c].waiting
    /\ entry' = [entry EXCEPT ![k][c].waiting = @ \cup {o}]

\* Mutant: a call that is already ending is left to whoever marked it.
SupersededOnceEnding(o, state) == \/ state \in Terminal \cup {"ending"}
                                  \/ (o = "renew" /\ state # "active")

\* What an operation finds nothing left to do for.
Superseded(o, state) == state \in Terminal \/ (o = "renew" /\ state # "active")

FirstStep(o, state) ==
    CASE o = "renew" -> "renew"
      [] o = "end" /\ state = "claimed" -> "final"
      [] o = "shutdown" /\ state = "claimed" -> "media"
      [] state = "ending" -> "media"
      [] OTHER -> "ending"

\* An operation gets the lock.  All but a renewal stop the timer, which a
\* renewal that has just ended may set once more.
Begin(k, c, o) ==
    LET e == entry[k][c] IN
    /\ e.op = "none" /\ o \in e.waiting
    /\ IF Superseded(o, e.state)
       THEN Put(k, c, [e EXCEPT !.waiting = @ \ {o}])
       ELSE \E timer \in {e.timer, e.timer /\ o = "renew"} :
               Put(k, c, [e EXCEPT !.waiting = @ \ {o}, !.op = o,
                                   !.pc = FirstStep(o, e.state),
                                   !.timer = timer])
    /\ UNCHANGED <<outside, controller, died>>

-----------------------------------------------------------------------------
(***************************************************************************)
(* A join event, and #startCall.                                           *)
(***************************************************************************)
Join(k, c) ==
    /\ mode[k] = "serving"
    /\ caller[c] # "away"
    /\ claiming' = [claiming EXCEPT ![k] = @ \cup {c}]
    /\ UNCHANGED <<outside, entry, mode, todo, died>>

ClaimedBy(k, c) == [row EXCEPT ![c] = [state |-> "claimed", owner |-> k,
                                       leased |-> TRUE]]

\* Mutant: a call whose lease ran out is taken over.
ClaimTakeover(k, c) ==
    /\ c \in claiming[k]
    /\ claiming' = [claiming EXCEPT ![k] = @ \ {c}]
    /\ IF row[c].state \notin Terminal /\ ~row[c].leased
       THEN /\ row' = ClaimedBy(k, c)
            /\ Put(k, c, [NoEntry EXCEPT !.tracked = TRUE, !.op = "start",
                                         !.pc = "connecting"])
       ELSE UNCHANGED <<row, entry>>
    /\ UNCHANGED <<caller, agents, bridges, dispatches, mode, todo, died>>

\* claim_threecx_call inserts the event and the call, each at most once; only
\* the insertion of the call is a claim.
Claim(k, c) ==
    /\ c \in claiming[k]
    /\ claiming' = [claiming EXCEPT ![k] = @ \ {c}]
    /\ \/ /\ row[c].state = "absent"
          /\ row' = ClaimedBy(k, c)
          /\ Put(k, c, [NoEntry EXCEPT !.tracked = TRUE, !.op = "start",
                                       !.pc = "connecting"])
       \/ /\ row[c].state # "absent"
          /\ UNCHANGED <<row, entry>>
       \/ /\ "database" \in Faults
          /\ row' \in {row} \cup
                      (IF row[c].state = "absent" THEN {ClaimedBy(k, c)} ELSE {})
          /\ UNCHANGED entry
    /\ UNCHANGED <<caller, agents, bridges, dispatches, mode, todo, died>>

\* Without its claim a call is forgotten; an error goes to the failure path.
Connect(k, c) ==
    LET e == entry[k][c] IN
    /\ e.pc = "connecting"
    /\ \E answer \in Answers :
          /\ Transition(k, c, "connecting", answer)
          /\ Put(k, c, CASE answer = "done" -> [e EXCEPT !.state = "connecting",
                                                         !.pc = "dispatch"]
                         [] answer = "refused" -> [Finished(e) EXCEPT !.tracked = FALSE]
                         [] answer = "raised" -> [e EXCEPT !.pc = "media"])
    /\ UNCHANGED <<caller, agents, bridges, dispatches, controller, died>>

Dispatch(k, c) ==
    LET e == entry[k][c] IN
    /\ e.pc = "dispatch"
    /\ \/ /\ agents' = agents \cup {<<k, c>>}
          /\ dispatches' = [dispatches EXCEPT ![c] = @ + 1]
          /\ Put(k, c, [e EXCEPT !.agent = TRUE, !.pc = "attach"])
       \/ /\ "livekit" \in Faults
          /\ Goto(k, c, "media")
          /\ UNCHANGED <<agents, dispatches>>
       \/ /\ "lost" \in Faults
          /\ agents' = agents \cup {<<k, c>>}
          /\ dispatches' = [dispatches EXCEPT ![c] = @ + 1]
          /\ Goto(k, c, "media")
    /\ UNCHANGED <<row, caller, bridges, controller, died>>

\* The bridge is opened once the agent is verified; one that fails to start
\* closes itself.
Attach(k, c) ==
    LET e == entry[k][c] IN
    /\ e.pc = "attach"
    /\ \/ /\ bridges' = bridges \cup {<<k, c>>}
          /\ Put(k, c, [e EXCEPT !.media = TRUE, !.pc = "activate"])
       \/ /\ "livekit" \in Faults
          /\ Goto(k, c, "media")
          /\ UNCHANGED bridges
    /\ UNCHANGED <<row, caller, agents, dispatches, controller, died>>

Activate(k, c) ==
    LET e == entry[k][c] IN
    /\ e.pc = "activate"
    /\ \E answer \in Answers :
          /\ Transition(k, c, "active", answer)
          /\ IF answer = "done"
             THEN Put(k, c, [Finished(e) EXCEPT !.state = "active",
                                                !.timer = TRUE, !.due = TRUE])
             ELSE Goto(k, c, "media")
    /\ UNCHANGED <<caller, agents, bridges, dispatches, controller, died>>

-----------------------------------------------------------------------------
(***************************************************************************)
(* #renewLease.                                                            *)
(***************************************************************************)
TimerFires(k, c) ==
    LET e == entry[k][c] IN
    /\ e.timer
    /\ Put(k, c, [e EXCEPT !.timer = FALSE, !.waiting = @ \cup {"renew"}])
    /\ UNCHANGED <<outside, controller, died>>

LeaseIsMine(k, c) == /\ row[c].owner = k /\ row[c].leased
                     /\ row[c].state \notin Terminal

\* One error is retried at the next timer; a second, or a refusal, ends the
\* call.
Renew(k, c) ==
    LET e == entry[k][c]
        lost == [e EXCEPT !.leaseLost = TRUE, !.timer = FALSE, !.pc = "ending"]
    IN
    /\ e.pc = "renew"
    /\ \/ /\ LeaseIsMine(k, c)
          /\ Put(k, c, [Finished(e) EXCEPT !.renewFailed = FALSE])
       \/ /\ ~LeaseIsMine(k, c)
          /\ Put(k, c, lost)
       \/ /\ "database" \in Faults
          /\ Put(k, c, IF e.renewFailed THEN lost
                       ELSE [Finished(e) EXCEPT !.renewFailed = TRUE])
    /\ UNCHANGED <<outside, controller, died>>

LeaseExpire(c) ==
    /\ "stall" \in Faults
    /\ row[c].leased
    /\ row' = [row EXCEPT ![c].leased = FALSE]
    /\ UNCHANGED <<caller, agents, bridges, dispatches, entry, controller,
                   died>>

-----------------------------------------------------------------------------
(***************************************************************************)
(* Taking a call down.  The failure path of #startCall cleans up before it *)
(* records "ending", the other operations after; a renewal that could not  *)
(* record it cleans up all the same.                                       *)
(***************************************************************************)
\* The operation goes on as e.  Where a transition raises, a shutdown rejects and
\* leaves the other calls as they are, and the rejection of the agent's hang-up,
\* which nobody handles, ends the process.
Proceed(k, c, answer, e) ==
    LET op == entry[k][c].op IN
    \/ /\ answer = "raised" => op \notin {"hangup", "shutdown"}
       /\ Put(k, c, e)
       /\ UNCHANGED <<bridges, controller, died>>
    \/ /\ answer = "raised" /\ op = "shutdown"
       /\ Put(k, c, e)
       /\ mode' = [mode EXCEPT ![k] = "incomplete"]
       /\ todo' = [todo EXCEPT ![k] = {}]
       /\ UNCHANGED <<bridges, claiming, died>>
    \/ /\ answer = "raised" /\ op = "hangup"
       /\ ProcessEnds(k)

MarkEnding(k, c) ==
    LET e == entry[k][c] IN
    /\ e.pc = "ending"
    /\ \E answer \in Answers :
          LET seen == IF answer = "done" THEN [e EXCEPT !.state = "ending"]
                      ELSE e
          IN
          /\ Transition(k, c, "ending", answer)
          /\ Proceed(k, c, answer,
                CASE e.op = "start" /\ e.clean /\ answer = "done" ->
                        [seen EXCEPT !.pc = "fallback"]
                  [] e.op = "renew" /\ answer # "raised" ->
                        [seen EXCEPT !.pc = "media", !.moved = (answer = "done")]
                  [] e.op \notin {"start", "renew"} /\ answer = "done" ->
                        [seen EXCEPT !.pc = "media"]
                  [] OTHER -> Finished(seen))
    /\ UNCHANGED <<caller, agents, dispatches>>

\* #cleanup, first half: closing the bridge.
CloseMedia(k, c) ==
    LET e == entry[k][c] IN
    /\ e.pc = "media"
    /\ \/ /\ bridges' = IF e.media THEN bridges \ {<<k, c>>} ELSE bridges
          /\ Put(k, c, [e EXCEPT !.media = FALSE, !.timer = FALSE,
                                 !.pc = "agent"])
       \/ /\ "livekit" \in Faults /\ e.media
          /\ bridges' \in {bridges, bridges \ {<<k, c>>}}
          /\ Put(k, c, [e EXCEPT !.clean = FALSE, !.timer = FALSE,
                                 !.pc = "agent"])
    /\ UNCHANGED <<row, caller, agents, dispatches, controller, died>>

\* Mutant: an incomplete cleanup does not stop the operation.
AfterCleanupRegardless(op, clean) ==
    CASE op = "start" -> "ending"
      [] op = "end" -> "final"
      [] OTHER -> "fallback"

\* What follows the cleanup; "idle" where it was not complete.
AfterCleanup(op, clean) ==
    CASE op = "start" -> "ending"
      [] op # "start" /\ ~clean -> "idle"
      [] op = "end" /\ clean -> "final"
      [] OTHER -> "fallback"

CleanedUp(e) == IF AfterCleanup(e.op, e.clean) = "idle" THEN Finished(e)
                ELSE [e EXCEPT !.pc = AfterCleanup(e.op, e.clean)]

\* Mutant: the dispatch id is cleared before the agent is known to have stopped.
StopAgentForgetting(k, c) ==
    LET e == entry[k][c] IN
    /\ e.pc = "agent"
    /\ \/ agents' = agents \ {<<k, c>>} /\ Put(k, c, CleanedUp([e EXCEPT !.agent = FALSE]))
       \/ /\ "livekit" \in Faults /\ e.agent
          /\ UNCHANGED agents
          /\ Put(k, c, CleanedUp([e EXCEPT !.clean = FALSE, !.agent = FALSE]))
    /\ UNCHANGED <<row, caller, bridges, dispatches, controller, died>>

\* #cleanup, second half: stopping the agent.
StopAgent(k, c) ==
    LET e == entry[k][c] IN
    /\ e.pc = "agent"
    /\ \/ /\ ~e.agent
          /\ Put(k, c, CleanedUp(e))
          /\ UNCHANGED agents
       \/ /\ e.agent
          /\ agents' = agents \ {<<k, c>>}
          /\ Put(k, c, CleanedUp([e EXCEPT !.agent = FALSE]))
       \/ /\ "livekit" \in Faults /\ e.agent
          /\ agents' \in {agents, agents \ {<<k, c>>}}
          /\ Put(k, c, CleanedUp([e EXCEPT !.clean = FALSE]))
    /\ UNCHANGED <<row, caller, bridges, dispatches, controller, died>>

\* handlePbxFallback: the caller is transferred or dropped.  The agent's
\* hang-up goes on whatever the answer, a renewal only if it marked the call.
Fallback(k, c) ==
    LET e == entry[k][c] IN
    /\ e.pc = "fallback"
    /\ \/ /\ caller' = [caller EXCEPT ![c] = "gone"]
          /\ IF e.op = "renew" /\ ~e.moved THEN Finish(k, c)
             ELSE Goto(k, c, "final")
       \/ /\ "pbx" \in Faults
          /\ caller' \in {caller, [caller EXCEPT ![c] = "gone"]}
          /\ IF e.op = "hangup" THEN Goto(k, c, "final") ELSE Finish(k, c)
    /\ UNCHANGED <<row, agents, bridges, dispatches, controller, died>>

LastState(op) == IF op \in {"start", "mediaFailure"} THEN "failed" ELSE "ended"

Finalise(k, c) ==
    LET e == entry[k][c] IN
    /\ e.pc = "final"
    /\ \E answer \in Answers :
          /\ Transition(k, c, LastState(e.op), answer)
          /\ Proceed(k, c, answer,
                IF answer = "done"
                THEN [Finished(e) EXCEPT !.state = LastState(e.op),
                                         !.tracked = FALSE]
                ELSE Finished(e))
    /\ UNCHANGED <<caller, agents, dispatches>>

-----------------------------------------------------------------------------
(***************************************************************************)
(* What calls the controller: the event adapter, the media bridge, the     *)
(* agent and the tenant runtime; and the caller, who comes and goes.       *)
(***************************************************************************)
Arrive(c) ==
    /\ caller[c] = "away"
    /\ caller' = [caller EXCEPT ![c] = "waiting"]
    /\ UNCHANGED <<row, agents, bridges, dispatches, entry, controller, died>>

Leave(c) ==
    /\ caller[c] = "waiting"
    /\ caller' = [caller EXCEPT ![c] = "gone"]
    /\ UNCHANGED <<row, agents, bridges, dispatches, entry, controller, died>>

\* The end event, once the participant is gone; the adapter delivers one at a
\* time.  Only the one that is due is certain to come.
EndCall(k, c) ==
    LET e == entry[k][c] IN
    /\ caller[c] = "gone"
    /\ e.tracked /\ e.op # "end" /\ "end" \notin e.waiting
    /\ Put(k, c, [e EXCEPT !.waiting = @ \cup {"end"}, !.due = FALSE])
    /\ UNCHANGED <<outside, controller, died>>

\* The bridge reports a failure, or the agent's call_hangup packet.
BridgeCalls(k, c, o) ==
    /\ o \in {"mediaFailure", "hangup"}
    /\ <<k, c>> \in bridges
    /\ entry[k][c].tracked
    /\ Request(k, c, o)
    /\ UNCHANGED <<outside, controller, died>>

\* shutdown: no more joins, ...
Shutdown(k) ==
    /\ mode[k] \in {"serving", "incomplete"}
    /\ mode' = [mode EXCEPT ![k] = "waiting"]
    /\ UNCHANGED <<outside, entry, claiming, todo, died>>

\* Mutant: the joins in flight are not waited for.
JoinsAreDoneUnchecked(k) == TRUE

\* Mutant: a shutdown waits for the calls to end of themselves.
JoinsAreDoneOnceIdle(k) == \A c \in Calls : ~entry[k][c].tracked

JoinsAreDone(k) == /\ claiming[k] = {}
                   /\ \A c \in Calls : entry[k][c].op # "start"

\* ... the joins in flight are waited for, ...
StartDraining(k) ==
    /\ mode[k] = "waiting"
    /\ JoinsAreDone(k)
    /\ mode' = [mode EXCEPT ![k] = "draining"]
    /\ todo' = [todo EXCEPT ![k] = {c \in Calls : entry[k][c].tracked}]
    /\ UNCHANGED <<outside, entry, claiming, died>>

DrainingOne(k) == \E c \in Calls : \/ entry[k][c].op = "shutdown"
                                   \/ "shutdown" \in entry[k][c].waiting

\* ... and the calls are drained one after the other.
DrainNext(k, c) ==
    /\ mode[k] = "draining" /\ c \in todo[k] /\ ~DrainingOne(k)
    /\ todo' = [todo EXCEPT ![k] = @ \ {c}]
    /\ Request(k, c, "shutdown")
    /\ UNCHANGED <<outside, claiming, mode, died>>

DrainEnd(k) ==
    /\ mode[k] = "draining" /\ todo[k] = {} /\ ~DrainingOne(k)
    /\ mode' = [mode EXCEPT ![k] =
                   IF \E c \in Calls : entry[k][c].tracked
                   THEN "incomplete" ELSE "drained"]
    /\ UNCHANGED <<outside, entry, claiming, todo, died>>

Crash(k) ==
    /\ "crash" \in Faults /\ Cardinality(died) < MaxCrashes
    /\ ProcessEnds(k)
    /\ UNCHANGED <<row, caller, agents, dispatches>>

Step(k, c) == \/ Connect(k, c) \/ Dispatch(k, c) \/ Attach(k, c)
              \/ Activate(k, c) \/ Renew(k, c) \/ MarkEnding(k, c)
              \/ CloseMedia(k, c) \/ StopAgent(k, c) \/ Fallback(k, c)
              \/ Finalise(k, c)

Next ==
    \/ \E k \in Connectors, c \in Calls :
          \/ Join(k, c) \/ Claim(k, c) \/ Step(k, c) \/ TimerFires(k, c)
          \/ EndCall(k, c) \/ DrainNext(k, c)
          \/ \E o \in Ops : Begin(k, c, o) \/ BridgeCalls(k, c, o)
    \/ \E k \in Connectors : \/ Shutdown(k) \/ StartDraining(k) \/ DrainEnd(k)
                             \/ Crash(k)
    \/ \E c \in Calls : Arrive(c) \/ Leave(c) \/ LeaseExpire(c)

Spec == Init /\ [][Next]_vars

(***************************************************************************)
(* Every awaited call answers or raises (each client has its timeout), the *)
(* lock is handed on in the order of the requests, and the adapter         *)
(* delivers the end of a call that became active.  Nothing makes joins,    *)
(* timers, media failures, hang-ups or a shutdown happen.                  *)
(***************************************************************************)
Fairness ==
    /\ \A k \in Connectors, c \in Calls :
          /\ WF_vars(Claim(k, c))
          /\ WF_vars(Step(k, c))
          /\ SF_vars(EndCall(k, c) /\ entry[k][c].due)
          /\ \A o \in Ops : SF_vars(Begin(k, c, o))
          /\ WF_vars(DrainNext(k, c))
    /\ \A k \in Connectors : WF_vars(StartDraining(k)) /\ WF_vars(DrainEnd(k))

FairSpec == Spec /\ Fairness

-----------------------------------------------------------------------------
(***************************************************************************)
(* A call gets one agent in its whole life, however often its join event   *)
(* is delivered, to however many connectors, and however they die, restart *)
(* or lose answers.                                                        *)
(***************************************************************************)
OneDispatch == \A c \in Calls : dispatches[c] <= 1

(***************************************************************************)
(* A call is recorded as ended or failed only after its agent was stopped  *)
(* and its bridge closed, whichever operation closed it and whichever of   *)
(* its predecessors failed half-way.  (An agent whose dispatch was never   *)
(* answered is unknown to its controller and is left running.)             *)
(***************************************************************************)
ClosedIsClean ==
    \A c \in Calls : row[c].state \in Terminal =>
        \A k \in Connectors : <<k, c>> \notin agents \cup bridges

(***************************************************************************)
(* No agent escapes: while its connector lives and dispatches are          *)
(* answered, a running agent belongs to a call the controller still has in *)
(* its map, with the handle it needs to stop it; and so does an open       *)
(* bridge, always.                                                         *)
(***************************************************************************)
ResourcesAreHeld ==
    \A k \in Connectors, c \in Calls :
        /\ <<k, c>> \in agents =>
              k \in died \/ (entry[k][c].tracked /\ entry[k][c].agent)
        /\ <<k, c>> \in bridges => entry[k][c].tracked /\ entry[k][c].media

(***************************************************************************)
(* shutdown answers "stopped" only when nothing is left: no call in the    *)
(* map, none being claimed, no bridge or agent of this connector, and no   *)
(* row it owns still open; and a drained controller takes no new call.     *)
(* (With a database that answers: a claim that commits and raises leaves a *)
(* row open that nobody tracks.)                                           *)
(***************************************************************************)
DrainedIsIdle ==
    \A k \in Connectors : mode[k] = "drained" =>
        /\ claiming[k] = {}
        /\ \A c \in Calls :
              /\ ~entry[k][c].tracked
              /\ <<k, c>> \notin agents \cup bridges
              /\ row[c].owner = k => row[c].state \in Terminal

(***************************************************************************)
(* The claim of a call is never passed on and a closed call is never       *)
(* opened again.                                                           *)
(***************************************************************************)
ClaimIsForLife ==
    [][\A c \in Calls :
          /\ row[c].state # "absent" => row'[c].owner = row[c].owner
          /\ row[c].state \in Terminal => row'[c].state = row[c].state]_vars

(***************************************************************************)
(* The end event closes the call: every claimed call is recorded as over   *)
(* once its caller is gone, despite expired leases, media failures, agent  *)
(* hang-ups, failed fallbacks and a shutdown on the way.                   *)
(***************************************************************************)
EndedCallIsClosed ==
    \A c \in Calls :
        caller[c] = "gone" /\ row[c].state \in RowStates \ Terminal
            ~> row[c].state \in Terminal

(***************************************************************************)
(* shutdown comes to an answer: joins in flight and operations that hold   *)
(* or wait for a call's lock do not keep it waiting for ever.              *)
(***************************************************************************)
ShutdownAnswers ==
    \A k \in Connectors :
        mode[k] \in {"waiting", "draining"}
            ~> mode[k] \in {"incomplete", "drained", "serving"}

-----------------------------------------------------------------------------
(***************************************************************************)
(* "Do not silently leave a live caller connected to silence": a call that *)
(* is recorded as ended or failed has lost its agent and its bridge, and   *)
(* its caller is no longer on the route point.                             *)
(***************************************************************************)
NobodyLeftInSilence ==
    \A c \in Calls : row[c].state \in Terminal => caller[c] = "gone"


=============================================================================
