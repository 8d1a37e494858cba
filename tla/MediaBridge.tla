------------------------------ MODULE MediaBridge ------------------------------
(***************************************************************************)
(* ThreeCxLiveKitMediaBridge: the audio of one call between its 3CX        *)
(* participant and the verified agent of its LiveKit room, started by      *)
(* startVerifiedThreeCxLiveKitMediaBridge inside CallController's          *)
(* startCall, and closed by its own failing start or by the cleanup of a   *)
(* call handler.  The bridge's tasks (one pump, one reader per track), the *)
(* room's events, the failure callback and the handlers interleave.        *)
(* Audio is counted: PBX bytes in half frames, playback in frames.         *)
(* Events of participants the verifier rejects change nothing, and the     *)
(* lease of the call is CallController's: both are left out.               *)
(***************************************************************************)
EXTENDS Naturals, FiniteSets

CONSTANTS Tracks,    \* audio tracks of the dispatched agent
          MaxPolls,  \* dispatch polls before the deadline
          MaxQueue   \* frames the PBX writer may hold (maxBufferedMs)

ASSUME MediaAssumption == MaxPolls \in Nat /\ MaxQueue \in Nat \ {0}

VARIABLES start,    \* where startVerified... is
          polls,    \* polls made
          closed, failed, hanging, \* the bridge's flags
          reader,   \* reader task of each track
          pump,     \* the task that reads PBX audio
          pending,  \* half frames the PBX assembler holds
          writer,   \* frames queued to the PBX, and whether the SDK or close cancelled it
          closing,  \* the await close() is in
          agent,    \* the agent's participant in the room
          report,   \* the failure callback
          hangup,   \* the hang-up callback
          call,     \* state of the call's entry
          handler,  \* the handler that holds the entry's lock after startCall
          held,     \* entry.closeMedia is set
          bound,    \* it closes the bridge whatever its receiver is
          entryClosed \* the entry itself was marked closed by an unbound close

callVars == <<call, handler, held, bound, entryClosed>>
mediaVars == <<start, polls, closed, failed, hanging, reader, pump, pending, writer,
          closing, agent, report, hangup, callVars>>

Handlers == {"failure", "hangup", "ended"}

MediaTypeOK ==
    /\ start \in {"unasked", "resolving", "publishing", "opening", "started", "failing", "failed"}
    /\ polls \in 0..MaxPolls
    /\ {closed, failed, hanging, held, bound, entryClosed} \subseteq BOOLEAN
    /\ reader \in [Tracks -> {"none", "reading", "unwinding"}]
    /\ pump \in {"none", "waiting", "capturing", "over"} /\ pending \in 0..1
    /\ writer \in [frames : 0..MaxQueue, state : {"none", "open", "cancelled"}]
    /\ closing \in {"none", "readers", "pump", "tasks", "done"}
    /\ agent \in {"present", "gone", "missed"}
    /\ report \in {"none", "scheduled", "handling", "done"}
    /\ hangup \in {"none", "scheduled", "handling", "done"}
    /\ call \in {"starting", "active", "ending", "over", "disowned"}
    /\ handler \in Handlers \cup {"starting", "none"}

\* what attachMedia answers: the bridge (bound is FALSE) or an object that closes it
MediaInit ==
    /\ start = "unasked" /\ polls = 0
    /\ closed = FALSE /\ failed = FALSE /\ hanging = FALSE
    /\ reader = [t \in Tracks |-> "none"] /\ pump = "none" /\ pending = 0
    /\ writer = [frames |-> 0, state |-> "none"]
    /\ closing = "none" /\ agent = "present" /\ report = "none" /\ hangup = "none"
    /\ call = "starting" /\ handler = "none" /\ held = FALSE
    /\ bound \in BOOLEAN /\ entryClosed = FALSE

\* the room's listeners are registered
Listening == start \notin {"unasked", "resolving", "failed"} /\ ~closed

\* #fail: the callback is left to a later turn of the event loop
Fail ==
    IF failed \/ closed THEN UNCHANGED <<failed, report>>
    ELSE failed' = TRUE /\ report' = "scheduled"

-----------------------------------------------------------------------------
\* #startMedia of the call controller
Ask ==
    /\ start = "unasked" /\ start' = "resolving"
    /\ UNCHANGED <<polls, closed, failed, hanging, reader, pump, pending, writer, closing,
                   agent, report, hangup, callVars>>

\* resolveDispatchedAgentIdentity, then the bridge's start up to publishTrack
Poll ==
    /\ start = "resolving"
    /\ \/ start' = "publishing" /\ UNCHANGED polls
       \/ start' = "failed" /\ UNCHANGED polls      \* mismatch, ambiguous or unavailable
       \/ polls < MaxPolls /\ polls' = polls + 1 /\ UNCHANGED start
       \/ polls = MaxPolls /\ start' = "failed" /\ UNCHANGED polls
    /\ UNCHANGED <<closed, failed, hanging, reader, pump, pending, writer, closing,
                   agent, report, hangup, callVars>>

TrackPublished ==
    /\ start = "publishing"
    /\ start' = "opening" /\ writer' = [writer EXCEPT !.state = "open"]
    /\ UNCHANGED <<polls, closed, failed, hanging, reader, pump, pending, closing,
                   agent, report, hangup, callVars>>

Opened ==
    /\ start = "opening"
    /\ start' = "started" /\ pump' = "waiting"
    /\ UNCHANGED <<polls, closed, failed, hanging, reader, pending, writer, closing,
                   agent, report, hangup, callVars>>

\* close() up to its first await
BeginClose == closed' = TRUE /\ closing' = "readers"

\* publishTrack or getAudioStream throws: the catch of start() closes the bridge
StartThrows ==
    /\ start \in {"publishing", "opening"}
    /\ start' = "failing" /\ BeginClose
    /\ UNCHANGED <<polls, failed, hanging, reader, pump, pending, writer,
                   agent, report, hangup, callVars>>

StartGivesUp ==
    /\ start = "failing" /\ closing = "done"
    /\ start' = "failed"
    /\ UNCHANGED <<polls, closed, failed, hanging, reader, pump, pending, writer, closing,
                   agent, report, hangup, callVars>>

\* every reader is cancelled: its task ends by itself
CloseReaders ==
    /\ closing = "readers"
    /\ reader' = [t \in Tracks |-> IF reader[t] = "reading" THEN "unwinding" ELSE reader[t]]
    /\ closing' = "pump"
    /\ UNCHANGED <<start, polls, closed, failed, hanging, pump, pending, writer,
                   agent, report, hangup, callVars>>

ClosePump ==
    /\ closing = "pump" /\ pump \in {"none", "over"}
    /\ closing' = "tasks"
    /\ UNCHANGED <<start, polls, closed, failed, hanging, reader, pump, pending, writer,
                   agent, report, hangup, callVars>>

CloseTasks ==
    /\ closing = "tasks" /\ \A t \in Tracks : reader[t] = "none"
    /\ closing' = "done"
    /\ writer' = [frames |-> 0, state |-> IF writer.state = "none" THEN "none" ELSE "cancelled"]
    /\ UNCHANGED <<start, polls, closed, failed, hanging, reader, pump, pending,
                   agent, report, hangup, callVars>>

-----------------------------------------------------------------------------
\* #onTrackSubscribed up to its first read
Subscribed(t) ==
    /\ Listening /\ agent = "present" /\ reader[t] = "none"
    /\ reader' = [reader EXCEPT ![t] = "reading"]
    /\ UNCHANGED <<start, polls, closed, failed, hanging, pump, pending, writer, closing,
                   agent, report, hangup, callVars>>

\* mutant: one frame more than the buffer holds
HasRoomForOneMore == writer.frames <= MaxQueue

HasRoom == writer.frames < MaxQueue

\* a read answers with a frame: #writePbxFrame queues it, or throws
AgentFrame(t) ==
    /\ reader[t] = "reading" /\ ~closed
    /\ \/ /\ writer.state = "open" /\ HasRoom
          /\ writer' = [writer EXCEPT !.frames = @ + 1]
          /\ UNCHANGED <<reader, failed, report>>
       \/ /\ writer.state # "open" \/ ~HasRoom
          /\ writer' = [writer EXCEPT !.frames = 0]
          /\ reader' = [reader EXCEPT ![t] = "unwinding"]
          /\ Fail
    /\ UNCHANGED <<start, polls, closed, hanging, pump, pending, closing,
                   agent, hangup, callVars>>

\* a read throws or has the wrong format, or the stream is done, which is only signalled
ReadEnds(t) ==
    /\ reader[t] = "reading"
    /\ reader' = [reader EXCEPT ![t] = "unwinding"]
    /\ Fail \/ UNCHANGED <<failed, report>>
    /\ UNCHANGED <<start, polls, closed, hanging, pump, pending, writer, closing,
                   agent, hangup, callVars>>

\* mutant: a task that failed awaits the failure callback, which waits for the task
UnwindsAfterReport(t) == reader[t] = "unwinding" /\ report \in {"none", "done"}

Unwinds(t) == reader[t] = "unwinding"

\* the finally of #onTrackSubscribed
ReaderUnwinds(t) ==
    /\ Unwinds(t)
    /\ reader' = [reader EXCEPT ![t] = "none"]
    /\ UNCHANGED <<start, polls, closed, failed, hanging, pump, pending, writer, closing,
                   agent, report, hangup, callVars>>

TrackUnsubscribed(t) ==
    /\ Listening /\ agent = "present"
    /\ IF hanging THEN UNCHANGED <<failed, report>> ELSE Fail
    /\ reader' = [reader EXCEPT ![t] = IF @ = "reading" THEN "unwinding" ELSE @]
    /\ UNCHANGED <<start, polls, closed, hanging, pump, pending, writer, closing,
                   agent, hangup, callVars>>

\* the agent's participant leaves or the room drops; nobody listens before start()
AgentLeaves ==
    /\ agent = "present"
    /\ agent' = IF Listening THEN "gone" ELSE "missed"
    /\ IF Listening /\ ~hanging THEN Fail ELSE UNCHANGED <<failed, report>>
    /\ UNCHANGED <<start, polls, closed, hanging, reader, pump, pending, writer, closing,
                   hangup, callVars>>

\* onDataReceived of a call_hangup
AgentHangsUp ==
    /\ Listening /\ agent = "present" /\ ~hanging
    /\ hanging' = TRUE /\ hangup' = "scheduled"
    /\ UNCHANGED <<start, polls, closed, failed, reader, pump, pending, writer, closing,
                   agent, report, callVars>>

PbxPlays ==
    /\ writer.state = "open" /\ writer.frames > 0
    /\ writer' = [writer EXCEPT !.frames = @ - 1]
    /\ UNCHANGED <<start, polls, closed, failed, hanging, reader, pump, pending, closing,
                   agent, report, hangup, callVars>>

\* the caller hangs up: the SDK cancels the writer
PbxCancelsWriter ==
    /\ writer.state = "open"
    /\ writer' = [frames |-> 0, state |-> "cancelled"]
    /\ UNCHANGED <<start, polls, closed, failed, hanging, reader, pump, pending, closing,
                   agent, report, hangup, callVars>>

\* a chunk of n half frames: too many throw, complete frames are captured one by one
PumpChunk(n) ==
    /\ pump = "waiting" /\ ~closed
    /\ IF pending + n > 2 * MaxQueue
       THEN pump' = "over" /\ Fail /\ UNCHANGED pending
       ELSE /\ pump' = IF pending + n < 2 THEN "waiting" ELSE "capturing"
            /\ pending' = (pending + n) % 2
            /\ UNCHANGED <<failed, report>>
    /\ UNCHANGED <<start, polls, closed, hanging, reader, writer, closing,
                   agent, hangup, callVars>>

Captured ==
    /\ pump = "capturing"
    /\ pump' = IF closed THEN "over" ELSE "waiting"
    /\ UNCHANGED <<start, polls, closed, failed, hanging, reader, pending, writer, closing,
                   agent, report, hangup, callVars>>

\* the PBX stream ends or throws, or close() destroyed it
PumpEnds ==
    /\ pump \in {"waiting", "capturing"} /\ pump' = "over" /\ Fail
    /\ pending' = 0
    /\ UNCHANGED <<start, polls, closed, hanging, reader, writer, closing,
                   agent, hangup, callVars>>

-----------------------------------------------------------------------------
\* startCall after attachMedia; on failure its catch ends the call before it lets go
Attached ==
    /\ call = "starting" /\ start = "started" /\ handler = "none" /\ ~held
    /\ held' = TRUE
    /\ \/ call' = "active" /\ UNCHANGED handler
       \/ call' = "ending" /\ handler' = "starting"  \* active_transition_lost
    /\ UNCHANGED <<start, polls, closed, failed, hanging, reader, pump, pending, writer,
                   closing, agent, report, hangup, bound, entryClosed>>

NotAttached ==
    /\ call = "starting" /\ start = "failed"
    /\ call' \in {"over", "ending", "disowned"}
    /\ UNCHANGED <<start, polls, closed, failed, hanging, reader, pump, pending, writer,
                   closing, agent, report, hangup, handler, held, bound, entryClosed>>

Callback(h) == CASE h = "failure" -> report = "scheduled"
                 [] h = "hangup"  -> hangup = "scheduled"
                 [] h = "ended"   -> TRUE

Settle(h, was) ==
    /\ report' = IF h = "failure" THEN was ELSE report
    /\ hangup' = IF h = "hangup" THEN was ELSE hangup

\* a handler takes the entry's lock: terminal or lost ownership answers at once
Handle(h) ==
    /\ Callback(h) /\ handler = "none" /\ call # "starting"
    /\ \/ /\ call \in {"active", "ending"}
          /\ handler' = h /\ call' = "ending" /\ Settle(h, "handling")
       \/ /\ call = "active" /\ call' = "disowned"
          /\ Settle(h, "done") /\ UNCHANGED handler
       \/ /\ call \in {"over", "disowned"} /\ h # "ended"
          /\ Settle(h, "done") /\ UNCHANGED <<call, handler>>
    /\ UNCHANGED <<start, polls, closed, failed, hanging, reader, pump, pending, writer,
                   closing, agent, held, bound, entryClosed>>

\* entry.closeMedia() of #cleanup, bound to its bridge
CallClose ==
    /\ handler # "none" /\ held /\ bound /\ ~closed
    /\ BeginClose
    /\ UNCHANGED <<start, polls, failed, hanging, reader, pump, pending, writer,
                   agent, report, hangup, callVars>>

HandlerDone(states) ==
    /\ call' \in states \cup IF handler = "starting" THEN {"disowned"} ELSE {}
    /\ handler' = "none" /\ Settle(handler, "done")

\* entry.closeMedia() with the entry as its receiver: it marks the entry and throws
CallCloseThrows ==
    /\ handler # "none" /\ held /\ ~bound /\ ~entryClosed
    /\ entryClosed' = TRUE
    /\ HandlerDone({"ending"})
    /\ UNCHANGED <<start, polls, closed, failed, hanging, reader, pump, pending, writer,
                   closing, agent, held, bound>>

\* mutant: the cleanup does not await the close
CloseAsked == IF bound THEN closed ELSE entryClosed

CloseReturned == IF bound THEN closing = "done" ELSE entryClosed

\* the close returned; then stopAgent, the PBX fallback and the transition
CleanUp ==
    /\ handler # "none"
    /\ held => CloseReturned
    /\ held' = FALSE
    /\ HandlerDone({"ending", "over"})
    /\ UNCHANGED <<start, polls, closed, failed, hanging, reader, pump, pending, writer,
                   closing, agent, bound, entryClosed>>

-----------------------------------------------------------------------------
Task(t) == AgentFrame(t) \/ ReadEnds(t) \/ ReaderUnwinds(t)
Starting == Poll \/ TrackPublished \/ Opened \/ StartThrows \/ StartGivesUp \/ Attached \/ NotAttached
Closing == CloseReaders \/ ClosePump \/ CloseTasks
Handling == CallClose \/ CallCloseThrows \/ CleanUp
Room == AgentLeaves \/ AgentHangsUp \/ \E t \in Tracks : Subscribed(t) \/ TrackUnsubscribed(t)
Pbx == PbxPlays \/ PbxCancelsWriter \/ \E n \in 1..2 * MaxQueue + 1 : PumpChunk(n)

MediaNext == \/ Ask \/ Starting \/ Closing \/ Handling \/ Room \/ Pbx \/ Captured \/ PumpEnds
        \/ \E t \in Tracks : Task(t)
        \/ \E h \in Handlers : Handle(h)

MediaSpec == MediaInit /\ [][MediaNext]_mediaVars

(***************************************************************************)
(* Awaits are answered: LiveKit, the SDK and the broker answer or fail,    *)
(* a cancelled reader and a destroyed stream end, and the promise chains   *)
(* run.  Nothing makes the PBX, the agent or the caller do anything.       *)
(***************************************************************************)
MediaFairness ==
    /\ WF_mediaVars(Starting) /\ WF_mediaVars(Closing) /\ WF_mediaVars(Handling)
    /\ WF_mediaVars(closed /\ (Captured \/ PumpEnds))
    /\ \A t \in Tracks : WF_mediaVars(ReaderUnwinds(t))
    /\ \A h \in {"failure", "hangup"} : SF_mediaVars(Handle(h))

-----------------------------------------------------------------------------
Quiet == /\ closing = "done" /\ pump \in {"none", "over"} /\ writer.state # "open"
         /\ \A t \in Tracks : reader[t] = "none"

(***************************************************************************)
(* A close that began ends: the tasks it awaits never wait for the call's  *)
(* handler, which is waiting for the close.                                *)
(***************************************************************************)
CloseEnds == closed ~> closing = "done"

(***************************************************************************)
(* A call is over only when its bridge is closed and none of its tasks     *)
(* moves audio, provided the entry's close reaches the bridge.             *)
(***************************************************************************)
EndedCallIsQuiet == call = "over" /\ bound /\ start # "failed" => Quiet

(***************************************************************************)
(* The same of the close the controller really holds, a method taken from  *)
(* the bridge and called on the entry (call-controller.mjs:311).           *)
(***************************************************************************)
EveryEndedCallIsQuiet == call = "over" /\ start # "failed" => Quiet

(***************************************************************************)
(* No caller stays in an active call with a bridge that failed or an agent *)
(* that left, also when the agent announced a hang-up first and its leaving*)
(* is not reported; an agent that left before start() listened is missed.  *)
(***************************************************************************)
LostAgentEndsTheCall == failed \/ agent = "gone" ~> call \notin {"starting", "active"}

(***************************************************************************)
(* A bridge winds down: a failed one, or one whose agent left, ends its    *)
(* call, and a close that began ends, although the close waits for tasks   *)
(* and the call's handler waits for the close.                             *)
(***************************************************************************)
MediaWindsDown == LostAgentEndsTheCall /\ CloseEnds
===============================================================================
