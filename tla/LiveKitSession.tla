----------------------------- MODULE LiveKitSession -----------------------------
(***************************************************************************)
(* useLiveKitSession with useClientVAD: a hook that holds one LiveKit room *)
(* at a time, guards every continuation by a session generation, plays the *)
(* assistant through a gain node and mutes it when the user talks over it. *)
(* Session i is the i-th call of connect; the generation of the code is    *)
(* the session that is current, none after every bump.                     *)
(* Transcripts and task cards are left out.  A superseded track's          *)
(* continuation changes nothing, so only the latest track is kept.         *)
(***************************************************************************)
EXTENDS Naturals

CONSTANT MaxSessions  \* calls of connect (a bound of the model)
ASSUME LiveKitAssumption == MaxSessions \in Nat \ {0}

VARIABLES sessions, \* per call of connect: its await and its room
          hook,     \* the refs and the status of the hook
          sound,    \* the assistant's audio and the voice activity detector
          voiceAgent,    \* the agent sends heartbeats, or is silent
          unwatched \* the heartbeat ran out while the room was reconnecting

liveVars == <<sessions, hook, sound, voiceAgent, unwatched>>

Ids == 1..MaxSessions
NoSound == [track |-> "none", activating |-> FALSE, gain |-> "none", retry |-> FALSE,
            bot |-> FALSE, user |-> FALSE, holding |-> FALSE]
LiveRoom == {"live", "reconnecting"}
InCall == {"waiting", "connected", "recovering", "reconnecting"}

LiveTypeOK ==
    /\ sessions \in [Ids -> [at : {"none", "token", "connect", "mic", "over"},
                             room : {"none", "new", "live", "reconnecting", "leaving", "closed"}]]
    /\ hook \in [current : 0..MaxSessions, inFlight : 0..MaxSessions, room : 0..MaxSessions,
                 intentional : BOOLEAN, timer : BOOLEAN, mic : BOOLEAN,
                 status : InCall \cup {"disconnected", "connecting", "error"}]
    /\ sound \in [track : {"none", "resuming", "ready"}, activating : BOOLEAN,
                  gain : {"none", "on", "muted"}, retry : BOOLEAN,
                  bot : BOOLEAN, user : BOOLEAN, holding : BOOLEAN]
    /\ sound.holding => sound.user
    /\ voiceAgent \in {"alive", "silent"} /\ unwatched \in BOOLEAN

LiveInit ==
    /\ sessions = [i \in Ids |-> [at |-> "none", room |-> "none"]]
    /\ hook = [current |-> 0, inFlight |-> 0, room |-> 0, intentional |-> FALSE,
               timer |-> FALSE, mic |-> FALSE, status |-> "disconnected"]
    /\ sound = NoSound /\ voiceAgent = "alive" /\ unwatched = FALSE

\* isCurrentSession(room), and a hook that is in that room
Current(i) == hook.current = i /\ hook.room = i
At(i) == /\ hook.room = i /\ i # 0

\* bump, drop the room, resetMediaState, clear the heartbeat
Drop(status, intentional) ==
    /\ hook' = [hook EXCEPT !.current = 0, !.inFlight = 0, !.room = 0, !.timer = FALSE,
                            !.mic = FALSE, !.status = status, !.intentional = intentional]
    /\ sound' = NoSound

Close(i) == [sessions EXCEPT ![i].room = IF @ = "none" THEN @ ELSE "closed"]

-----------------------------------------------------------------------------
HookConnect(i) ==
    /\ hook.inFlight = 0 /\ hook.room = 0
    /\ sessions[i].at = "none" /\ \A j \in 1..(i - 1) : sessions[j].at # "none"
    /\ sessions' = [sessions EXCEPT ![i].at = "token"]
    /\ hook' = [hook EXCEPT !.current = i, !.inFlight = i, !.intentional = FALSE,
                            !.status = "connecting"]
    /\ voiceAgent' = "alive" /\ unwatched' = FALSE /\ UNCHANGED sound

TokenAnswered(i) ==
    /\ sessions[i].at = "token"
    /\ IF hook.current = i
       THEN /\ sessions' = [sessions EXCEPT ![i] = [at |-> "connect", room |-> "new"]]
            /\ hook' = [hook EXCEPT !.room = i]
       ELSE sessions' = [sessions EXCEPT ![i].at = "over"] /\ UNCHANGED hook
    /\ UNCHANGED <<sound, voiceAgent, unwatched>>

\* mutant: a room that was superseded while it connected is taken into use
HookRoomConnectedLate(i) ==
    /\ sessions[i].at = "connect"
    /\ sessions' = [sessions EXCEPT ![i] = [at |-> "mic", room |-> "live"]]
    /\ hook' = [hook EXCEPT !.timer = TRUE,
                            !.status = IF sound.track = "none" THEN "waiting" ELSE @]
    /\ UNCHANGED <<sound, voiceAgent, unwatched>>

\* a superseded room was disconnected when it was superseded; it is again
HookRoomConnected(i) ==
    /\ sessions[i].at = "connect"
    /\ IF Current(i)
       THEN /\ sessions' = [sessions EXCEPT ![i] = [at |-> "mic", room |-> "live"]]
            /\ hook' = [hook EXCEPT !.timer = TRUE,
                                   !.status = IF sound.track = "none" THEN "waiting" ELSE @]
       ELSE sessions' = [Close(i) EXCEPT ![i].at = "over"] /\ UNCHANGED hook
    /\ UNCHANGED <<sound, voiceAgent, unwatched>>

MicrophonePublished(i) ==
    /\ sessions[i].at = "mic"
    /\ IF Current(i)
       THEN /\ sessions' = [sessions EXCEPT ![i].at = "over"]
            /\ hook' = [hook EXCEPT !.mic = TRUE, !.inFlight = 0]
       ELSE sessions' = [Close(i) EXCEPT ![i].at = "over"] /\ UNCHANGED hook
    /\ UNCHANGED <<sound, voiceAgent, unwatched>>

\* an await rejects: a superseded session leaves everything to its successor
ConnectFails(i) ==
    /\ sessions[i].at \in {"token", "connect", "mic"}
    /\ IF hook.current = i
       THEN /\ Drop("error", TRUE)
            /\ sessions' = [Close(i) EXCEPT ![i].at = "over"]
       ELSE sessions' = [sessions EXCEPT ![i].at = "over"] /\ UNCHANGED <<hook, sound>>
    /\ UNCHANGED <<voiceAgent, unwatched>>

\* disconnect, the user's or the unmount's
Disconnect ==
    /\ hook.status # "disconnected"
    /\ Drop("disconnected", TRUE)
    /\ sessions' = IF hook.room = 0 THEN sessions ELSE Close(hook.room)
    /\ UNCHANGED <<voiceAgent, unwatched>>

-----------------------------------------------------------------------------
Reconnecting(i) ==
    /\ At(i) /\ sessions[i].room = "live"
    /\ sessions' = [sessions EXCEPT ![i].room = "reconnecting"]
    /\ hook' = [hook EXCEPT !.status = "reconnecting"]
    /\ UNCHANGED <<sound, voiceAgent, unwatched>>

\* playback that was blocked is tried again
Reconnected(i) ==
    /\ At(i) /\ sessions[i].room = "reconnecting"
    /\ sessions' = [sessions EXCEPT ![i].room = "live"]
    /\ hook' = [hook EXCEPT !.status =
                    IF sound.track # "none" /\ ~sound.retry THEN "connected" ELSE "waiting"]
    /\ sound' = [sound EXCEPT !.activating = @ \/ (sound.retry /\ sound.gain # "none" /\ ~sound.user)]
    /\ UNCHANGED <<voiceAgent, unwatched>>

HookRoomDropped(i) ==
    /\ At(i) /\ sessions[i].room \in LiveRoom \cup {"leaving"}
    /\ Drop(IF hook.intentional THEN "disconnected" ELSE "error", hook.intentional)
    /\ sessions' = Close(i) /\ UNCHANGED <<voiceAgent, unwatched>>

\* failCurrentSession
FailSession(i) ==
    /\ Drop("error", TRUE) /\ sessions' = Close(i) /\ UNCHANGED <<voiceAgent, unwatched>>

Hears(i) == At(i) /\ sessions[i].room = "live" /\ voiceAgent = "alive"

AgentFailed(i) == Hears(i) /\ FailSession(i)

\* ended: the room is disconnected, its event does the rest
AgentEnded(i) ==
    /\ Hears(i)
    /\ hook' = [hook EXCEPT !.intentional = TRUE, !.timer = FALSE]
    /\ sessions' = [sessions EXCEPT ![i].room = "leaving"]
    /\ UNCHANGED <<sound, voiceAgent, unwatched>>

HookLifecycle(i, recovering) ==
    /\ Hears(i)
    /\ hook' = [hook EXCEPT !.timer = TRUE,
                    !.status = IF recovering THEN "recovering"
                               ELSE IF sound.track = "none" \/ sound.retry THEN "waiting"
                               ELSE "connected"]
    /\ sound' = [sound EXCEPT !.bot = FALSE]
    /\ UNCHANGED <<sessions, voiceAgent, unwatched>>

VoiceAgentFallsSilent ==
    /\ voiceAgent = "alive" /\ hook.timer /\ voiceAgent' = "silent"
    /\ UNCHANGED <<sessions, hook, sound, unwatched>>

\* the timer of armAgentHeartbeatTimeout, which nothing arms again but a packet
HookHeartbeatRunsOut(i) ==
    /\ hook.timer /\ At(i)
    /\ \/ sessions[i].room = "live" /\ FailSession(i)
       \/ /\ sessions[i].room # "live"
          /\ hook' = [hook EXCEPT !.timer = FALSE]
          /\ unwatched' = TRUE /\ UNCHANGED <<sessions, sound, voiceAgent>>

-----------------------------------------------------------------------------
\* TrackSubscribed up to its await, if the audio context is suspended; the
\* room may deliver the track before its connect has resolved
TrackSubscribed(i) ==
    /\ At(i) /\ sessions[i].room \in {"new", "live"} /\ voiceAgent = "alive"
    /\ sound' = [sound EXCEPT !.track = "resuming", !.activating = FALSE]
    /\ UNCHANGED <<sessions, hook, voiceAgent, unwatched>>

\* the new gain node is at 1.0; activateAssistantAudio unless the user speaks
TrackReady ==
    /\ sound.track = "resuming" /\ hook.room # 0
    /\ sound' = [sound EXCEPT !.track = "ready", !.gain = "on", !.activating = ~sound.user]
    /\ UNCHANGED <<sessions, hook, voiceAgent, unwatched>>

HookUnsubscribed(i) ==
    /\ Hears(i) /\ sound.track # "none"
    /\ sound' = [NoSound EXCEPT !.user = sound.user, !.holding = sound.holding]
    /\ hook' = [hook EXCEPT !.status = "waiting"]
    /\ UNCHANGED <<sessions, voiceAgent, unwatched>>

\* the browser plays, or refuses until a gesture of the user
ActivationAnswered ==
    /\ sound.activating /\ sound.track = "ready"
    /\ \/ /\ sound' = [sound EXCEPT !.activating = FALSE, !.retry = FALSE, !.gain = "on"]
          /\ hook' = [hook EXCEPT !.status = "connected"]
       \/ /\ sound' = [sound EXCEPT !.activating = FALSE, !.retry = TRUE]
          /\ hook' = [hook EXCEPT !.status = "waiting"]
    /\ UNCHANGED <<sessions, voiceAgent, unwatched>>

\* retryPlayback
UserGesture ==
    /\ sound.retry /\ ~sound.user /\ sound.gain # "none"
    /\ sound' = [sound EXCEPT !.activating = TRUE]
    /\ UNCHANGED <<sessions, hook, voiceAgent, unwatched>>

\* ActiveSpeakersChanged, also late packets of a speech that was interrupted
ActiveSpeakers(i, speaking) ==
    /\ At(i) /\ sessions[i].room = "live" /\ ~sound.user
    /\ sound' = [sound EXCEPT !.bot = speaking,
                    !.gain = IF speaking /\ @ # "none" THEN "on" ELSE @,
                    !.activating = @ \/ (speaking /\ sound.retry /\ sound.gain # "none")]
    /\ UNCHANGED <<sessions, hook, voiceAgent, unwatched>>

\* the detector: over a speaking assistant the user is held for 320 ms
SpeechStart ==
    /\ hook.mic /\ ~sound.user
    /\ sound' = [sound EXCEPT !.user = TRUE, !.holding = sound.bot]
    /\ UNCHANGED <<sessions, hook, voiceAgent, unwatched>>

BargeIn ==
    /\ sound.holding
    /\ sound' = [sound EXCEPT !.holding = FALSE, !.bot = FALSE,
                              !.gain = IF @ = "none" THEN @ ELSE "muted"]
    /\ UNCHANGED <<sessions, hook, voiceAgent, unwatched>>

\* mutant: the barge-in timer outlives the speech it was set for
StillHoldingAlways == sound.holding

StillHolding == FALSE

\* unmuteAssistantGain and handleSpeechEnd, which looks who speaks now
SpeechEnd ==
    /\ sound.user
    /\ \E speaking \in BOOLEAN :
          sound' = [sound EXCEPT !.user = FALSE, !.holding = StillHolding,
                        !.gain = IF @ = "none" THEN @ ELSE "on",
                        !.activating = @ \/ sound.gain # "none",
                        !.bot = @ \/ speaking]
    /\ UNCHANGED <<sessions, hook, voiceAgent, unwatched>>

-----------------------------------------------------------------------------
Continues(i) == TokenAnswered(i) \/ HookRoomConnected(i) \/ MicrophonePublished(i) \/ ConnectFails(i)
RoomEvent(i) == Reconnecting(i) \/ Reconnected(i) \/ HookRoomDropped(i) \/ AgentFailed(i)
                  \/ AgentEnded(i) \/ TrackSubscribed(i) \/ HookUnsubscribed(i)
                  \/ \E b \in BOOLEAN : HookLifecycle(i, b) \/ ActiveSpeakers(i, b)
Audio == TrackReady \/ ActivationAnswered \/ UserGesture \/ SpeechStart \/ BargeIn \/ SpeechEnd

LiveNext == \/ Disconnect \/ VoiceAgentFallsSilent \/ Audio
            \/ \E i \in Ids : HookConnect(i) \/ Continues(i) \/ RoomEvent(i) \/ HookHeartbeatRunsOut(i)

\* timers run out when no packet arms them again
LiveFairness == \A i \in Ids : WF_liveVars(voiceAgent = "silent" /\ HookHeartbeatRunsOut(i))

-----------------------------------------------------------------------------
(***************************************************************************)
(* Whatever order connects, disconnects, failures and late continuations   *)
(* come in, every room that is not closed is the one the hook holds, and   *)
(* the microphone and the heartbeat timer belong to it.                    *)
(***************************************************************************)
OneRoomIsHeld ==
    /\ \A i \in Ids : sessions[i].room \in {"new", "leaving"} \cup LiveRoom => Current(i)
    /\ hook.mic \/ hook.timer => hook.room # 0 /\ sessions[hook.room].room \in LiveRoom \cup {"leaving"}
    /\ hook.status \in InCall => hook.room # 0

(***************************************************************************)
(* The assistant is muted only while the user speaks: no interruption, no  *)
(* backchannel and no change of track leaves it silent afterwards.         *)
(***************************************************************************)
MutedOnlyWhileUserSpeaks == sound.gain = "muted" => sound.user

(***************************************************************************)
(* An agent that stops sending heartbeats ends the session, unless the     *)
(* timer ran out in a reconnection.                                        *)
(***************************************************************************)
DeadAgentEndsTheSession ==
    voiceAgent = "silent" ~> voiceAgent = "alive" \/ hook.room = 0 \/ unwatched

(***************************************************************************)
(* The hook has its rooms and its sound in hand: it holds the one room that*)
(* is not closed, and what it muted for the user it does not forget.       *)
(***************************************************************************)
HookIsInHand == OneRoomIsHeld /\ MutedOnlyWhileUserSpeaks
=================================================================================
