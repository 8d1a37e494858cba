------------------------------- MODULE VoiceCall -------------------------------
(***************************************************************************)
(* The live-call screen of the mobile app: useVoiceBot behind              *)
(* VoiceAssistant.  A mount is one opening of the screen; its callbacks    *)
(* and awaits go on after it is closed.  The native audio session is one   *)
(* for the whole app, and its calls take effect in the order they are      *)
(* made.  generationRef is modelled by stale: the attempt in flight is not *)
(* the latest generation any more.  An attempt overtaken by another start  *)
(* of its mount while it fetched the token, or after its room was lost,    *)
(* only returns null and is dropped; one overtaken in between looks at the *)
(* generation no more before it has made its room, and is kept as older.   *)
(* Transcripts, tasks, levels, the speaker switch and interrupt are left   *)
(* out.                                                                    *)
(***************************************************************************)
EXTENDS Naturals, Sequences

CONSTANTS Mounts,     \* openings of the screen, one at a time
          MaxToggles, \* calls to the microphone in flight (a bound of the model)
          MaxCaught   \* failed starts a mount still cleans up after (a bound of the model)
ASSUME VoiceAssumption == MaxToggles \in Nat \ {0} /\ MaxCaught \in Nat \ {0}

VARIABLES call,   \* per mount: screen, attempt, room and refs
          audio   \* AudioSession; "stray": turned on by a start that was left or overtaken

voiceVars == <<call, audio>>

Untouched == [view |-> "unopened", flight |-> "idle", stale |-> FALSE, room |-> "none",
              ref |-> "none", heard |-> FALSE, status |-> "disconnected",
              ending |-> "idle", drops |-> 0, stops |-> 0, older |-> "none",
              wish |-> "on", mic |-> "off", asks |-> <<>>, first |-> "on", ahead |-> 0,
              lost |-> <<>>, crossed |-> FALSE, overrun |-> FALSE, astray |-> FALSE]

Active == {"connecting", "waiting_for_agent", "connected", "reconnecting"}

\* what setMicrophoneEnabled is asked for; mutedRef is kept as the wish
Switch == {"on", "off"}
Other(switch) == IF switch = "on" THEN "off" ELSE "on"

\* ref: whose room roomRef is, the latest attempt's or the older's.  drops and
\* stops: catches that wait for room.disconnect, and for stopAudioSession.
\* asks are the presses the room has yet to answer, of which ahead came before
\* the attempt's first ask; lost are those of rooms that were left since.
\* overrun: what an earlier call left to do came over the attempt or its room.
\* astray: the older's room took the place of the attempt's in roomRef.
Call == [view : {"unopened", "open", "closed"},
         flight : {"idle", "token", "audio", "output", "connect", "mic"},
         stale : BOOLEAN, room : {"none", "connecting", "live"},
         ref : {"none", "own", "older"}, heard : BOOLEAN,
         status : Active \cup {"disconnected", "error"},
         ending : {"idle", "leaving", "stopping"}, drops : Nat, stops : Nat,
         older : {"none", "audio", "output", "connect"}, wish : Switch, mic : Switch,
         asks : Seq(Switch), first : Switch, ahead : Nat, lost : Seq(Switch),
         crossed : BOOLEAN, overrun : BOOLEAN, astray : BOOLEAN]

VoiceTypeOK ==
    /\ call \in [Mounts -> Call]
    /\ \A m \in Mounts : Len(call[m].asks) + Len(call[m].lost) <= MaxToggles
    /\ audio \in {"off", "on", "stray"}

VoiceInit ==
    /\ call = [m \in Mounts |-> Untouched]
    /\ audio = "off"

Becomes(m, state) == call' = [call EXCEPT ![m] = state]
Quiet == UNCHANGED audio

\* the room is disconnected: the calls to its microphone will be refused
Roomless(state) == [state EXCEPT !.room = "none", !.mic = "off", !.heard = FALSE,
                        !.asks = <<>>, !.ahead = 0, !.lost = @ \o state.asks]
Dropped(state) == [Roomless(state) EXCEPT !.ref = "none"]

\* roomRef is emptied, and the room it held disconnected
LetGo(state) == IF state.ref = "own" THEN Dropped(state) ELSE [state EXCEPT !.ref = "none"]

\* stopAudioSession, which may come over a later call
NeedsAudio(state) == state.view = "open" /\ (state.flight = "output" \/ state.room # "none")
Silenced(calls) ==
    /\ audio' = "off"
    /\ call' = [n \in Mounts |-> IF NeedsAudio(calls[n]) THEN [calls[n] EXCEPT !.overrun = TRUE]
                                  ELSE calls[n]]

\* roomRef and generationRef are still those of the attempt
IsCurrent(m) == call[m].ref = "own" /\ ~call[m].stale

-----------------------------------------------------------------------------
\* initiateCall up to fetchToken
Begun(state) == [state EXCEPT !.flight = "token", !.stale = FALSE, !.status = "connecting",
                              !.overrun = FALSE,
                              !.older = IF state.flight \in {"audio", "output"}
                                        THEN state.flight ELSE @]

\* of a mount, one overtaken attempt is followed at a time, no attempt after
\* its room was lost from sight, and MaxCaught catches (bounds of the model)
Followed(state) ==
    /\ state.flight \in {"audio", "output"} => state.older = "none"
    /\ state.room = "none" /\ state.drops + state.stops < MaxCaught

\* the screen opens and starts by itself
Open(m) ==
    /\ call[m].view = "unopened" /\ \A n \in Mounts : call[n].view # "open"
    /\ Becomes(m, [Begun(call[m]) EXCEPT !.view = "open"]) /\ Quiet

\* "Start voice call" and "Try again"
StartCall(m) ==
    /\ call[m].view = "open" /\ call[m].status \notin Active /\ call[m].ref = "none"
    /\ Followed(call[m])
    /\ Becomes(m, Begun(call[m])) /\ Quiet

TokenFetched(m) ==
    /\ call[m].flight = "token"
    /\ Becomes(m, [call[m] EXCEPT !.flight = IF call[m].stale THEN "idle" ELSE "audio"])
    /\ Quiet

AudioOn(isLatest) ==
    audio' = IF isLatest THEN "on" ELSE IF audio = "off" THEN "stray" ELSE audio

\* configureAudio and startAudioSession, without a look at the generation
AudioStarted(m) ==
    /\ call[m].flight = "audio"
    /\ AudioOn(~call[m].stale)
    /\ Becomes(m, [call[m] EXCEPT !.flight = "output"])

\* selectOutput, whose failure is ignored; the room becomes roomRef
RoomMade(m) ==
    /\ call[m].flight = "output"
    /\ Becomes(m, [call[m] EXCEPT !.flight = "connect", !.room = "connecting", !.ref = "own"])
    /\ Quiet

\* an overtaken attempt goes on: it starts the audio, puts its room into
\* roomRef, and leaves it when it is connected, or fails, which ends it
OlderGoesOn(m) ==
    \/ /\ call[m].older = "audio" /\ AudioOn(FALSE)
       /\ Becomes(m, [call[m] EXCEPT !.older = "output"])
    \/ /\ call[m].older = "output" /\ Quiet
       /\ Becomes(m, [call[m] EXCEPT !.older = "connect", !.ref = "older",
                         !.astray = @ \/ call[m].room # "none"])
    \/ /\ call[m].older \in {"audio", "connect"} /\ Quiet
       /\ Becomes(m, [call[m] EXCEPT !.older = "none"])

\* mutant: the generation is not looked at after connect
StillWantedUnchecked(m) == TRUE

StillWanted(m) == IsCurrent(m)

\* mutant: the microphone is opened whatever was pressed before
FirstAskUnmuted(m) == "on"

\* setMicrophoneEnabled(!mutedRef.current)
FirstAsk(m) == call[m].wish

RoomConnected(m) ==
    /\ call[m].flight = "connect" /\ call[m].room = "connecting"
    /\ \/ /\ StillWanted(m)
          /\ Becomes(m, [call[m] EXCEPT !.flight = "mic", !.room = "live",
                 !.status = IF call[m].heard THEN "connected" ELSE "waiting_for_agent",
                 !.first = FirstAsk(m), !.ahead = Len(call[m].asks)])
       \/ ~StillWanted(m) /\ Becomes(m, [Roomless(call[m]) EXCEPT !.flight = "idle"])
    /\ Quiet

\* the catch of initiateCall looks at the generation once, empties roomRef and
\* waits for room.disconnect; without a room it stops the audio at once
Caught(m, state) ==
    \/ /\ state.stale /\ Quiet
       /\ Becomes(m, [state EXCEPT !.flight = "idle"])
    \/ /\ ~state.stale /\ state.flight \in {"connect", "mic"} /\ Quiet
       /\ Becomes(m, [Dropped(state) EXCEPT !.flight = "idle", !.drops = @ + 1])
    \/ /\ ~state.stale /\ state.flight \notin {"connect", "mic"} /\ audio' = "off"
       /\ Becomes(m, [Dropped(state) EXCEPT !.flight = "idle", !.stops = @ + 1])

\* the room is left and the audio told to stop, whatever was started meanwhile
CatchLeaves(m) ==
    /\ call[m].drops > 0
    /\ LET state == [call[m] EXCEPT !.drops = @ - 1, !.stops = @ + 1]
       IN  Silenced([call EXCEPT ![m] = state])

\* the audio has stopped: the error is shown, whatever was started meanwhile
CatchShows(m) ==
    /\ call[m].stops > 0
    /\ LET state == call[m]
           underWay == state.flight \in {"token", "audio", "output"} \/ state.room # "none"
           isOpen == state.view = "open" IN
       Becomes(m, [state EXCEPT !.stops = @ - 1, !.status = IF isOpen THEN "error" ELSE @,
                                !.overrun = @ \/ (isOpen /\ underWay)])
    /\ Quiet

StartFails(m) ==
    /\ call[m].flight \in {"token", "audio", "connect"}
    /\ Caught(m, IF call[m].stale THEN Roomless(call[m]) ELSE call[m])

-----------------------------------------------------------------------------
\* the attempt's setMicrophoneEnabled is answered; a room takes what it is
\* asked in order, and refuses it once it is disconnected
FirstAnswered(m, ok) ==
    /\ call[m].flight = "mic" /\ call[m].ahead = 0
    /\ \/ /\ ok /\ call[m].room = "live"
          /\ Becomes(m, [call[m] EXCEPT !.mic = call[m].first, !.flight = "idle"]) /\ Quiet
       \/ ~ok /\ Caught(m, call[m])

\* that of a press is
ToggleAnswered(m, ok) ==
    /\ call[m].asks # <<>> /\ (call[m].flight = "mic" => call[m].ahead > 0)
    /\ LET ask == Head(call[m].asks)
           rest == [call[m] EXCEPT !.asks = Tail(@), !.ahead = IF @ > 0 THEN @ - 1 ELSE 0] IN
       \/ /\ ok /\ call[m].room = "live"
          /\ Becomes(m, [rest EXCEPT !.mic = ask])
       \/ /\ ~ok
          /\ Becomes(m, [rest EXCEPT !.wish = Other(ask),
                 !.crossed = @ \/ rest.asks # <<>> \/ rest.flight = "mic"])
    /\ Quiet

\* that of a press is refused by a room that was left
LostRefused(m) ==
    /\ call[m].lost # <<>>
    /\ Becomes(m, [call[m] EXCEPT !.lost = Tail(@), !.wish = Other(Head(call[m].lost)),
           !.crossed = @ \/ call[m].asks # <<>> \/ call[m].room = "live"])
    /\ Quiet

ToggleMute(m) ==
    /\ call[m].view = "open" /\ call[m].status \in Active
    /\ Len(call[m].asks) + Len(call[m].lost) < MaxToggles
    /\ LET next == Other(call[m].wish)
           asked == call[m].ref # "none"
           gone == call[m].room = "none" \/ call[m].ref = "older" IN
       Becomes(m, [call[m] EXCEPT !.wish = next,
           !.asks = IF asked /\ ~gone THEN Append(@, next) ELSE @,
           !.lost = IF asked /\ gone THEN Append(@, next) ELSE @])
    /\ Quiet

-----------------------------------------------------------------------------
\* TrackSubscribed, which may come before connect resolves
AgentHeard(m) ==
    /\ IsCurrent(m) /\ call[m].room # "none"
    /\ Becomes(m, [call[m] EXCEPT !.heard = TRUE, !.status = "connected"]) /\ Quiet

\* TrackUnsubscribed
AgentLost(m) ==
    /\ IsCurrent(m) /\ call[m].room # "none" /\ call[m].heard
    /\ Becomes(m, [call[m] EXCEPT !.heard = FALSE,
           !.status = IF call[m].room = "live" THEN "waiting_for_agent" ELSE @])
    /\ Quiet

Reconnecting(m) ==
    /\ IsCurrent(m) /\ call[m].room = "live"
    /\ Becomes(m, [call[m] EXCEPT !.status = "reconnecting"]) /\ Quiet

Reconnected(m) ==
    /\ IsCurrent(m) /\ call[m].status = "reconnecting"
    /\ Becomes(m, [call[m] EXCEPT
           !.status = IF call[m].heard THEN "connected" ELSE "waiting_for_agent"])
    /\ Quiet

\* Disconnected of the current room; a connect or microphone in flight will reject
RoomDropped(m) ==
    /\ IsCurrent(m) /\ call[m].room # "none"
    /\ Becomes(m, [Dropped(call[m]) EXCEPT !.status = "error"])
    /\ audio' = "off"

-----------------------------------------------------------------------------
\* end: endCall waits for room.disconnect, then for stopAudioSession
End(m) ==
    /\ call[m].view = "open" /\ call[m].ending = "idle"
    /\ LET held == call[m].ref # "none" IN
       /\ Becomes(m, [LetGo(call[m]) EXCEPT !.stale = TRUE,
                         !.ending = IF held THEN "leaving" ELSE "stopping"])
       /\ audio' = IF held THEN audio ELSE "off"

RoomLeft(m) ==
    /\ call[m].ending = "leaving"
    /\ Silenced([call EXCEPT ![m].ending = "stopping"])

\* the unmount effect; what the screen showed is gone with it, and what it has
\* in flight goes on, as does a room it has lost from sight
Unmounted(state) ==
    [(IF state.astray THEN LetGo(state) ELSE Untouched) EXCEPT
         !.view = "closed", !.stale = TRUE, !.flight = state.flight, !.ending = state.ending,
         !.drops = state.drops, !.stops = state.stops, !.older = state.older]

\* the audio is stopped and onClose goes back: whatever screen is open is
\* closed, which stops the audio again
Ended(m) ==
    /\ call[m].ending = "stopping"
    /\ audio' = IF \E n \in Mounts : call[n].view = "open" THEN "off" ELSE audio
    /\ call' = [n \in Mounts |->
          LET state == IF n = m THEN [call[m] EXCEPT !.ending = "idle", !.status = "disconnected"]
                       ELSE call[n]
          IN  IF state.view = "open" THEN Unmounted(state) ELSE state]

\* the back gesture, or a redirect because the user is signed out
LeaveCall(m) ==
    /\ call[m].view = "open"
    /\ Becomes(m, Unmounted(call[m]))
    /\ audio' = "off"

VoiceNext == \E m \in Mounts :
    \/ Open(m) \/ StartCall(m) \/ TokenFetched(m) \/ AudioStarted(m) \/ RoomMade(m)
    \/ RoomConnected(m) \/ OlderGoesOn(m) \/ StartFails(m) \/ CatchLeaves(m) \/ CatchShows(m)
    \/ ToggleMute(m)
    \/ (\E ok \in BOOLEAN : FirstAnswered(m, ok) \/ ToggleAnswered(m, ok)) \/ LostRefused(m)
    \/ AgentHeard(m) \/ AgentLost(m) \/ Reconnecting(m) \/ Reconnected(m)
    \/ RoomDropped(m) \/ End(m) \/ RoomLeft(m) \/ Ended(m) \/ LeaveCall(m)

-----------------------------------------------------------------------------
(***************************************************************************)
(* "End call, connection failure, or unmount disconnects the room and      *)
(* stops the native audio session" (mobile.md:56): a screen that is closed *)
(* and has nothing in flight has no room and no microphone, whichever      *)
(* await it was closed at, unless it had lost the room from sight to an    *)
(* overtaken attempt; and once all are closed, the audio session is off,   *)
(* unless a start that was left or overtaken turned it on.                 *)
(***************************************************************************)
HungUpIsReleased ==
    /\ \A m \in Mounts :
          call[m].view = "closed" /\ call[m].flight = "idle" /\ ~call[m].astray
              => call[m].room = "none" /\ call[m].mic = "off"
    /\ (\A m \in Mounts : call[m].view # "open") => audio # "on"

(***************************************************************************)
(* What an open screen shows is the case: a call it shows as established   *)
(* has its room and the audio session, and one it shows as over has        *)
(* neither room nor microphone.  Not while the call is being ended or a    *)
(* failed start cleaned up after, nor once the cleaning up or the end of   *)
(* an earlier call has come over this one (until the next is started), or  *)
(* an overtaken attempt's room has taken the place of its own.             *)
(***************************************************************************)
ShownCallIsTrue ==
    \A m \in Mounts :
        /\ call[m].view = "open" /\ call[m].ending = "idle"
        /\ call[m].drops = 0 /\ call[m].stops = 0 /\ ~call[m].overrun /\ ~call[m].astray
        => IF call[m].status \in Active \ {"connecting"}
           THEN IsCurrent(m) /\ call[m].room # "none" /\ audio = "on"
           ELSE call[m].status # "connecting"
                    => call[m].room = "none" /\ call[m].mic = "off"

(***************************************************************************)
(* A user who reads "muted" is not heard once the room has answered,       *)
(* through presses before, during and after the connection and refused     *)
(* calls, except when a press was refused while the room had a later one   *)
(* to answer, or by a room that was left while the next one was live, or   *)
(* when an overtaken attempt's room has taken the place of the call's.     *)
(***************************************************************************)
MutedIsSilent ==
    \A m \in Mounts :
        call[m].wish = "off" /\ call[m].asks = <<>> /\ call[m].flight # "mic"
            /\ ~call[m].crossed /\ ~call[m].astray => call[m].mic = "off"

(***************************************************************************)
(* What the phone shows and what it holds agree, on a screen that is open  *)
(* and after one that was closed.                                          *)
(***************************************************************************)
PhoneHoldsWhatItShows == HungUpIsReleased /\ ShownCallIsTrue
================================================================================
