---------------------------- MODULE TestingSandbox ----------------------------
(***************************************************************************)
(* The voice page of the web app: one LiveKit room per page, at most one   *)
(* page of the browser live at a time by a Web Lock.  A page is one mount  *)
(* of the component: another tab, or the same tab coming back.  startSession *)
(* runs through five awaits; the room's events, the heartbeat timer, the   *)
(* buttons and the unmount happen between them.                            *)
(* Transcripts, the visualizer and the settings shown are left out; a      *)
(* lifecycle packet of another session cannot arrive, as a room whose ref  *)
(* is dropped is disconnected in the same step.                            *)
(***************************************************************************)
EXTENDS Naturals, FiniteSets

CONSTANTS Pages, NoPage
ASSUME SandboxAssumption == NoPage \notin Pages

VARIABLES page,     \* per page: its view, startSession's await, its refs and status
          voiceLock, \* holder of "vocalist-livekit-voice-session"
          webLocks  \* the browser has navigator.locks

sandboxVars == <<page, voiceLock, webLocks>>

Fresh == [view |-> "unopened", flight |-> "idle", room |-> "none", mic |-> FALSE,
          timer |-> FALSE, audio |-> FALSE, agent |-> "absent",
          status |-> "disconnected", midway |-> FALSE]

PageState ==
    [view : {"unopened", "mounted", "gone"},
     flight : {"idle", "lock", "token", "connect", "mic", "publish"},
     room : {"none", "connecting", "live"},
     mic : BOOLEAN, timer : BOOLEAN, audio : BOOLEAN,
     agent : {"absent", "alive", "silent"},
     status : {"disconnected", "connecting", "connected", "recovering", "speaking"},
     midway : BOOLEAN]

SandboxTypeOK ==
    /\ page \in [Pages -> PageState]
    /\ voiceLock \in Pages \cup {NoPage} /\ webLocks \in BOOLEAN

SandboxInit ==
    /\ page = [p \in Pages |-> Fresh]
    /\ voiceLock = NoPage /\ webLocks \in BOOLEAN

Becomes(p, state) == page' = [page EXCEPT ![p] = state] /\ UNCHANGED webLocks
Release(p) == voiceLock' = IF voiceLock = p THEN NoPage ELSE voiceLock

\* what every way out of a session clears; disconnecting an empty ref is nothing
Cleared(state) == [state EXCEPT !.room = "none", !.mic = FALSE, !.timer = FALSE,
                                !.audio = FALSE, !.agent = "absent",
                                !.status = "disconnected"]

-----------------------------------------------------------------------------
Mount(p) ==
    /\ page[p].view = "unopened"
    /\ Becomes(p, [page[p] EXCEPT !.view = "mounted"]) /\ UNCHANGED voiceLock

\* startSession up to its first await
StartSession(p) ==
    /\ page[p].view = "mounted"
    /\ page[p].flight = "idle" /\ page[p].room = "none"
    /\ Becomes(p, [page[p] EXCEPT !.flight = "lock", !.status = "connecting"])
    /\ UNCHANGED voiceLock

\* mutant: the lock is taken over from the page that holds it
LockIsTakenOver == TRUE

LockIsFree == voiceLock = NoPage

\* acquireVoiceSessionLock answers
LockAnswered(p) ==
    /\ page[p].flight = "lock"
    /\ \/ /\ webLocks /\ LockIsFree
          /\ voiceLock' = p
          /\ Becomes(p, [page[p] EXCEPT !.flight = "token"])
       \/ /\ webLocks /\ ~LockIsFree
          /\ Becomes(p, [page[p] EXCEPT !.flight = "idle", !.status = "disconnected"])
          /\ UNCHANGED voiceLock
       \/ /\ ~webLocks
          /\ Becomes(p, [page[p] EXCEPT !.flight = "token"]) /\ UNCHANGED voiceLock

TokenFetched(p) ==
    /\ page[p].flight = "token"
    /\ Becomes(p, [page[p] EXCEPT !.flight = "connect", !.room = "connecting"])
    /\ UNCHANGED voiceLock

\* room.connect resolves, the heartbeat is armed, the microphone is requested
RoomConnected(p) ==
    /\ page[p].flight = "connect" /\ page[p].room = "connecting"
    /\ Becomes(p, [page[p] EXCEPT !.flight = "mic", !.room = "live", !.timer = TRUE,
                                  !.agent = "alive"])
    /\ UNCHANGED voiceLock

MicrophoneOpened(p) ==
    /\ page[p].flight = "mic"
    /\ Becomes(p, [page[p] EXCEPT !.flight = "publish", !.mic = TRUE])
    /\ UNCHANGED voiceLock

Published(p) ==
    /\ page[p].flight = "publish" /\ page[p].room = "live"
    /\ Becomes(p, [page[p] EXCEPT !.flight = "idle", !.status = "connected"])
    /\ UNCHANGED voiceLock

\* an await rejects (publishing into a disconnected room always does): the catch
StartFails(p) ==
    /\ page[p].flight \in {"token", "connect", "mic", "publish"}
    /\ Becomes(p, [Cleared(page[p]) EXCEPT !.flight = "idle"])
    /\ Release(p)

-----------------------------------------------------------------------------
\* TrackSubscribed of the accepted participant
AgentSpeaks(p) ==
    /\ page[p].room = "live" /\ page[p].agent = "alive"
    /\ Becomes(p, [page[p] EXCEPT !.audio = TRUE, !.status = "speaking"])
    /\ UNCHANGED voiceLock

\* TrackUnsubscribed or ParticipantDisconnected
AudioStops(p) ==
    /\ page[p].room = "live" /\ page[p].audio
    /\ \E agent \in {page[p].agent, "silent"} :
          Becomes(p, [page[p] EXCEPT !.audio = FALSE, !.agent = agent])
    /\ UNCHANGED voiceLock

\* a lifecycle packet of the agent arms the heartbeat and shows a state
Lifecycle(p, status) ==
    /\ page[p].room = "live" /\ page[p].agent = "alive"
    /\ Becomes(p, [page[p] EXCEPT !.timer = TRUE, !.status = status])
    /\ UNCHANGED voiceLock

AgentFallsSilent(p) ==
    /\ page[p].agent = "alive"
    /\ Becomes(p, [page[p] EXCEPT !.agent = "silent"]) /\ UNCHANGED voiceLock

\* failVoiceSession: the agent says failed or ended, or the heartbeat runs out
FailVoiceSession(p) ==
    /\ page[p].room # "none"
    /\ Becomes(p, Cleared(page[p])) /\ Release(p)

\* mutant: only a page that shows "connected" gives up at the end of the heartbeats
HeartbeatRunsOutIdle(p) == page[p].timer /\ page[p].status = "connected" /\ FailVoiceSession(p)

AgentEnds(p) == page[p].room = "live" /\ page[p].agent = "alive" /\ FailVoiceSession(p)
HeartbeatRunsOut(p) == page[p].timer /\ FailVoiceSession(p)

\* mutant: a dropped room keeps the lock
RoomDroppedLocked(p) ==
    /\ page[p].room = "live"
    /\ Becomes(p, Cleared(page[p])) /\ UNCHANGED voiceLock

\* RoomEvent.Disconnected while the room is the current one
RoomDropped(p) ==
    /\ page[p].room = "live"
    /\ Becomes(p, Cleared(page[p])) /\ Release(p)

StopSession(p) ==
    /\ page[p].view = "mounted" /\ page[p].flight = "idle"
    /\ page[p].status \notin {"disconnected", "connecting"}
    /\ Becomes(p, Cleared(page[p])) /\ Release(p)

\* the unmount effect: before the room exists there is nothing to disconnect
Unmount(p) ==
    /\ page[p].view = "mounted"
    /\ Becomes(p, [Cleared(page[p]) EXCEPT !.view = "gone",
                      !.status = page[p].status,
                      !.midway = page[p].flight \in {"lock", "token"}])
    /\ Release(p)

-----------------------------------------------------------------------------
AwaitAnswered(p) == LockAnswered(p) \/ TokenFetched(p) \/ RoomConnected(p)
                \/ MicrophoneOpened(p) \/ Published(p) \/ StartFails(p)
RoomEvents(p) == AgentSpeaks(p) \/ AudioStops(p) \/ AgentFallsSilent(p)
                   \/ AgentEnds(p) \/ RoomDropped(p)
                   \/ \E status \in {page[p].status, "recovering", "connected"} :
                         Lifecycle(p, status)

SandboxNext == \E p \in Pages :
    \/ Mount(p) \/ StartSession(p) \/ StopSession(p) \/ Unmount(p)
    \/ AwaitAnswered(p) \/ RoomEvents(p) \/ HeartbeatRunsOut(p)

SandboxSpec == SandboxInit /\ [][SandboxNext]_sandboxVars

\* timers run out when no packet arms them again; the requests are answered, except
\* for the microphone, which a user may never grant
SandboxFairness == \A p \in Pages :
    /\ WF_sandboxVars(page[p].agent = "silent" /\ HeartbeatRunsOut(p))
    /\ WF_sandboxVars(page[p].flight # "mic" /\ AwaitAnswered(p))

-----------------------------------------------------------------------------
(***************************************************************************)
(* One voice session per browser (TestingSandboxPage.tsx:105-135): two     *)
(* pages are never live together, except for a page left before its room   *)
(* existed, whose startSession goes on with the lock given back.           *)
(***************************************************************************)
OneLiveVoice ==
    webLocks => \A p, q \in Pages :
        p # q /\ page[p].room = "live" /\ page[q].room = "live"
            => page[p].midway \/ page[q].midway

(***************************************************************************)
(* A page without a room and without a start in progress holds nothing:    *)
(* no microphone, no audio, no timer, not the lock; and a page that is     *)
(* left comes to that, unless it was left before its room existed.         *)
(***************************************************************************)
NothingIsLeftOpen ==
    \A p \in Pages :
        /\ page[p].flight = "idle" /\ page[p].room = "none"
              => /\ ~page[p].mic /\ ~page[p].timer /\ ~page[p].audio
                 /\ voiceLock # p
        /\ page[p].view = "gone" /\ ~page[p].midway => page[p].room = "none"

(***************************************************************************)
(* What the user reads is true: a page that shows a session has a live     *)
(* room and, where the browser has locks, the lock; a page that shows none *)
(* has no room.                                                            *)
(***************************************************************************)
ShownStatusIsTrue ==
    \A p \in Pages : page[p].view = "mounted" =>
        IF page[p].status \in {"connected", "recovering", "speaking"}
        THEN page[p].room = "live" /\ (webLocks => voiceLock = p)
        ELSE page[p].room = "live" => page[p].flight # "idle"

(***************************************************************************)
(* An agent that stops sending heartbeats does not leave the user in a     *)
(* dead session: the room is given up, whatever state is shown.            *)
(***************************************************************************)
SilentAgentIsNoticed ==
    \A p \in Pages : page[p].agent = "silent" ~> page[p].room = "none"

(***************************************************************************)
(* What a page shows and what it holds agree: no room, microphone, timer or*)
(* lock without a session that is shown, and no session without its room.  *)
(***************************************************************************)
SandboxHoldsWhatItShows == NothingIsLeftOpen /\ ShownStatusIsTrue
===============================================================================
