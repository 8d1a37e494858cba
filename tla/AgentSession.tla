----------------------------- MODULE AgentSession -----------------------------
(***************************************************************************)
(* The voice agent of one LiveKit job: the entrypoint that verifies the    *)
(* dispatch, loads the profile, starts the realtime session and tells the  *)
(* clients its state; the event handlers, which only leave tasks to the    *)
(* event loop; the heartbeat, the loop monitor and the silence watchdog;   *)
(* and the hang-up.  A session closes when LiveKit or the provider says    *)
(* so, also while it is being started.  What clients see is the            *)
(* publisher's state: every heartbeat repeats it.                          *)
(***************************************************************************)
EXTENDS Naturals, Sequences

CONSTANT MaxEvents  \* provider errors and recoveries (a bound of the model)

ASSUME AgentAssumption == MaxEvents \in Nat

VARIABLES job,       \* where the entrypoint is
          snapshot,  \* the dispatch names a published profile version
          voice,     \* the realtime session
          todo,      \* tasks of the event handlers, in the order they begin
          lifecycle, \* the publisher's state
          beat,      \* its heartbeat
          client,    \* the pooled connection to the backend
          monitor,   \* the event-loop monitor
          overtaken, \* the session closed before the clients were told it was ready, or
                     \* reported an incident after its start had failed (history)
          incidents, \* errors and recoveries so far
          watchdog,  \* the silence watchdog
          quiet,     \* its stop event
          idle,      \* no final transcript for the time-out
          leaving,   \* hang_up_call waits to disconnect
          joined     \* the room

startVars == <<job, snapshot, voice, todo, lifecycle, beat, client, monitor, overtaken, incidents>>
watchVars == <<watchdog, quiet, idle, leaving, joined>>
agentVars == <<startVars, watchVars>>

Transitions == {"recovering", "failed", "recovered"}
Tasks == Transitions \cup {"close client", "end: error", "end", "stop"}

AgentTypeOK ==
    /\ job \in {"asked", "loading", "announcing", "starting", "readying", "running",
                  "failing", "stopping", "raised"}
    /\ voice \in {"none", "open", "closed"}
    /\ todo \in Seq(Tasks) /\ Len(todo) <= MaxEvents + 3
    /\ lifecycle \in Transitions \cup {"starting", "ready", "ended"}
    /\ beat \in {"none", "beating", "stopped"} /\ client \in {"none", "open", "closed"}
    /\ monitor \in {"none", "running", "over"}
    /\ watchdog \in {"none", "watching", "leaving", "over", "failed"}
    /\ {snapshot, quiet, idle, leaving, joined, overtaken} \subseteq BOOLEAN
    /\ incidents \in 0..MaxEvents

AgentInit ==
    /\ job = "asked" /\ snapshot \in BOOLEAN /\ voice = "none" /\ todo = <<>>
    /\ lifecycle = "starting" /\ beat = "none" /\ client = "none" /\ monitor = "none"
    /\ overtaken = FALSE /\ incidents = 0
    /\ watchdog = "none" /\ quiet = FALSE /\ idle = FALSE
    /\ leaving = FALSE /\ joined = FALSE

-----------------------------------------------------------------------------
\* the signed dispatch is verified, then the room joined; a stale one is refused
Accept ==
    /\ job = "asked"
    /\ \/ job' = "loading" /\ joined' = TRUE
       \/ job' = "raised" /\ UNCHANGED joined
    /\ UNCHANGED <<snapshot, voice, todo, lifecycle, beat, client, monitor, overtaken, incidents,
                   watchdog, quiet, idle, leaving>>

\* the snapshot is loaded, or the baseline prompt is used; the clock of silence starts
ProfileLoaded ==
    /\ job = "loading" /\ job' = "announcing" /\ client' = "open" /\ beat' = "beating"
    /\ UNCHANGED <<snapshot, voice, todo, lifecycle, monitor, overtaken, incidents, watchVars>>

\* a session bound to a published version does not start without it
ProfileRefused ==
    /\ job = "loading" /\ snapshot /\ job' = "raised"
    /\ UNCHANGED <<snapshot, voice, todo, lifecycle, beat, client, monitor, overtaken, incidents, watchVars>>

StartVoice ==
    /\ job = "announcing" /\ job' = "starting" /\ voice' = "open"
    /\ UNCHANGED <<snapshot, todo, lifecycle, beat, client, monitor, overtaken, incidents, watchVars>>

\* session.start() has returned, whatever happened to the session meanwhile
VoiceStarted ==
    /\ job = "starting" /\ job' = "readying" /\ lifecycle' = "ready"
    /\ UNCHANGED <<snapshot, voice, todo, beat, client, monitor, overtaken, incidents, watchVars>>

\* "ready" is published; the monitor and the watchdog begin, and end at once if told to
Ready ==
    /\ job = "readying" /\ job' = "running"
    /\ monitor' = IF voice = "closed" THEN "over" ELSE "running"
    /\ watchdog' = IF quiet THEN "over" ELSE "watching"
    /\ UNCHANGED <<snapshot, voice, todo, lifecycle, beat, client, overtaken, incidents,
                   quiet, idle, leaving, joined>>

VoiceFails ==
    /\ job = "starting" /\ job' = "failing" /\ lifecycle' = "failed"
    /\ UNCHANGED <<snapshot, voice, todo, beat, client, monitor, overtaken, incidents, watchVars>>

StopHeartbeat ==
    /\ job = "failing" /\ job' = "stopping" /\ beat' = "stopped"
    /\ UNCHANGED <<snapshot, voice, todo, lifecycle, client, monitor, overtaken, incidents, watchVars>>

Raise ==
    /\ job = "stopping" /\ job' = "raised" /\ client' = "closed"
    /\ UNCHANGED <<snapshot, voice, todo, lifecycle, beat, monitor, overtaken, incidents, watchVars>>

-----------------------------------------------------------------------------
\* the handlers of the session's events
ErrorOrRecovery(shown) ==
    /\ voice = "open" /\ incidents < MaxEvents /\ incidents' = incidents + 1
    /\ todo' = Append(todo, shown)
    /\ UNCHANGED <<job, snapshot, voice, lifecycle, beat, client, monitor, overtaken, watchVars>>

\* mutant: the pooled client is left open
ClosingTasksShort(reason) == <<reason>>

\* on_session_close
ClosingTasks(reason) == <<"close client", reason>>

SessionCloses(reason) ==
    /\ voice = "open" /\ voice' = "closed"
    /\ todo' = todo \o ClosingTasks(reason) /\ quiet' = TRUE
    /\ monitor' = IF monitor = "running" THEN "over" ELSE monitor
    /\ overtaken' = (overtaken \/ job \in {"starting", "readying"})
    /\ UNCHANGED <<job, snapshot, lifecycle, beat, client, incidents,
                   watchdog, idle, leaving, joined>>

\* lifecycle.transition accepts any state; the close skips it after a failure
Told(task) ==
    IF task \in Transitions THEN task
    ELSE IF task = "end: error" THEN "failed"
    ELSE IF task = "end" /\ lifecycle # "failed" THEN "ended" ELSE lifecycle

RunTask ==
    /\ todo # <<>>
    /\ LET task == Head(todo) IN
       /\ lifecycle' = Told(task)
       /\ client' = IF task = "close client" THEN "closed" ELSE client
       /\ beat' = IF task = "stop" THEN "stopped" ELSE beat
       /\ todo' = Tail(todo) \o (IF task \in {"end: error", "end"} THEN <<"stop">> ELSE <<>>)
       /\ overtaken' = (overtaken \/ (task \in Transitions
                                      /\ job \in {"failing", "stopping", "raised"}))
    /\ UNCHANGED <<job, snapshot, voice, monitor, incidents, watchVars>>

-----------------------------------------------------------------------------
\* on_user_input: only a final transcript is activity
FinalTranscript ==
    /\ voice = "open" /\ idle /\ idle' = FALSE
    /\ UNCHANGED <<startVars, watchdog, quiet, leaving, joined>>

\* the time-out since the last final transcript, or since the entrypoint made the session
TimePasses ==
    /\ ~idle /\ voice = "open" /\ idle' = TRUE
    /\ UNCHANGED <<startVars, watchdog, quiet, leaving, joined>>

WatchdogFires ==
    /\ watchdog = "watching" /\ ~quiet /\ idle
    /\ watchdog' = "leaving" /\ quiet' = TRUE
    /\ UNCHANGED <<startVars, idle, leaving, joined>>

WatchdogStops ==
    /\ watchdog = "watching" /\ quiet /\ watchdog' = "over"
    /\ UNCHANGED <<startVars, quiet, idle, leaving, joined>>

\* hang_up_call tells the clients at once and leaves two seconds later
HangUp ==
    /\ voice = "open" /\ job = "running" /\ ~leaving /\ leaving' = TRUE
    /\ UNCHANGED <<startVars, watchdog, quiet, idle, joined>>

\* room.disconnect(), of either
LeaveRoom ==
    /\ (watchdog = "leaving" \/ leaving)
    /\ joined' = FALSE /\ leaving' = FALSE
    /\ watchdog' = IF watchdog = "leaving" THEN "over" ELSE watchdog
    /\ UNCHANGED <<startVars, quiet, idle>>

\* what publishes or disconnects raises, and it is swallowed: neither tries again
LeaveFails ==
    /\ \/ watchdog = "leaving" /\ watchdog' = "failed" /\ UNCHANGED leaving
       \/ leaving /\ leaving' = FALSE /\ UNCHANGED watchdog
    /\ UNCHANGED <<startVars, quiet, idle, joined>>

AgentSteps ==
    \/ ProfileLoaded \/ StartVoice \/ VoiceStarted \/ Ready \/ StopHeartbeat \/ Raise
    \/ RunTask \/ WatchdogFires \/ WatchdogStops \/ LeaveRoom

AgentNext ==
    \/ Accept \/ ProfileRefused \/ VoiceFails \/ AgentSteps
    \/ \E shown \in Transitions : ErrorOrRecovery(shown)
    \/ \E reason \in {"end: error", "end"} : SessionCloses(reason)
    \/ FinalTranscript \/ TimePasses \/ HangUp \/ LeaveFails

\* the event loop, its timers, and the room's events once it is left
LeftRoomCloses == voice = "open" /\ ~joined /\ SessionCloses("end")
AgentFairness == WF_agentVars(AgentSteps) /\ WF_agentVars(LeftRoomCloses)

AgentSpec == AgentInit /\ [][AgentNext]_agentVars /\ AgentFairness

-----------------------------------------------------------------------------
(***************************************************************************)
(* An agent that is over says so and goes quiet: once the session has      *)
(* closed or its start has failed and the tasks left behind have run, the  *)
(* heartbeat, the monitor and the backend connection are ended and the     *)
(* last state told to the clients is a final one, but where the session    *)
(* closed while it was being started, or outlived a start that failed and  *)
(* reported an incident (agent.py on_session_close and the entrypoint's    *)
(* failure path, lifecycle.py transition).                                 *)
(***************************************************************************)
Over == job = "raised" \/ (job = "running" /\ voice = "closed")

EndedAgentIsQuiet ==
    Over /\ todo = <<>> /\ client # "none" =>
        /\ beat = "stopped" /\ client = "closed" /\ monitor # "running"
        /\ lifecycle \in {"failed", "ended"} \/ overtaken

(***************************************************************************)
(* A caller who stays silent does not hold the line: a running agent that  *)
(* has heard nothing for the time-out ends its session, unless it hears    *)
(* something after all, whatever became of the hang-ups it was asked for,  *)
(* but where the watchdog's own one attempt to leave raised: it is         *)
(* swallowed and the watchdog is over (agent.py _silence_watchdog).        *)
(***************************************************************************)
SilenceEndsTheCall ==
    job = "running" /\ voice = "open" /\ idle
        ~> voice = "closed" \/ ~idle \/ watchdog = "failed"
================================================================================
