# Verification of the AI voice assistant

TLA+ models of the parts of this repository whose correctness is a question of
order, failure or shared state, TLC configurations that check them on small
instances, and TLAPS proofs that hold for every instance. Paths are relative to
the repository.

| Module | What it models |
| --- | --- |
| `BookingPromise` | abstract specification: what callers are promised about bookings |
| `CalendarBooking` | booking an event: tool handler, idempotency records, broker, Google, request queue, recovery workers |
| `CalendarReads` | what callers are told of the calendar: the broker's cache, the database mirror, its synchronisation |
| `OAuthTokens` | a company's Google credential: refresh, connection, disconnection |
| `AgentTools` | a session's calendar tools: keys, repeated questions, cancellation on confirmation |
| `AgentSession` | the voice agent of one job: entrypoint, lifecycle, watchdog, hang-up |
| `AgentProfiles` | versions of the assistant: saving, publishing, rolling back, as transactions |
| `SessionToken` | setting up a session: the web proxy's retries and `get_or_create_session` |
| `CallController` | one tenant's 3CX calls: controllers, call rows, agents, bridges, shutdown |
| `EventAdapter` | the PBX's events: queue, epochs, participants, reconciliation |
| `TenantRuntime` | lease, start, expiry and drain of a tenant's runtime, around `EventAdapter` |
| `TenantSupervisor` | which runtimes run, while tenants are edited |
| `MediaBridge` | the audio of one call and how it ends |
| `TestingSandbox`, `LiveKitSession` | the voice page of the web app; the hook that holds a room |
| `Workspace`, `StatusCards` | the web app's pages and forms; its notices and integration cards |
| `MobileAccount`, `MobileProfile`, `VoiceCall` | the phone's account, profile screens and call |
| `MCBooking`, `MCCalls`, `MCRuntime`, `MCConnector`, `MCServices`, `MCClients` | instances for TLC |
| `BookingProofs`, `BookingExclusionProofs` | theorems about `CalendarBooking` |
| `CallProofs`, `CallCleanupProofs` | theorems about `CallController` |
| `RuntimeProofs` | theorems about `EventAdapter` and `TenantRuntime` |
| `ConnectorProofs` | theorems about `TenantSupervisor` and `MediaBridge`, of the instance `MCConnector` |
| `ServiceProofs` | theorems about the parts of `MCServices` |
| `ClientProofs` | theorems about the parts of `MCClients` |

`PROJECT.json` lists the components, the runs, the hazards with the properties
that cover them, the theorems, for every property a change of the model that
the property catches, and for every definition the source lines it stands for.

Contents: [1 the system](#1-the-system), [2 bookings](#2-bookings-calendarbooking),
[3 calls](#3-calls-callcontroller), [4 the connector around a call](#4-the-connector-around-a-call),
[5 services and pages](#5-services-and-pages), [6 clients](#6-clients-and-what-is-kept-for-them),
[7 proofs](#7-proofs), [8 what is not modelled](#8-what-is-not-modelled),
[9 observations](#9-observations), [10 running it](#10-running-it).

## 1. The system

A caller reaches a Gemini voice agent over LiveKit, from a browser, a phone or
through a 3CX PBX. The agent acts by posting tool calls to a FastAPI backend;
Google credentials are held by a separate broker. The state that survives a
process is in Postgres.

| Part | State | Operations | Talks to |
| --- | --- | --- | --- |
| Tools API (`backend/app/api/tools.py`, `backend/app/tools/calendar.py`) | none of its own | `execute_tool`: lock the key, run the tool, commit or refund | idempotency table, broker, queue |
| Idempotency records (`db/idempotency.py`) | status, payload, expiry per key | acquire, commit, release | tools API |
| Request queue (`db/booking_requests.py`) | status, attempts, lease per request | create, cancel, resume | tools API, worker, OAuth callback, client |
| Booking worker (`backend/booking_worker.py`) | the row in hand | claim, reconcile and book, write result | queue, broker |
| Credential broker (`backend/credential_broker/main.py`, `app/services/google_calendar.py`) | none | book, book-status, availability, list, cancel, synchronise | Google, token table, mirror |
| OAuth tokens (`app/services/google_oauth.py`, `db/tokens.py`, `db/oauth_states.py`) | tokens, cache, states | connect, refresh, disconnect | Google, queue |
| Calendar reads (`app/services/calendar_read_cache.py`, `db/calendar_mirror.py`) | cache and mirror | load, synchronise, invalidate | broker |
| Confirmations (`db/confirmation.py`) | single-use tokens | issue, consume | tools API |
| Profiles and settings (`db/agent_profiles.py`, `db/assistant_configuration.py`) | versions, publication | save, publish, roll back | settings API |
| LiveKit sessions (`db/livekit_sessions.py`, `frontend/src/lib/backendProxy.ts`) | one row per session | reserve and dispatch | LiveKit |
| Voice agent (`agent/`) | lifecycle, timers | answer, call tools, hang up | Gemini, tools API |
| 3CX call controller (`connector/call-controller.mjs`, `db/threecx.py`) | map of calls and locks; call rows | join, end, media failure, hang-up, renew, shutdown | database, LiveKit, media bridge, PBX |
| 3CX event adapter (`connector/threecx-sdk-event-adapter.mjs`) | participants, event queue, epoch | handle, reconcile, start, stop | PBX, controller |
| Tenant runtime, supervisor (`connector/*runtime.mjs`, `multi-tenant-supervisor.mjs`) | a lease, a map of runtimes | start, reconcile, expire, shut down | broker, adapter, controller |
| Media bridge (`connector/threecx-livekit-media-bridge.mjs`) | queues and pumps | start, close | PBX audio, LiveKit room, controller |
| Web app (`frontend/`) | pages, forms, caches, a room | edit, save, talk, poll | backend, LiveKit |
| Mobile app (`mobile/`) | account, forms, a room, native audio | sign in, edit, publish, call | backend, LiveKit |

**What is hard.** A booking crosses five processes and an external store, any
of which may answer late, twice or not at all; the retry that follows must
neither lose the booking nor report one that is not there. A call is one row,
one map entry, one agent and one bridge, each in another system, changed by
six operations that await between any two changes, by two connectors at once,
and torn down by steps that can each fail and be tried again by another
operation. Around these two lie caches read while somebody writes, timers that
race what they watch, and screens whose requests are answered after they were
left. The repository states the two rules that matter itself: a confirmation is
spoken only when the tool returned a verified success (`AGENT_GOAL.md`, Grounded
Confirmation Rule), and no action happens twice (`DECISION_LOG_ADR.md`, ADR-004).

**What makes each part correct.**
* *Bookings*: every confirmation, cached or queued, is of an event Google has
  taken; an acknowledged request is in the queue; one handler and one worker at
  a time per booking; what is settled is final; nothing waits or blocks for ever.
* *Calls*: one claim and at most one agent per call; a closed call has neither
  agent nor bridge; every agent and bridge can still be stopped by somebody; a
  drained connector is idle; ended calls get closed, shutdowns get answered; no
  caller is left in silence.
* *Connector*: the intake and the PBX agree; the lease outlives the calls; one
  runtime per tenant takes calls and the supervisor knows it; the configuration
  is adopted in the end; a closed bridge moves no audio.
* *Services*: no kept answer is older than a write its caller was told of; an
  ended agent is quiet; silence does not keep a session.
* *Clients*: a screen shows what there is; no form erases what another stored;
  what the owner chose last is in force; one agent and one voice per session.

**How the models are cut.** An action is the code between two awaits on
something another actor can see or change. Failure is part of every await the
code handles. Components that call each other in a way the properties depend on
are in one module or composed: handler, worker, broker and queue in
`CalendarBooking`; controllers, rows, agents and bridges in `CallController`;
adapter and runtime in `TenantRuntime`; verification, bridge and the
controller's handlers in `MediaBridge`. Where a caller only depends on the
outcomes of the other side, those outcomes are its environment: a runtime in
`TenantSupervisor` may start, fail, drain or expire as `TenantRuntime` does.

`MCConnector`, `MCServices` and `MCClients` each hold several components that share
no variable. A behaviour follows one of them, chosen at the start (`part`), so
an instance has the sum of their states and not the product, and a run asks the
properties of all of them at once. Where liveness is checked, no fair action is
enabled in the initial state of a part that is not followed; fairness therefore
asks nothing of it.

### Runs

| Run | Instance | Properties | Distinct states |
| --- | --- | --- | --- |
| `booking_stale` | 1 booking, 1 handler, 2 workers; outage, timeout, dberror, stall | `TypeOK`, `TruthfulConfirmation`, `PromiseIsQueued`, `ImplementsPromise` | 894 000 |
| `booking_orderly` | 1 booking, 2 handlers, 2 workers, 1 crash; all faults but stall and dberror | `ExclusiveExecution`, `ExclusiveClaim`, `SettledIsFinal`, `QueuedBookingSettles`, `LockIsFreed` | 133 000 |
| `booking_no_booking` | 1 of each; timeout | violates `NoBookingWasMade` | |
| `calls_contended` | 2 connectors, 1 call, 1 crash; all faults | `CallTypeOK`, `OneDispatch`, `ClaimIsForLife` | 3 100 000 |
| `calls_orderly` | 1 connector, 1 call, 1 crash; all faults but lost | `ClosedIsClean`, `ResourcesAreHeld` | 343 000 |
| `calls_liveness` | 1 connector, 1 call; stall, pbx | `DrainedIsIdle`, `EndedCallIsClosed`, `ShutdownAnswers` | 12 000 |
| `calls_silence` | 1 connector, 1 call; pbx | violates `NobodyLeftInSilence` | |
| `pbx_intake` | 2 calls, 2 participant numbers, 2 lost connections | `RuntimeTypeOK`, `IntakeIsTrue`, `ServedIsTracked`, `LeaseCoversCalls` | 6 030 000 |
| `connector` | 2 tenants, 3 runtimes, 2 edits; 2 tracks, 1 poll, 1 queued frame | `ConnectorTypeOK`, `RuntimesAreInHand`, `EndedCallIsQuiet`, `ConnectorSettles` | 117 000 |
| `media_unbound` | the bridge alone | violates `EveryEndedCallIsQuiet` | |
| `services` | see 5 | `ServicesTypeOK`, `WritesAreSeen`, `EndedAgentIsQuiet`, `OneLiveVoice`, `SandboxHoldsWhatItShows`, `ScreensAreTrue`, `SilenceIsNotKept`, `NewsArrive` | 354 000 |
| `clients` | see 6 | `ClientsTypeOK`, `OnlyFailuresLeaveAgents`, `TokenNamesTheSession`, `PhoneIsTrue`, `CallersHearTheTruth`, `StoredTextSurvives`, `OwnersChoiceIsInForce` | 1 835 000 |

A property that names an exception ("unless ...") names a defect of the code as
it is, kept as narrow as the model allows; section 9 lists them.

## 2. Bookings: `CalendarBooking`

### State

| Variable | Code |
| --- | --- |
| `event`, `busy`, `connected` | Google: the event under the identifier `google_calendar.py` derives from the key; the owner's other appointments; whether credentials work |
| `late` | `book` requests in the broker whose caller has timed out or died |
| `idem` | `idempotency_records`: status, the outcome in the payload, whether the lock's `expires_at` has passed |
| `row` | `calendar_booking_requests`: status, `attempt_count` (saturated at `MAX_ATTEMPTS`), whether the lease holds, whether the stored message says that no booking was made |
| `exec`, `worker` | the local state of a `/tools/execute` handler and of a booking worker: the next call to make, the key, the outcome so far |
| `resuming` | the OAuth callback between storing tokens and resuming paused requests |
| `announced` | history: bookings reported as confirmed to anybody |

An action is the code between two awaits on something that another process can
see. A handler goes `AcquireLock`, `ExecCheck` (the broker's freeBusy),
`ExecInsert`, then `ExecQueue` (for outcomes to be retried) and `ExecCommit`,
or `ExecRelease` after a conflict and from the `except` clause; a conflict's release
is inside the `try` (`tools.py:368`), so one that raises, applied or not, is made
once more by the `except` (:408). A finished record is answered by
`ReplyFromCache`. A worker goes `Claim`, `WorkerStatus`, `WorkerAvailability`,
`WorkerCheck`, `WorkerInsert`, `WorkerWrite`; `WorkerWriteFails` follows an
exception into the handler that writes once more.

Trouble is a constant set `Faults`: `outage` and `reject` are Google's answers,
`refuse` and `timeout` the broker's, `dberror` a statement that raises whether
or not it took effect, `crash` a process that dies, `stall` one that outlives
its lock or lease, `owner` edits of the calendar. `timeout` leaves the book
call running (`late`), so an event may appear after its caller was told that
the outcome is unknown.

**Abstracted.** Times become what may happen: a due row may be claimed, a lease
may run out. Without `stall` a lease lasts as long as its holder works, because
`LEASE_SECONDS` (120 s) exceeds three broker calls and two statements at their
timeouts (about 21 s and 15 s each), and the lock's 60 s one broker call and
three statements (10 s each).
Attendees, titles and time arithmetic are not told apart: a booking asks for one
interval. The signed transport to the broker is its outcome. `NextAttempt`
saturates, since the code only compares with `MAX_ATTEMPTS`.

### Properties and runs

* `booking_stale`: with lost replies, late inserts, failing statements and
  overtaken leases nobody confirms an event Google never took
  (`TruthfulConfirmation`), no acknowledged request is missing from the queue
  (`PromiseIsQueued`), and the system implements `BookingPromise`, in which a
  booking is made, then announced, and neither is ever withdrawn.
* `booking_orderly`: lock and lease exclude (`ExclusiveExecution`,
  `ExclusiveClaim`), settled is settled (`SettledIsFinal`), and under `FairSpec`
  retries end (`QueuedBookingSettles`) and keys are not blocked for ever
  (`LockIsFreed`).
* `booking_no_booking`: finding 1.

**Why the bounds are enough.** Bookings share only the interval they ask for,
and a second booking of an interval is to the first what an entry of the owner
is (`busy`), so one key shows every race over a record. Mutual exclusion needs
two of the contenders, and an overtaken lease needs the two workers.
`MaxAttempts = 2` has a first, a last and an exhausted attempt. One crash can
fall between any two steps; a second would begin from the state of the first,
an idle process and a late call.

**Fairness** (`FairSpec`). A handler or worker that can go on does (weak: every
awaited call has a timeout). Locks and leases run out (weak: time passes).
`Resume` follows the token exchange (weak: same request). `claim_one` orders due
rows by age, so a row that is claimable again and again is claimed by some
worker in the end (strong). Nothing obliges anybody to ask, cancel or reconnect,
nor Google to recover.

`ExclusiveExecution`, `ExclusiveClaim` and `SettledIsFinal` are stated under the
condition that makes them true: no process held up past its lock or lease, and
writes that do not raise. Without it they
fail in the code as in the model, because `_write_result`, the commit and the
release are not conditioned on the holder: a worker that was told of a failure writes
over a settled row, and the second release of a conflict frees the lock that the
next handler has taken since. `TruthfulConfirmation`,
`PromiseIsQueued` and the refinement hold all the same, and that is what
`booking_stale` is about.

### Finding

1. *"no booking was made"* (`backend/booking_worker.py:138`) can be stored for a
   booking whose event is in the calendar: a book call that timed out inserts
   between the worker's book-status and its availability read, and the booking's
   own event makes the slot look taken (`booking_no_booking`).

## 3. Calls: `CallController`

### State

| Variable | Code |
| --- | --- |
| `row` | `threecx_call_sessions`: state, claiming connector, whether the lease holds |
| `entry[k][c]` | controller `k`'s map entry of call `c`: whether it is still in the map, its state, `dispatchId` and `closeMedia` set, lease timer, lease flags; the operations queued for the call's lock (`waiting`), the one that holds it (`op`) and its next step (`pc`) |
| `claiming`, `mode`, `todo` | joins that await `claim_threecx_call`; the progress of `shutdown` and the calls it still has to drain |
| `caller`, `agents`, `bridges` | the PBX, LiveKit and the media bridges |
| `dispatches`, `died` | history: agents dispatched to each call; connectors whose process has ended at least once |

The operations of one call run one after the other under its promise-chain
lock: `Begin` is the moment one gets the lock, including the early returns that
find nothing left to do. Then the steps are one await each: `Connect`,
`Dispatch`, `Attach`, `Activate` of `#startCall`; `Renew`; `MarkEnding`,
`CloseMedia`, `StopAgent`, `Fallback`, `Finalise`, shared by all operations that
take a call down and put together differently by each (`FirstStep`,
`AfterCleanup`, `LastState`), as in the code. `Transition` is
`transition_threecx_call`: a compare-and-set on claim token and state over the
table of legal transitions.

`Faults`: `database` is a statement that raises, applied or not, after which the
entry and its row disagree and every later compare-and-set is refused;
`livekit` a failed request; `lost` a dispatch whose answer is lost, so that the
controller does not know its agent; `pbx` a transfer or drop that is not
confirmed; `stall` a lease that runs out; `crash` a connector restarted with an
empty map (`ProcessEnds`).

A transition that raises does not end alike in every operation, which is what
`Proceed` says. The start, the end event, a media failure and a renewal catch it
and give up the lock. In `shutdown` it rejects the shutdown itself: the calls not
yet drained stay as they are until another shutdown (`mode` is "incomplete").
In the agent's hang-up nobody catches it: the bridge calls `void this.onHangup(...)`,
so the rejection is unhandled and the connector process ends, with all its calls.

Two more details that matter. A renewal that has just ended sets the next timer after
it gave up the lock, so the following operation may clear the timer before it is
set: `Begin` leaves the timer open either way. And the event adapter keeps a
participant, and so delivers its end, only if the join was answered
`call_active`: `due` says that it owes one end event.

**Abstracted.** Validation of events, room names and bindings; the wording of
audit records; `transferring`/`transferred`, which no code enters. Of the
adapter, the bridge and the runtime only what they call. The bridge is taken to
be one whose `close` does not depend on its receiver; `MediaBridge` models the
repository's own class, and what its `close` does in the controller's hands.

### Properties and runs

* `calls_contended`: repeated joins at two connectors, crashes and lost answers
  give a call one owner for life (`ClaimIsForLife`) and at most one agent
  (`OneDispatch`).
* `calls_orderly`: a closed call has no agent or bridge (`ClosedIsClean`), and
  none is left without its handle (`ResourcesAreHeld`), whichever step failed,
  unless its connector died.
* `calls_liveness`: calls that end are closed (`EndedCallIsClosed`), shutdowns are
  answered (`ShutdownAnswers`), and one answered "stopped" left nothing behind
  (`DrainedIsIdle`), joins in flight included.
* `calls_silence`: finding 2.

**Why the bounds are enough.** Calls meet only in `shutdown`, which drains them
one after the other, so one call shows every interleaving of its operations.
Connectors meet only over a row, and two contend for it. Every fault may strike
at every step, as often as there are steps. Counters are bounded by the system
itself: a call is dispatched once.

**Fairness.** Every awaited call returns or raises (`Claim`, `Step`, the steps of
`shutdown`: weak). The lock is a promise chain, first come first served, so an
operation waiting for it gets it although others come and go (`Begin`: strong).
The adapter delivers the end event it owes (strong: a shutdown or a renewal may
be in the way); ends of calls that never became active are not owed, which is
what the code does. Nothing makes a caller join, hang up, a timer fire, media
fail or a shutdown start. `calls_*` configurations allow deadlock because a
drained connector really stops.

`EndedCallIsClosed` assumes a database and a LiveKit that answer, since the code
retries a failed cleanup only when another event comes, and none may.
`DrainedIsIdle` is checked, and proved, without database faults: a claim that commits and
raises leaves an open row that nobody tracks.

### Finding

2. `handleCallHangup` stores the answer of the PBX fallback in `hangupComplete`
   (`connector/call-controller.mjs:226`) and never reads it. When the drop is not
   confirmed, the row still becomes `ended`, the entry is deleted, and the caller
   stays on the route point with neither agent nor bridge, which
   `docs/3CX_ADAPTER_IMPLEMENTATION_SPEC.md:155` forbids; the other paths keep
   such a call in `ending` (`calls_silence`).

## 4. The connector around a call

### The intake: `EventAdapter` and `TenantRuntime`

| Variable | Code |
| --- | --- |
| `leg`, `number`, `link`, `drops` | the PBX: each leg on the route point, its participant number (used again once free), the WebSocket |
| `epoch`, `everConnected`, `accepting`, `listening` | the adapter's fields |
| `queue`, `task` | the promise chain `eventQueue`, and the operation that runs with the await it is in |
| `byCall`, `byId` | `participantByCallId`, `callIdByParticipantId` |
| `served`, `stopping` | what the controller has of each call, abstracted to the outcomes `CallController` gives |
| `broker`, `runtime`, `lease`, `expired`, `armed`, `step` | the broker-bound runtime, the runtime it owns, the lease and its watchdog, the await of `start` or `shutdown` |

`Ring`, `HangsUp`, `Connected` and `Disconnected` are the PBX's; losing the
connection acts at once, everything else waits in the queue (`TakeConnected`,
`TakeJoin`, `TakeEnd`) and is finished after its awaits (`Resolved`, `JoinAnswered`,
`EndAnswered`; `Snapshot`, `Purge`, `AdmitFresh`, `Reconciled` of the
reconciliation). `StartTenant`, `Acquire`, `Connects`, `Drained`, `Disconnect`,
`ReleaseLease` follow `start` and `shutdown`; `Expire` and `Watchdog` the lease.

* `IntakeIsTrue`: with the intake open and every event handled, the controller
  serves nobody who has left and has overlooked nobody who is there, whatever
  was lost with a connection.
* `ServedIsTracked`: a served call is found by both maps, so its end reaches the
  controller, unless another call, gone or still there, was given the same number.
* `LeaseCoversCalls`: the lease is given back only when no call is left, save
  after a failed start whose drain was incomplete.

Two calls can swap a participant number, one call may come and one go while the
connection is down; two lost connections let one strike during the
reconciliation of the other.

### `TenantSupervisor`

State: the broker's configurations (`active`, a fingerprint per tenant), the
runtime objects (`run`), the map (`tenants`), and the reconciliation in progress
with its await (`rec`: the fetched list, who is to be removed, who is due).
`Fetched`, `Remove`, `Removed`, `Adopt`, `Replaced`, `StartSucceeds`,
`RuntimeStartFails`, `Completed` are the parts of `reconcile` between awaits;
`SupervisorShutdown` and `Halted` those of `shutdown`, which may come at any of them.

* `RuntimesAreInHand`: at most one runtime takes calls for a company, and it is
  the one in the map, where a later change or the shutdown finds it; the
  exception is a shutdown that overtakes a reconciliation.
* `ConfigurationIsAdopted` (in `ConnectorSettles`): once nobody edits, the map
  comes to match the configurations.

Two tenants show that one tenant's failing start does not stop the other's;
three runtimes are an old and a new one beside another tenant's; with two edits
a configuration changes while the previous change is being carried out.

**Fairness.** Promises settle and the timer fires (weak); a broker that is asked
again and again answers sometimes and a start tried again and again succeeds in
the end (strong): without that nothing can be adopted.

### `MediaBridge`

State: where `startVerifiedThreeCxLiveKitMediaBridge` is (`start`, `polls`), the
bridge's flags, its tasks (`reader` per track, `pump`, `writer`), what the frame
assembler holds (`pending`), `closing` with its await, the two callbacks
(`report`, `hangup`), and the controller's entry (`call`, `handler`, `held`).
`bound` chooses between a `close` that works on any receiver and the class's own
method, stored as `entry.closeMedia` and called on the entry.

* `EndedCallIsQuiet`: a call is over only when its bridge is closed and no task
  moves audio, if the entry's close reaches the bridge.
* `MediaWindsDown` (in `ConnectorSettles`): a failed bridge or a lost agent ends
  the call, and a close that began ends, although it awaits tasks while the
  call's handler awaits it.
* `media_unbound`: without the condition of `EndedCallIsQuiet` it fails.
  Finding 3: `#startCall` stores `media.close` without its receiver
  (`connector/call-controller.mjs:311`). The first cleanup marks the *entry*
  closed and raises; the second finds it closed and the call is recorded as over
  while the bridge reads, writes and stays in its room, against
  `docs/3CX_ADAPTER_IMPLEMENTATION_SPEC.md:82-86`. The tests inject closes that
  do not read `this`.

Two tracks show a reader that ends while another goes on and the agent's second
track; one poll is one too few or enough; a queue of one frame fills at once;
half frames show what the assembler keeps back.

**Fairness.** LiveKit, the SDK and the broker answer or fail, a cancelled reader
unwinds, and the promise chains run (weak; the entry's lock is first come first
served: strong). Nothing makes the PBX, the agent or the caller act.

## 5. Services and pages

`services` follows one of six parts: `CalendarReads` (1 cached question, 2
writers, 2 writes, 1 fault), `AgentSession` (2 provider incidents), two pages of
`TestingSandbox`, two calls of `LiveKitSession`'s `connect`, and the notices and the card of
`StatusCards` (2 requests in flight, 2 bookings, 2 changes).

**`CalendarReads`.** A calendar is the number of writes made to it, and a cached
answer, a load, a synchronisation and the mirror are the writes they contain.
A writer goes `GoogleWrites`, `InvalidateCompany`, `MarkStale` (or `MarkFails`); a reader
`Miss`, `ReadMirror` or `MirrorUnavailable`, `TakeLock`, `Synchronise`, `ReadLive`, `StoreResult`;
the broker's loop competes for the same lock. A write whose answer is lost
(`AnswerLost`) empties and marks nothing; its caller is told of it by book-status
(`BookStatus`), which does not either, or by a retry that meets Google's 409
(`Repeated`) and goes on like an answered write. `WritesAreSeen`: what is kept
contains every write that was told of, but where the write crossed the read,
its mark failed, or its answer was lost after the read. `MirrorRecovers` (in
`NewsArrive`): a mirror in use is made ready again, whatever failed, expired or died
half way. Two writes tell an old answer
from a half-old one, one fault can hit any step. Fairness: the loop's timer and
the event loop; refusals by Google are not forced to happen.

**`AgentSession`.** `job` is where the entrypoint is, `todo` the tasks the event
handlers leave to the event loop, `lifecycle` what the heartbeat repeats to the
clients. A session may close during its own start (`SessionCloses`), and errors
and recoveries come at any time (`ErrorOrRecovery`). The watchdog and the hang-up
each leave the room once, and what raises then is swallowed (`LeaveFails`).
`EndedAgentIsQuiet`: an agent that is over has ended heartbeat, monitor and connection, and the last state it
told is a final one. `SilenceEndsTheCall` (in `SilenceIsNotKept`): a caller who
stays silent for the time-out does not hold the line, whatever became of the hang-up,
unless the watchdog's own leave raised. Fairness: the event loop,
its timers, and that a room which was left closes its session.

**`TestingSandbox`.** Per page the await `startSession` is in, the room, the
microphone, the timer, the audio and the status shown; `voiceLock` is the Web
Lock. `OneLiveVoice`: no two pages of a browser with locks are live.
`SandboxHoldsWhatItShows`: a page without a session holds nothing, a page that
shows one has it. Both exempt a page left before its room existed.
`SilentAgentIsNoticed`: an agent without heartbeats loses its page. A page is one
mount, so two are two tabs or one tab left and opened again. Fairness: heartbeat
timers fire, awaits are answered except the question for the microphone.

**`LiveKitSession`.** A session is a call of `connect`, guarded by the generation
that is current; `sound` is the gain node, the detector and the barge-in.
`HookIsInHand`: the hook holds the one room that is not closed, and the assistant
is muted only while the user speaks. `DeadAgentEndsTheSession` as above. No page
uses the hook at this commit.

**`StatusCards`.** Each read is a request of its own, read at the backend in one
step and answered in a later one, in any order. `NoticeSettles` (in `NewsArrive`): no
notice waits for a booking that has settled. `CardIsTrue`: with nothing in flight
a card shows the connection as it is. Two reads overtake each other. Fairness:
timers and answers; bookings settle in their own time.

## 6. Clients, and what is kept for them

`clients` follows one of nine parts, for safety only: nothing here is obliged to
happen. None of the modules has fairness. The phone's call is two of the parts and the
workspace is followed as "seen" (below); the theorems are about the unrestricted parts,
"workspace" and "call".

**`SessionToken`** (2 tries, 2 profile versions). `Send` and `NoAnswer` are the
proxy's retry; a try the proxy gave up goes on in the backend: `ResolveProfile`,
`Lock`, `Read`, `Dispatch`, `Insert`, `Commit`, each of which may fail, while
`PublishVersion` changes the profile. `OnlyFailuresLeaveAgents`: an agent in the room
is the recorded one or was left by a try that failed. `TokenNamesTheSession`: a
token names the session on record and its agent's profile.

**`OAuthTokens`** (2 requests, 2 changes of the owner, 2 accounts). Requests share
the company's refresh lock and the cache, the owner's changes take no lock.
Every save and delete may take effect and raise (`SaveConnectionFails`,
`DeleteTokensFails`, `SaveRefreshedFails`): the owner is told of a failure and the cache
is not touched. `TokenIsOfTheLinkedAccount`: what is stored and what is in memory is of
the account of the last connection answered with success, and nothing is after a
disconnection so answered, but where a request crossed the owner's change or a
change that was answered with a failure took effect. A commit whose answer is lost has
taken effect, if it does, by the time the failure is answered.

**`AgentProfiles`** (3 transactions, 3 versions). Statements see what was committed
when they began, wait for row locks and look again, as READ COMMITTED does; a
unique index allows one published version. A commit frees its locks (`CommitPublication`)
and is answered in a later step, with success (`AnswerPublication`) or, its
acknowledgement lost, with an error (`AcknowledgementLost`). `PublishedIsTheChosenOne`:
once all are answered the published version is the one the owner was told of last, or
the one whose publication took effect under an error since, and no other
(`Told`). Three
transactions are a save, a rollback and one that loses the race; the versions
are enough for each to add one.

**`AgentTools`** (2 meetings, 2 confirmations, 2 runs). A question asked again is
answered from its record; a cancellation consumes a confirmation of its own.
`CallersHearTheTruth`: a meeting told to be confirmed is in the calendar, one told
to be cancelled is out of it on a spent confirmation, whatever answers were
lost, except where an old record is replayed. Two runs are one the agent waits
for and one whose answer it lost.

**`Workspace`, `MobileProfile`** (2 stored texts on the web, 3 on the phone). Forms
load, are edited and saved while pages are left and opened again; a text is the
field edited here and the rest. `StoredTextSurvives`: the rest of a text is lost
only to a form saved without having seen what is stored, be it that its load had not
answered or that another form was saved since (nothing compares versions), and
to the phone's `Onboarding`. Two texts would not do on the phone: the one another form
saves between the load of `Settings` and its save is the third. The web forms are followed
(part "seen") until one of them is saved blind: after that the property asks nothing of them.

**`MobileAccount`** (2 checks at a time). `refreshSession` runs at any time beside
signing in, signing out and the set-up's publication. `GateIsTrue`: the set-up is
skipped only for who has it, and who signed out stays out.

**`VoiceCall`** (2 openings of the screen, 2 mute presses in flight, 2 failed starts that
are still cleaned up after). `PhoneHoldsWhatItShows`: a closed screen has no room, no
microphone and no audio session, an open one shows what it has. `MutedIsSilent`: who
reads "muted" is not heard. A mount is one opening of the screen.

* *The attempt.* `flight` is the await `initiateCall` is in, `stale` that the generation is
  a later one, `ref` whose room `roomRef` is. The generation is looked at after the token and
  after the connection only, so an attempt overtaken in between goes on: it starts the
  audio and takes `roomRef` for its room (`older`, `OlderGoesOn`; `astray` if that
  was over the room of the attempt that overtook it).
* *The catch* looks at the generation once (`Caught`), waits for the room (`CatchLeaves`),
  stops the audio, waits for that and shows the error (`CatchShows`), whatever was started
  meanwhile: `drops` and `stops` count the catches at each await. `endCall` has the same two
  awaits (`End`, `RoomLeft`, `Ended`). What any of them does to a later call is marked on that
  call (`overrun`, `Silenced`) until the next one is started. Calls of the native audio session
  take effect in the order they are made.
* *The microphone.* What is shown (`wish`), what the room's microphone does (`mic`), the first
  call to it of a connection (`first`), the presses the room has yet to answer in order
  (`asks`), and those asked of rooms that were left (`lost`), whose refusals arrive at any
  time and are taken for the new room's.

Two openings are the old screen's awaits beside the new screen; two catches are one still
running when the attempt that came over it fails too. `Followed` bounds what a
mount begins: one overtaken attempt at a time, none after its room was lost from sight,
`MaxCaught` catches. The product of all this is too large for one run, so part "voice"
opens both screens but starts none again before its catch is over, and part "retry" has one
screen that does, whose microphone is not pressed; the theorem is about "call", which has neither restriction.

## 7. Proofs

Every invariant the passing runs check is also a theorem, checked by TLAPS for every
value of the constants, and so are the action properties `SettledIsFinal`,
`ClaimIsForLife` and `StoredTextSurvives` and the refinement of `BookingPromise`. Sets of
keys, handlers, workers, connectors, tenants, runtimes, questions, writers, pages, tries, meetings,
runs and the like are any sets, finite or not (the calls of an `EventAdapter` are finitely
many: it lists them), and bounds are any numbers. The assumptions are those the
modules name (`BookingAssumption`, `CallAssumption`, `AdapterAssumption`,
`SupervisorAssumption`, `MediaAssumption`, `ReadsAssumption`, `AgentAssumption`,
`SandboxAssumption`, `LiveKitAssumption`, `CardsAssumption`, `WorkspaceAssumption`,
`TokenAssumption`, `ProfilesAssumption`, `OAuthAssumption`, `ToolsAssumption`,
`ProfileAssumption`, `VoiceAssumption`): that the placeholders for "none" are no members of
the sets, that bounds are numbers, and that slots and faults are of the kinds there are. Where the table says more, that is
a premise of the property or of the theorem.

| Theorem | States | Needs also |
| --- | --- | --- |
| `TypeCorrect` | `TypeOK` | |
| `Truthful` | `TruthfulConfirmation` | |
| `Implements` | `CalendarBooking` implements `BookingPromise` | |
| `PromiseKept` | `PromiseIsQueued` | |
| `OneHandlerPerBooking` | `ExclusiveExecution` | its own premise: no stall, no dberror |
| `OneWorkerPerRequest` | `ExclusiveClaim` | its own premise: no stall, no dberror |
| `SettledStays` | `SettledIsFinal` | its own premise: no stall, no dberror |
| `CallsTypeCorrect` | `CallTypeOK` | |
| `OneAgentPerCall` | `OneDispatch` | |
| `ClaimKept` | `ClaimIsForLife` | |
| `ClosedCallsAreClean` | `ClosedIsClean` | `Reliable`: no answer to a dispatch is lost |
| `NothingEscapes` | `ResourcesAreHeld` | `Reliable` |
| `DrainedConnectorsAreIdle` | `DrainedIsIdle` | `Answered`: the database answers, no answer to a dispatch is lost, nobody dies |
| `RuntimeTypes` | `RuntimeTypeOK` | |
| `ServedCallsAreTracked` | `ServedIsTracked` | |
| `IntakeAgreesWithPbx` | `IntakeIsTrue` | |
| `LeaseOutlivesCalls` | `LeaseCoversCalls` | |
| `InHand` | `RuntimesAreInHand` | |
| `ConnectorTypes` | `ConnectorTypeOK` | |
| `EndedCallsAreQuiet` | `EndedCallIsQuiet` | its own premise: the entry's close reaches the bridge |
| `ServicesTypes` | `ServicesTypeOK` | |
| `ToldWritesAreSeen` | `WritesAreSeen` | |
| `EndedAgentsAreQuiet` | `EndedAgentIsQuiet` | |
| `OneVoice` | `OneLiveVoice` | |
| `SandboxIsTrue` | `SandboxHoldsWhatItShows` | |
| `TrueScreens` | `ScreensAreTrue` | |
| `ClientTypes` | `ClientsTypeOK` | |
| `OneAgentOnRecord` | `OnlyFailuresLeaveAgents` | |
| `TokensAreTrue` | `TokenNamesTheSession` | |
| `CallersAreToldTheTruth` | `CallersHearTheTruth` | |
| `TheOwnerDecides` | `OwnersChoiceIsInForce` | |
| `ThePhoneIsTrue` | `PhoneIsTrue` | |
| `NoFieldIsLost` | `StoredTextSurvives` | |

**Bookings.** `TypeOK` needs `ActorsOK` (an idle process holds nothing, one at
work has a key, a worker about to write has a verdict); together `WellFormed`.
`TruthfulConfirmation` is not inductive, since a "confirmed" is first a local
variable of a handler or worker: `Grounded` adds `TruthfulAnswers` (a local
"confirmed" or "completed" is backed by an event) and `CompletedIsAnnounced`.
The step is proved through `NewlyBacked`, what every action guarantees of
anything it newly claims. `Implements` reuses `Grounded`: each action makes the
event of at most one booking or announces at most one, and never withdraws
either. `QueueInv` adds to `PromiseIsQueued` the moment between queueing and
committing. For the exclusion theorems `LockInv` says that a handler at work
holds a live lock, so that its record is not settled yet, and no two handlers the same
key; `LeaseInv` likewise for leased rows. `SettledIsFinal` follows from both: a handler
writes only a record it holds, and a worker only rows it holds.

**Calls.** Most actions write an entry, so `StepKinds` sorts every step once and
for all into the kinds the invariants tell apart: benign steps, which touch
neither an agent nor a bridge nor a claim, the named steps that do, the end of a
process (`EndStep`), and steps that leave the entries alone. `EntriesOK` is the
invariant of one entry (`EntryOK`): what a controller holding the lock at a given
step knows, for instance that the fallback and the final write come only after
both handles are given up. `WorldTypeOK` types the rest. `DispatchInv` says that a
call not yet claimed has no dispatch and no controller starting it, and that a
call on its way to the dispatch has had none and is on its way in one controller
only. `HeldInv` ties agents and bridges to the handle in the claimant's entry, or,
where the claimant died, says that it has forgotten the call: `ForgottenStays`
proves that nothing it does later touches such a call, so its row is never closed
over an agent that is still running.

`DrainedIsIdle` rests on `DrainInv`: the entry of a tracked call has the row's state,
and at each step of an operation (`Staged`) it is the state that step expects. So every
transition is a legal one and is done (`LegalIsDone`), the hang-up of a drain never
gives up half way, and what the drain still has to do is tracked or closed; a connector that
is draining has no claim on its way. The premise is needed: with the database failing
a transition is refused and the drain answers over a call whose row is open. LiveKit
refusing to stop an agent, the PBX failing, stalls and lost leases are inside the theorem.

**The tenant runtime.** `IntakeIsTrue` speaks of the moment when all is handled, so its
invariant says what is still to come. For a call that left while it is served
(`DeparturesArrive`), and one that is there and overlooked (`ArrivalsArrive`),
either the intake is cut off, or the reconnection of the present epoch is queued and
will reconcile, or the leave or join is queued, or an operation is about it, or the
adapter refuses events until a reconciliation has listed the PBX again.
`EpochsArePast`, `FirstConnectsFirst`, `SnapshotInHand` and `ReconcilingIsClosed` are what
makes these inductive: an old connection's event is recognised by its epoch, and no join
slips in between the snapshot and its end. Queues grow by an announcement of any length;
the lemmas `Enqueued` and `Dequeued` keep positions apart once for all actions.
`LeaseCoversCalls` needs two invariants of the owner: where `start` and `shutdown` are
in each state (`StepsFollowStates`), and that a controller once drained and left without
calls takes none (`DrainedIsSealed`), because it is stopping and no join is in its hands.

**Supervisor and bridge.** That two runtimes of a company never take calls together needs
where each of them is known from: `MapIsConsistent` and `TakingIsMapped` (a runtime
that takes calls is in the map or was started after the shutdown began),
`HaltingIsMapped` and `LateIsNotDue` (what the shutdown waits for, and that a tenant
started late is not started again), `AwaitIsKnown` (what the reconciliation's
await is about); together `SupervisorInv`. The bridge's `MediaInv` says that a close
under way ends one thing after another and nothing it ended starts again
(`ClosedIsUnderWay`, `CloseGoesOn`), and that whoever held the close of a call has waited
for it (`CloseIsHeld`).

**Services and pages.** The five parts of `MCServices` share no variable: a step of the whole is
a step or a stutter of each (`StepsAreOfParts`), so each has an invariant of its own.

- Calendar reads (`ReadsInv`): a load that no write has crossed runs beside no write that
  was answered (`LoadIsClear`), and so has, when it is done, every write that was told of, and
  every one whose answer was lost, since it may be told of at any time (`LoadIsNew`); the
  cache is filled from such loads and emptied before a caller is told (`EntryIsNew`), the
  mirror is marked before he is told (`MirrorIsNew`).
- Agent (`AgentInv`): what a closed session leaves to the event loop is what it still has
  to end: `CloseEndsAll`, and no transition comes after the task that tells the clients
  (`CloseIsTold`).
- Sandbox pages (`PageInv`): the lock follows the room (`LockFollowsRoom`, with the page
  left midway as the one exception), the room follows the await (`RoomFollowsFlight`), and
  the view and the status agree with both (`ViewIsTold`, `StatusIsTold`). A page's step
  leaves the others alone but for the lock, so one lemma (`OnePageSteps`) carries the other
  pages. `OneLiveVoice` follows because a lock has one holder.
- Session hook (`LiveInv`): an open room is the one the hook holds, and the other way
  round (`RoomIsHeld`, `HeldIsOpen`), and its media go with it (`MediaIsHeld`).
- Cards (`CardsInv`): where a card at rest is wrong, the news are under way
  (`NewsAreUnderWay`).

**Clients and what is kept for them.** The parts of `MCClients` share no variable either.

- Web workspace (`WorkInv`): until a form was saved blindly every copy of a stored text (the
  cache, the request, the form, the save on its way) has the rest that is stored
  (`CopiesAreStored`). `NoFieldIsLost` is an action property, from this and `ProfileInv`
  (`SeenIsHad`, the same of the phone's forms).
- Account (`AccountInv`): a check that found the set-up complete read it from an account
  that is only added to (`DoneIsRead`); who is out for good has no session left anywhere
  (`OutIsOut`).
- Voice call (`VoiceInv`): for each opening of the screen, what it is in (`MountOf`), its room
  (`RoomOf`) and what it shows (`ShownOf`), where a call that an older one came over
  (`overrun`) or whose room was lost from sight (`astray`) is told apart; the audio is on for
  the call that needs it (`HasAudio`). `MutedIsSilent` comes from `AsksOf`: the calls
  to the microphone the room has yet to answer alternate, and the last of them is for what is
  shown, so nothing shown as muted is left on when they are answered.
- Session tokens (`TokenInv`): `Progress` says what a try has done by where it is, among it
  the fact that makes the rest inductive: from its read to its commit the row is
  absent, because the lock keeps every other try out.
- OAuth (`OAuthInv`) says who has met whom: all under way beside a change
  of the owner are crossed (`AllAreCrossed`), what is not crossed holds the linked account
  (`UncrossedIsLinked`), the row, unless it is crossed, is of it at every moment
  (`RowIsLinked`), and the cache until a new connection has to be cached (`CacheIsLinked`).
  What a change wrote that was answered with a failure is crossed from the start.
- Profiles (`VersionsInv`): an open transaction still has its target (`HasTarget`: a save's
  new version is kept to it by the advisory lock, and no version goes back to "none"), and
  one publication at a time is past the unique index (`OneIndexed`). Between a commit and its
  answer the published version is the committed one's target or what was told; the
  answer makes it what was told (`TellingKeeps`).
- Tools (`ToolsInv`): a run in hand holds the key of its question, alone (`RunsHoldKeys`), so an
  event is in the calendar exactly when a record or a run says so (`RecordsAreReal`), a
  cancellation spends a confirmation of its own (`StagesAreReal`), and what the caller heard
  is one of these (`HeardIsReal`).

Candidates for these invariants were tried with TLC on small instances before they were
proved. The search for them also corrected the models: `StoredTextSurvives` had held of `Settings` only because two
saves were too few (section 6), and a refusal of a room left earlier had been missing from
`VoiceCall`.

**Only model-checked.** Liveness under fairness (`QueuedBookingSettles`, `LockIsFreed`,
`EndedCallIsClosed`, `ShutdownAnswers`, `ConnectorSettles`, `SilenceIsNotKept`,
`NewsArrive`) is beyond the prover used here, as are ENABLED and induction over
recursively defined data; no module uses a RECURSIVE operator. The violations are
counterexamples and need no proof.

## 8. What is not modelled

* *Booking handler*: capability checks, time zones and the free-slot arithmetic;
  the broker's signed transport and nonces; back-off times, which become "a due
  row may be claimed"; the worker's start-up checks.
* *Broker*: that `freeBusy` and `insert` are two calls
  (`credential_broker/main.py:313`) with nothing to serialise brokers: what Google
  does with two bookings of an interval at once is Google's. The endpoint that
  forces a full synchronisation, and the cache's size limit.
* *Settings*: the company profile's table, compiled policies, read-only endpoints;
  integration limits and preferences, each a single conditional statement.
* *Voice agent*: the turn gate, languages, transcripts, fillers and the schedule
  of provider reconnections, which shape speech and not state that others see.
* *Controller*: validation of events and bindings, `#bestEffortFailure`, states no
  code enters. *Supervisor*: `run-supervisor.mjs`, which only wires it.
* *Media*: the resampler's arithmetic. *Pages*: transcripts, meters, muting on the web,
  the speaker switch and interrupt on the phone, and screens that only show what the
  server answers. *Unused code*: the Gemini Live hook and its client tools.
* *Operations*: migrations, deployment and schema scripts, run once by an
  operator; the tables' constraints are part of the models that use them.

## 9. Observations

What the models show beyond the three findings. Where a property has an
exception, its name in the model is given.

*Bookings and calls.* `release_idempotency_lock` is documented for tool calls that
fail "without causing state side-effects" (`db/idempotency.py:138`), but `execute_tool`
also calls it when the commit raises after the event was created. It also calls it twice for a
conflict whose first release raised (`tools.py:368`, :408), and the second frees the
lock of whoever took the key since. The bridge
catches what `onFailure` rejects with and not what `onHangup` does
(`threecx-livekit-media-bridge.mjs:105`), so a database error during the agent's
hang-up ends the process, and calls it had active are tracked by nobody.

*Connector.* A lease that expires shuts its runtime down, but the supervisor keeps the entry
and does not start it again until the configuration changes. A broker-bound start that
fails with an incomplete drain gives its lease back and drops the runtime
(`abandoned`). A failed reconciliation of the adapter leaves the intake closed until the next
reconnection, and a join queued for a caller who left may meet the next user of
the participant number (`Reused`). A shutdown during a reconciliation does not
stop it from starting tenants (`raced`). `run-supervisor.mjs` hands the runtime an
object for `tenantRef`, where a string is required, and calls a `stop()` the
supervisor does not have. An agent that leaves before the bridge listens is never noticed (`missed`).

*Sessions.* The dispatch is made inside the transaction (`db/livekit_sessions.py:69`): a
try that fails after it leaves an agent, and the retry dispatches another, against
*"creating it exactly once"* (:25). A publication between a try and its retry makes
the retry answer 409. Leaving the sandbox page while it connects leaves a
hidden live room (`midway`). A heartbeat that runs out while the hook reconnects is never
armed again (`unwatched`).

*Voice agent and tools.* The signed context is refused 300 s after the dispatch, so
every tool call later in a call fails. User activity is final transcripts only, so
an agent's long answer counts as silence. The watchdog tries to leave once and swallows what
that raises (`agent.py:1455`), so a silent room is then kept, although *"the assistant
automatically gives a parting message and disconnects the call"*
(`DYNAMIC_3CX_AND_CALL_HANGUP.md:24`). A session that closes during its start
is announced as ready all the same (`overtaken`). A spent confirmation is not given
back when the tool fails, so the same question again is refused; and booking again, after a
cancellation, what was booked before replays the old confirmation (`replayed`).

*Calendar and tokens.* The cache is emptied before the mirror is marked stale, so a
read in between keeps the old mirror, and a mark that fails is only logged. A write whose
answer from Google is lost (`google_calendar.py:898`) empties and marks nothing, and
book-status, which then tells of it, does not either: until they age, cache and mirror
contradict it. A connection or disconnection that commits and raises is answered 502: the new
account's row then stands beside the old account's cached token
(`credential_broker/main.py:357-376`). Mirror rows
outlive the connection of another Google account. A refresh that crosses a
disconnection stores the tokens again (`crossed`).

*Profiles.* The publish endpoint wants a state nothing stores and always refuses.
The loser of a race of publications gets a 500 and its save is lost; a publication whose
commit is not acknowledged gets a 500 as well and answers the callers all the same (`unsaid`).
`save_agent_profile_version` (`db/agent_profiles.py:24`) refers to an undefined name.

*Web app.* A form saved before its load answered erases what was stored (`blind`), and a
load that answers late overwrites what was typed. A failed refresh stops the
notices' polling for good; overtaken answers show an old status (`late`).

*Mobile app.* A start left during its audio await leaves the native audio session
on (`stray`). A failed start, or a screen that was left and opened again at once, is
cleaned up after in steps that look at the generation no more: they stop the audio of the
call started meanwhile or show an error over it (`overrun`). An attempt overtaken while
the audio starts puts its room into `roomRef`, over the newer call's, whose live room and
microphone nobody can reach then (`astray`); and while that dead room is in `roomRef`, "Try
again" does nothing. A mute refused while a later one is on its way, or by a room that was
left once the next one is live, leaves "muted" over a live microphone (`crossed`).
`Settings` sends every field it loaded, so what the web app saved since is erased. There is no heartbeat: "waiting for
agent" may last for ever. `sign-in.tsx:13` reads `hasCompletedSetup` before the
refresh, so it always leads to the set-up. `Onboarding` overwrites the parts of the
assistant it does not show.

## 10. Running it

```
tlc -workers 2 -config booking_stale.cfg MCBooking.tla
tlc -workers 2 -config connector.cfg MCConnector.tla
tlapm ConnectorProofs.tla
```

`booking_*` belong to `MCBooking`, `calls_*` to `MCCalls`, `pbx_intake` to `MCRuntime`,
`connector` and `media_unbound` to `MCConnector`, `services` to `MCServices`, `clients` to
`MCClients`. The largest runs take one to four minutes; each proof module takes up
to a few minutes. Deadlock is allowed where a system really comes to rest: a drained
connector, a page that was left, or a bound of the model that is used up.
