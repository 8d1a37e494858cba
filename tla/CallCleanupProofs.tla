--------------------------- MODULE CallCleanupProofs ---------------------------
(***************************************************************************)
(* The agents and bridges of calls: while dispatches are answered, none    *)
(* escapes its call but by the death of its connector; and a connector     *)
(* that has drained is left with none.                                     *)
(***************************************************************************)
EXTENDS CallProofs

-----------------------------------------------------------------------------
(***************************************************************************)
(* What runs for a call is held by its claimant, and gone when the call is *)
(* closed, as long as no dispatch is lost.  Where the claimant died, it    *)
(* has forgotten the call for good: nothing it does later touches the row  *)
(* or the agent that is left.                                              *)
(***************************************************************************)
Reliable == "lost" \notin Faults

Forgotten(k, c) == entry[k][c] = NoEntry /\ c \notin todo[k]

AgentsHeld ==
    \A k \in Connectors, c \in Calls : <<k, c>> \in agents =>
        \/ entry[k][c].tracked /\ entry[k][c].agent
        \/ k \in died /\ Forgotten(k, c)

BridgesHeld ==
    \A k \in Connectors, c \in Calls :
        <<k, c>> \in bridges => entry[k][c].tracked /\ entry[k][c].media

HeldInv == /\ AgentsHeld
           /\ BridgesHeld
           /\ ClosedIsClean
           /\ \A k \in Connectors, c \in Calls :
                 /\ <<k, c>> \in agents \cup bridges => row[c].owner = k
                 /\ entry[k][c].pc \in Starting =>
                       row[c].owner = k /\ row[c].state \notin Terminal

Uses(k, c) == <<k, c>> \in agents \cup bridges

(***************************************************************************)
(* A call that a connector has forgotten stays forgotten: nothing asks it  *)
(* for an operation on the call, and the claim is not to be had again.     *)
(***************************************************************************)
LEMMA StepTouches ==
    ASSUME NEW k \in Connectors, NEW c \in Calls, Step(k, c)
    PROVE  /\ entry[k][c].pc # "idle"
           /\ ProcessEnds(k) \/ \E e : Put(k, c, e)
           /\ todo' \in {todo, [todo EXCEPT ![k] = {}]}
           /\ died \subseteq died'
<1> USE DEF controller, outside, Goto, Finish
<1>1. CASE Connect(k, c)
  BY <1>1 DEF Connect
<1>2. CASE Dispatch(k, c) \/ Attach(k, c)
  BY <1>2 DEF Dispatch, Attach
<1>3. CASE Activate(k, c) \/ Renew(k, c)
  BY <1>3 DEF Activate, Renew
<1>4. CASE CloseMedia(k, c) \/ StopAgent(k, c)
  BY <1>4 DEF CloseMedia, StopAgent
<1>5. CASE Fallback(k, c)
  BY <1>5 DEF Fallback
<1>6. CASE MarkEnding(k, c)
  <2>1. \E answer, e : Proceed(k, c, answer, e)
    BY <1>6 DEF MarkEnding
  <2>. QED
    BY <1>6, <2>1 DEF MarkEnding, Proceed, ProcessEnds
<1>7. CASE Finalise(k, c)
  <2>1. \E answer, e : Proceed(k, c, answer, e)
    BY <1>7 DEF Finalise
  <2>. QED
    BY <1>7, <2>1 DEF Finalise, Proceed, ProcessEnds
<1>. QED
  BY <1>1, <1>2, <1>3, <1>4, <1>5, <1>6, <1>7 DEF Step

LEMMA ForgottenStays ==
    ASSUME WorldTypeOK, EntriesOK, [Next]_vars,
           NEW k \in Connectors, NEW c \in Calls,
           Forgotten(k, c), row[c].state # "absent"
    PROVE  Forgotten(k, c)'
<1>1. /\ entry[k][c] = NoEntry /\ c \notin todo[k]
      /\ entry[k][c].op = "none" /\ entry[k][c].pc = "idle"
      /\ entry[k][c].waiting = {}
      /\ ~entry[k][c].tracked /\ ~entry[k][c].timer
  BY DEF Forgotten, NoEntry
<1>2. ASSUME NEW j \in Connectors, ProcessEnds(j)
      PROVE  Forgotten(k, c)'
  BY <1>1, <1>2 DEF ProcessEnds, Forgotten, EntriesOK, WorldTypeOK
<1>3. ASSUME NEW j \in Connectors, NEW d \in Calls, j # k \/ d # c,
             NEW e, Put(j, d, e),
             \A i \in Connectors : todo'[i] \subseteq todo[i]
      PROVE  Forgotten(k, c)'
  BY <1>1, <1>3, PutOne DEF Forgotten
<1>4. ASSUME NEW j \in Connectors, NEW d \in Calls, Step(j, d)
      PROVE  Forgotten(k, c)'
  <2>1. j # k \/ d # c
    BY <1>1, <1>4, StepTouches
  <2>2. \A i \in Connectors : todo'[i] \subseteq todo[i]
    BY <1>4, StepTouches DEF WorldTypeOK
  <2>. QED
    BY <1>2, <1>3, <1>4, <2>1, <2>2, StepTouches
<1>5. ASSUME NEW j \in Connectors, NEW d \in Calls, Claim(j, d)
      PROVE  Forgotten(k, c)'
  <2>1. UNCHANGED todo
    BY <1>5 DEF Claim
  <2>2. UNCHANGED entry \/ (row[d].state = "absent" /\ \E e : Put(j, d, e))
    BY <1>5 DEF Claim
  <2>3. CASE UNCHANGED entry
    BY <1>1, <2>1, <2>3 DEF Forgotten
  <2>. QED
    BY <1>3, <2>1, <2>2, <2>3
<1>6. ASSUME NEW j \in Connectors, NEW d \in Calls, NEW o \in Ops,
             \/ TimerFires(j, d) \/ EndCall(j, d) \/ DrainNext(j, d)
             \/ Begin(j, d, o) \/ BridgeCalls(j, d, o)
      PROVE  Forgotten(k, c)'
  <2>1. j # k \/ d # c
    BY <1>1, <1>6 DEF TimerFires, EndCall, DrainNext, Begin, BridgeCalls
  <2>2. \E e : Put(j, d, e)
    BY <1>6, TimerBenign, EndCallBenign, BeginBenign, RequestBenign
       DEF Benign, DrainNext, BridgeCalls, Ops
  <2>3. \A i \in Connectors : todo'[i] \subseteq todo[i]
    BY <1>6 DEF TimerFires, EndCall, DrainNext, Begin, BridgeCalls, controller,
                WorldTypeOK
  <2>. QED
    BY <1>3, <2>1, <2>2, <2>3
<1>7. ASSUME NEW j \in Connectors, StartDraining(j)
      PROVE  Forgotten(k, c)'
  BY <1>1, <1>7 DEF StartDraining, Forgotten, WorldTypeOK
<1>8. ASSUME \/ \E j \in Connectors, d \in Calls : Join(j, d)
             \/ \E j \in Connectors : Shutdown(j) \/ DrainEnd(j)
             \/ \E d \in Calls : Arrive(d) \/ Leave(d) \/ LeaseExpire(d)
             \/ UNCHANGED vars
      PROVE  Forgotten(k, c)'
  <2>1. UNCHANGED <<entry, todo>>
    BY <1>8 DEF Join, Shutdown, DrainEnd, Arrive, Leave, LeaseExpire, vars,
                controller
  <2>. QED
    BY <1>1, <2>1 DEF Forgotten
<1>9. ASSUME NEW j \in Connectors, Crash(j)
      PROVE  Forgotten(k, c)'
  BY <1>2, <1>9 DEF Crash
<1>10. "renew" \in Ops
  BY DEF Ops
<1>. QED
  BY <1>4, <1>5, <1>6, <1>7, <1>8, <1>9, <1>10 DEF Next

LEMMA DiedStays ==
    ASSUME [Next]_vars
    PROVE  died \subseteq died'
<1>1. ASSUME NEW k \in Connectors, NEW c \in Calls, Step(k, c)
      PROVE  died \subseteq died'
  BY <1>1, StepTouches
<1>2. ASSUME NEW k \in Connectors, NEW c \in Calls,
             \/ Join(k, c) \/ Claim(k, c) \/ TimerFires(k, c)
             \/ EndCall(k, c) \/ DrainNext(k, c)
             \/ \E o \in Ops : Begin(k, c, o) \/ BridgeCalls(k, c, o)
      PROVE  died \subseteq died'
  BY <1>2 DEF Join, Claim, TimerFires, EndCall, DrainNext, Begin, BridgeCalls
<1>3. ASSUME \/ \E k \in Connectors : \/ Shutdown(k) \/ StartDraining(k)
                                      \/ DrainEnd(k) \/ Crash(k)
             \/ \E c \in Calls : Arrive(c) \/ Leave(c) \/ LeaseExpire(c)
             \/ UNCHANGED vars
      PROVE  died \subseteq died'
  BY <1>3 DEF Shutdown, StartDraining, DrainEnd, Crash, ProcessEnds, Arrive,
              Leave, LeaseExpire, vars
<1>. QED
  BY <1>1, <1>2, <1>3 DEF Next

\* An agent whose connector died keeps what HeldInv says of it.
LEMMA ForgottenAgent ==
    ASSUME WorldTypeOK, EntriesOK, DispatchInv, HeldInv, [Next]_vars,
           NEW k \in Connectors, NEW c \in Calls,
           <<k, c>> \in agents, k \in died, Forgotten(k, c)
    PROVE  k \in died' /\ Forgotten(k, c)'
<1>1. row[c].state # "absent"
  BY CallAssumption DEF HeldInv, DispatchInv, Unclaimed
<1>. QED
  BY <1>1, ForgottenStays, DiedStays

LEMMA HeldFrame ==
    ASSUME EntriesOK, HeldInv, NEW k \in Connectors, NEW c \in Calls,
           NEW e, Put(k, c, e),
           \A x : x # <<k, c>> => /\ x \in agents' => x \in agents
                                  /\ x \in bridges' => x \in bridges,
           \A j \in Connectors, d \in Calls :
               <<j, d>> \in agents /\ j \in died /\ Forgotten(j, d) =>
                   j \in died' /\ Forgotten(j, d)',
           <<k, c>> \in agents' => \/ e.tracked /\ e.agent
                                   \/ k \in died' /\ Forgotten(k, c)',
           <<k, c>> \in bridges' => e.tracked /\ e.media,
           Uses(k, c)' => row[c].owner = k,
           \A d \in Calls : d # c => row'[d] = row[d],
           row'[c].owner = row[c].owner,
           row'[c].state # row[c].state => row[c].owner = k,
           row'[c].state \in Terminal => ~Uses(k, c)',
           e.pc \in Starting =>
               row'[c].owner = k /\ row'[c].state \notin Terminal
    PROVE  HeldInv'
<1>1. \A j \in Connectors, d \in Calls :
         j # k \/ d # c => /\ entry'[j][d] = entry[j][d]
                           /\ <<j, d>> \in agents' => <<j, d>> \in agents
                           /\ <<j, d>> \in bridges' => <<j, d>> \in bridges
  BY PutOne
<1>2. entry'[k][c] = e
  BY PutOne
<1>3. AgentsHeld' /\ BridgesHeld'
  BY <1>1, <1>2 DEF HeldInv, AgentsHeld, BridgesHeld
<1>4. \A j \in Connectors, d \in Calls :
         <<j, d>> \in (agents \cup bridges)' => row'[d].owner = j
  BY <1>1 DEF HeldInv, Uses
<1>5. \A j \in Connectors, d \in Calls :
         entry'[j][d].pc \in Starting =>
            row'[d].owner = j /\ row'[d].state \notin Terminal
  <2>1. ASSUME NEW j \in Connectors, NEW d \in Calls, j # k \/ d # c,
               entry'[j][d].pc \in Starting
        PROVE  row'[d].owner = j /\ row'[d].state \notin Terminal
    <3>1. row[d].owner = j /\ row[d].state \notin Terminal
      BY <1>1, <2>1 DEF HeldInv
    <3>2. CASE d = c
      BY <2>1, <3>1, <3>2
    <3>. QED
      BY <3>1, <3>2
  <2>. QED
    BY <1>2, <2>1
<1>6. ClosedIsClean'
  <2>1. ASSUME NEW d \in Calls, row'[d].state \in Terminal, NEW j \in Connectors,
               <<j, d>> \in (agents \cup bridges)'
        PROVE  FALSE
    <3>1. j # k \/ d # c
      BY <2>1 DEF Uses
    <3>2. <<j, d>> \in agents \cup bridges
      BY <1>1, <2>1, <3>1
    <3>3. row[d].owner = j /\ row[d].state \notin Terminal
      BY <2>1, <3>2 DEF HeldInv, ClosedIsClean
    <3>. QED
      BY <2>1, <3>1, <3>3
  <2>. QED
    BY <2>1 DEF ClosedIsClean
<1>. QED
  BY <1>3, <1>4, <1>5, <1>6 DEF HeldInv

LEMMA HeldIdle ==
    ASSUME WorldTypeOK, EntriesOK, DispatchInv, HeldInv, [Next]_vars, IdleStep
    PROVE  HeldInv'
<1>1. \A d \in Calls : /\ row'[d].state = row[d].state
                       /\ row'[d].owner = row[d].owner
  BY DEF IdleStep, WorldTypeOK, Row
<1>2. AgentsHeld'
  BY ForgottenAgent DEF IdleStep, HeldInv, AgentsHeld
<1>. QED
  BY <1>1, <1>2 DEF IdleStep, HeldInv, BridgesHeld, ClosedIsClean

LEMMA HeldBenign ==
    ASSUME WorldTypeOK, EntriesOK, DispatchInv, HeldInv, [Next]_vars,
           NEW k \in Connectors, NEW c \in Calls, NEW e, BenignStep(k, c, e)
    PROVE  HeldInv'
<1>1. Put(k, c, e) /\ agents' = agents /\ bridges' = bridges
  BY DEF BenignStep, Benign
<1>2. /\ <<k, c>> \in agents' => \/ e.tracked /\ e.agent
                                 \/ k \in died' /\ Forgotten(k, c)'
      /\ <<k, c>> \in bridges' => e.tracked /\ e.media
      /\ Uses(k, c)' => row[c].owner = k
  BY <1>1, ForgottenAgent
     DEF BenignStep, Benign, HeldInv, AgentsHeld, BridgesHeld, Uses
<1>3. \/ row' = row
      \/ /\ row[c].owner = k
         /\ \E to \in {"ending", "active"} : row' = Moved(c, to)
  BY DEF BenignStep, Owns
<1>4. /\ \A d \in Calls : d # c => row'[d] = row[d]
      /\ row'[c].owner = row[c].owner
      /\ row'[c].state # row[c].state => row[c].owner = k
      /\ row'[c].state \in Terminal => row' = row
  BY <1>3, MovedFrame DEF RowStates, Terminal
<1>5. row'[c].state \in Terminal => ~Uses(k, c)'
  BY <1>1, <1>4 DEF HeldInv, ClosedIsClean, Uses
<1>6. e.pc \in Starting => row'[c].owner = k /\ row'[c].state \notin Terminal
  <2>1. e.pc \in Starting => entry[k][c].pc \in Starting
    BY DEF BenignStep, Benign
  <2>. QED
    BY <1>4, <2>1 DEF HeldInv
<1>. QED
  BY <1>1, <1>2, <1>4, <1>5, <1>6, HeldFrame, ForgottenAgent

LEMMA HeldClaim ==
    ASSUME WorldTypeOK, EntriesOK, DispatchInv, HeldInv, [Next]_vars,
           NEW k \in Connectors, NEW c \in Calls, Claim(k, c)
    PROVE  HeldInv'
<1>1. UNCHANGED <<agents, bridges, todo, died>>
  BY DEF Claim
<1>2. ASSUME row[c].state = "absent"
      PROVE  \A j \in Connectors : /\ <<j, c>> \notin agents \cup bridges
                                   /\ entry[j][c].pc \notin Starting
  BY <1>2, CallAssumption DEF DispatchInv, Unclaimed, HeldInv
<1>3. ASSUME row' = ClaimedBy(k, c)
      PROVE  /\ \A d \in Calls : d # c => row'[d] = row[d]
             /\ row'[c].owner = k /\ row'[c].state \notin Terminal
  BY <1>3 DEF ClaimedBy, WorldTypeOK, Terminal
<1>4. CASE UNCHANGED entry
  <2>1. row' = row \/ (row[c].state = "absent" /\ row' = ClaimedBy(k, c))
    BY DEF Claim
  <2>2. CASE row' = row
    BY <1>1, <1>4, <2>2
       DEF HeldInv, AgentsHeld, BridgesHeld, ClosedIsClean, Forgotten
  <2>3. CASE row[c].state = "absent" /\ row' = ClaimedBy(k, c)
    <3>1. AgentsHeld' /\ BridgesHeld'
      BY <1>1, <1>4 DEF HeldInv, AgentsHeld, BridgesHeld, Forgotten
    <3>2. ClosedIsClean'
      BY <1>1, <1>2, <1>3, <2>3 DEF HeldInv, ClosedIsClean
    <3>. QED
      BY <1>1, <1>2, <1>3, <1>4, <2>3, <3>1, <3>2 DEF HeldInv
  <2>. QED
    BY <2>1, <2>2, <2>3
<1>5. ASSUME row[c].state = "absent", row' = ClaimedBy(k, c), NEW e, Put(k, c, e)
      PROVE  HeldInv'
  <2>1. /\ \A j \in Connectors : j # k => entry'[j][c] = entry[j][c]
        /\ \A j \in Connectors, d \in Calls : d # c => entry'[j][d] = entry[j][d]
    BY <1>5, PutOne
  <2>2. AgentsHeld' /\ BridgesHeld'
    <3>1. ASSUME NEW j \in Connectors, NEW d \in Calls,
                 <<j, d>> \in agents \cup bridges
          PROVE  entry'[j][d] = entry[j][d]
      BY <1>2, <1>5, <2>1, <3>1
    <3>2. ASSUME NEW j \in Connectors, NEW d \in Calls
          PROVE  /\ <<j, d>> \in agents =>
                       \/ entry'[j][d].tracked /\ entry'[j][d].agent
                       \/ j \in died' /\ Forgotten(j, d)'
                 /\ <<j, d>> \in bridges =>
                       entry'[j][d].tracked /\ entry'[j][d].media
      BY <1>1, <3>1, <3>2 DEF HeldInv, AgentsHeld, BridgesHeld, Forgotten
    <3>. QED
      BY <1>1, <3>2 DEF AgentsHeld, BridgesHeld
  <2>3. ClosedIsClean'
    BY <1>1, <1>2, <1>3, <1>5 DEF HeldInv, ClosedIsClean
  <2>4. \A j \in Connectors, d \in Calls :
           /\ <<j, d>> \in agents' \cup bridges' => row'[d].owner = j
           /\ entry'[j][d].pc \in Starting =>
                 row'[d].owner = j /\ row'[d].state \notin Terminal
    <3>1. ASSUME NEW j \in Connectors, NEW d \in Calls, d = c
          PROVE  /\ <<j, d>> \notin agents' \cup bridges'
                 /\ entry'[j][d].pc \in Starting => j = k
      BY <1>1, <1>2, <1>5, <2>1, <3>1
    <3>2. ASSUME NEW j \in Connectors, NEW d \in Calls, d # c
          PROVE  entry'[j][d] = entry[j][d] /\ row'[d] = row[d]
      BY <1>3, <1>5, <2>1, <3>2
    <3>3. ASSUME NEW j \in Connectors, NEW d \in Calls
          PROVE  /\ <<j, d>> \in agents' \cup bridges' => row'[d].owner = j
                 /\ entry'[j][d].pc \in Starting =>
                       row'[d].owner = j /\ row'[d].state \notin Terminal
      <4>1. CASE d = c
        BY <1>3, <1>5, <3>1, <4>1
      <4>2. CASE d # c
        BY <1>1, <3>2, <4>2 DEF HeldInv
      <4>. QED
        BY <4>1, <4>2
    <3>. QED
      BY <3>3
  <2>. QED
    BY <2>2, <2>3, <2>4 DEF HeldInv
<1>. QED
  BY <1>4, <1>5, ClaimEffect

LEMMA HeldConnect ==
    ASSUME WorldTypeOK, EntriesOK, DispatchInv, HeldInv, [Next]_vars,
           NEW k \in Connectors, NEW c \in Calls, Connect(k, c)
    PROVE  HeldInv'
<1>1. PICK answer \in Answers, e \in SoundEntry :
        /\ Transition(k, c, "connecting", answer)
        /\ Put(k, c, e)
        /\ e.pc \in {"dispatch", "idle", "media"}
        /\ e.pc = "dispatch" => answer = "done"
  BY ConnectEffect
<1>2. entry[k][c].pc = "connecting" /\ agents' = agents /\ bridges' = bridges
  BY DEF Connect
<1>3. ~Uses(k, c)
  <2>1. Bare(entry[k][c])
    BY <1>2 DEF EntriesOK, SoundEntry, EntryOK
  <2>. QED
    BY <1>2, <2>1 DEF Bare, HeldInv, AgentsHeld, BridgesHeld, Uses, Forgotten, NoEntry
<1>4. row[c].owner = k /\ row[c].state \notin Terminal
  BY <1>2 DEF HeldInv, Starting
<1>5. row' = row \/ row' = Moved(c, "connecting")
  BY <1>1, TransitionEffect
<1>6. /\ \A d \in Calls : d # c => row'[d] = row[d]
      /\ row'[c].owner = k /\ row'[c].state \notin Terminal
  BY <1>4, <1>5, MovedFrame DEF RowStates, Terminal
<1>. QED
  BY <1>1, <1>2, <1>3, <1>4, <1>6, HeldFrame, ForgottenAgent DEF Uses

LEMMA HeldDispatch ==
    ASSUME WorldTypeOK, EntriesOK, DispatchInv, HeldInv, [Next]_vars, Reliable,
           NEW k \in Connectors, NEW c \in Calls, Dispatch(k, c)
    PROVE  HeldInv'
<1>1. PICK e \in SoundEntry :
        /\ Put(k, c, e)
        /\ e.tracked /\ e.media = entry[k][c].media
        /\ \/ agents' = agents \cup {<<k, c>>} /\ e.agent
           \/ agents' = agents /\ e.agent = entry[k][c].agent
  BY DispatchEffect DEF Reliable
<1>2. entry[k][c].pc = "dispatch" /\ row' = row /\ bridges' = bridges
  BY DEF Dispatch
<1>3. row[c].owner = k /\ row[c].state \notin Terminal
  BY <1>2 DEF HeldInv, Starting
<1>4. /\ <<k, c>> \in agents' => e.agent
      /\ <<k, c>> \in bridges' => e.media
  BY <1>1, <1>2 DEF HeldInv, AgentsHeld, BridgesHeld, Forgotten, NoEntry
<1>. QED
  BY <1>1, <1>2, <1>3, <1>4, HeldFrame, ForgottenAgent

LEMMA HeldAttach ==
    ASSUME WorldTypeOK, EntriesOK, DispatchInv, HeldInv, [Next]_vars,
           NEW k \in Connectors, NEW c \in Calls, Attach(k, c)
    PROVE  HeldInv'
<1>1. PICK e \in SoundEntry :
        /\ Put(k, c, e)
        /\ e.tracked /\ e.agent = entry[k][c].agent
        /\ \/ bridges' = bridges \cup {<<k, c>>} /\ e.media
           \/ bridges' = bridges /\ e.media = entry[k][c].media
  BY AttachEffect
<1>2. entry[k][c].pc = "attach" /\ row' = row /\ agents' = agents
  BY DEF Attach
<1>3. row[c].owner = k /\ row[c].state \notin Terminal
  BY <1>2 DEF HeldInv, Starting
<1>4. /\ <<k, c>> \in agents' => e.agent
      /\ <<k, c>> \in bridges' => e.media
  BY <1>1, <1>2 DEF HeldInv, AgentsHeld, BridgesHeld, Forgotten, NoEntry
<1>. QED
  BY <1>1, <1>2, <1>3, <1>4, HeldFrame, ForgottenAgent

LEMMA HeldCloseMedia ==
    ASSUME WorldTypeOK, EntriesOK, DispatchInv, HeldInv, [Next]_vars,
           NEW k \in Connectors, NEW c \in Calls, CloseMedia(k, c)
    PROVE  HeldInv'
<1>1. PICK e \in SoundEntry :
        /\ Put(k, c, e)
        /\ e.tracked = entry[k][c].tracked
        /\ e.agent = entry[k][c].agent
        /\ e.pc = "agent"
        /\ bridges' \subseteq bridges
        /\ \/ e.media = entry[k][c].media
           \/ bridges' = bridges \ {<<k, c>>}
  BY CloseMediaEffect
<1>2. row' = row /\ agents' = agents /\ entry[k][c].pc = "media"
  BY DEF CloseMedia
<1>3. /\ <<k, c>> \in agents' => e.tracked /\ e.agent
      /\ <<k, c>> \in bridges' => e.tracked /\ e.media
      /\ Uses(k, c)' => Uses(k, c)
  BY <1>1, <1>2 DEF HeldInv, AgentsHeld, BridgesHeld, Forgotten, NoEntry, Uses
<1>4. /\ Uses(k, c) => row[c].owner = k
      /\ row[c].state \in Terminal => ~Uses(k, c)
  BY DEF HeldInv, ClosedIsClean, Uses
<1>. QED
  BY <1>1, <1>2, <1>3, <1>4, HeldFrame, ForgottenAgent DEF Starting

LEMMA HeldStopAgent ==
    ASSUME WorldTypeOK, EntriesOK, DispatchInv, HeldInv, [Next]_vars,
           NEW k \in Connectors, NEW c \in Calls, StopAgent(k, c)
    PROVE  HeldInv'
<1>1. PICK e \in SoundEntry :
        /\ Put(k, c, e)
        /\ e.tracked = entry[k][c].tracked
        /\ e.media = entry[k][c].media
        /\ e.pc \notin Starting
        /\ agents' \subseteq agents
        /\ \/ e.agent = entry[k][c].agent
           \/ agents' = agents \ {<<k, c>>}
  BY StopAgentEffect
<1>2. row' = row /\ bridges' = bridges /\ entry[k][c].pc = "agent"
  BY DEF StopAgent
<1>3. /\ <<k, c>> \in agents' => e.tracked /\ e.agent
      /\ <<k, c>> \in bridges' => e.tracked /\ e.media
      /\ Uses(k, c)' => Uses(k, c)
  BY <1>1, <1>2 DEF HeldInv, AgentsHeld, BridgesHeld, Forgotten, NoEntry, Uses
<1>4. /\ Uses(k, c) => row[c].owner = k
      /\ row[c].state \in Terminal => ~Uses(k, c)
  BY DEF HeldInv, ClosedIsClean, Uses
<1>. QED
  BY <1>1, <1>2, <1>3, <1>4, HeldFrame, ForgottenAgent

LEMMA FinalUsesNothing ==
    ASSUME HeldInv, NEW k \in Connectors, NEW c \in Calls,
           Bare(entry[k][c]), entry[k][c].pc = "final"
    PROVE  ~Uses(k, c)
BY DEF Bare, HeldInv, AgentsHeld, BridgesHeld, Forgotten, NoEntry, Uses

\* Only here is a call closed, and only by its owner with both handles gone.
LEMMA HeldFinalise ==
    ASSUME WorldTypeOK, EntriesOK, DispatchInv, HeldInv, [Next]_vars,
           NEW k \in Connectors, NEW c \in Calls, Finalise(k, c), ~ProcessEnds(k)
    PROVE  HeldInv'
<1>1. PICK e \in SoundEntry : Put(k, c, e) /\ e.pc \notin Starting
  BY FinaliseEffect
<1>2. agents' = agents /\ bridges' = bridges
  BY FinaliseEffect DEF Finalise
<1>3. ~Uses(k, c) /\ ~Uses(k, c)'
  BY <1>2, FinalUsesNothing, FinaliseEffect DEF Uses
<1>4. LastState(entry[k][c].op) \in RowStates
  BY DEF LastState, RowStates
<1>5. \/ row' = row
      \/ row[c].owner = k /\ row' = Moved(c, LastState(entry[k][c].op))
  BY FinaliseEffect, TransitionEffect DEF Owns
<1>6. /\ \A d \in Calls : d # c => row'[d] = row[d]
      /\ row'[c].owner = row[c].owner
      /\ row'[c].state # row[c].state => row[c].owner = k
  BY <1>4, <1>5, MovedFrame
<1>. QED
  BY <1>1, <1>2, <1>3, <1>6, HeldFrame, ForgottenAgent DEF Uses

\* The agents of a connector whose process ends are forgotten, those of the
\* others are untouched.
LEMMA HeldEnd ==
    ASSUME WorldTypeOK, EntriesOK, DispatchInv, HeldInv, [Next]_vars,
           NEW k \in Connectors, EndStep(k)
    PROVE  HeldInv'
<1>1. /\ agents' = agents
      /\ bridges' = {b \in bridges : b[1] # k}
      /\ k \in died'
      /\ \A d \in Calls : entry'[k][d] = NoEntry /\ d \notin todo'[k]
      /\ \A j \in Connectors, d \in Calls : j # k => entry'[j][d] = entry[j][d]
  BY DEF EndStep, ProcessEnds, EntriesOK, WorldTypeOK
<1>2. AgentsHeld'
  BY <1>1, ForgottenAgent DEF HeldInv, AgentsHeld, Forgotten
<1>3. BridgesHeld'
  BY <1>1 DEF HeldInv, BridgesHeld
<1>4. \A d \in Calls :
         /\ row'[d].owner = row[d].owner
         /\ row'[d].state # row[d].state =>
               /\ row[d].owner = k
               /\ row'[d].state \in Terminal => ~Uses(k, d)
  <2>1. CASE UNCHANGED row
    BY <2>1
  <2>2. ASSUME NEW c \in Calls, NEW to \in {"ending"} \cup Terminal,
               Owns(k, c), row' = Moved(c, to),
               to \in Terminal => Bare(entry[k][c]) /\ entry[k][c].pc = "final"
        PROVE  \A d \in Calls :
                  /\ row'[d].owner = row[d].owner
                  /\ row'[d].state # row[d].state =>
                        /\ row[d].owner = k
                        /\ row'[d].state \in Terminal => ~Uses(k, d)
    <3>1. to \in RowStates
      BY DEF RowStates, Terminal
    <3>2. to \in Terminal => ~Uses(k, c)
      BY <2>2, FinalUsesNothing
    <3>. QED
      BY <2>2, <3>1, <3>2, MovedFrame DEF Owns
  <2>. QED
    BY <2>1, <2>2 DEF EndStep
<1>5. ClosedIsClean'
  <2>1. ASSUME NEW d \in Calls, row'[d].state \in Terminal, NEW j \in Connectors,
               <<j, d>> \in agents' \cup bridges'
        PROVE  FALSE
    <3>1. <<j, d>> \in agents \cup bridges
      BY <1>1, <2>1
    <3>2. row[d].owner = j /\ row[d].state \notin Terminal
      BY <2>1, <3>1 DEF HeldInv, ClosedIsClean
    <3>. QED
      BY <1>4, <2>1, <3>1, <3>2 DEF Uses
  <2>. QED
    BY <2>1 DEF ClosedIsClean
<1>6. \A j \in Connectors, d \in Calls :
         <<j, d>> \in agents' \cup bridges' => row'[d].owner = j
  BY <1>1, <1>4 DEF HeldInv
<1>7. \A j \in Connectors, d \in Calls :
         entry'[j][d].pc \in Starting =>
            row'[d].owner = j /\ row'[d].state \notin Terminal
  <2>1. ASSUME NEW j \in Connectors, NEW d \in Calls, entry'[j][d].pc \in Starting
        PROVE  row'[d].owner = j /\ row'[d].state \notin Terminal
    <3>1. j # k /\ entry'[j][d] = entry[j][d]
      BY <1>1, <2>1 DEF NoEntry, Starting
    <3>2. row[d].owner = j /\ row[d].state \notin Terminal
      BY <2>1, <3>1 DEF HeldInv
    <3>. QED
      BY <1>4, <3>1, <3>2
  <2>. QED
    BY <2>1
<1>. QED
  BY <1>2, <1>3, <1>5, <1>6, <1>7 DEF HeldInv

LEMMA HeldStep ==
    ASSUME Reliable
    PROVE  WorldTypeOK /\ EntriesOK /\ DispatchInv /\ HeldInv /\ [Next]_vars
           => HeldInv'
<1> SUFFICES ASSUME WorldTypeOK, EntriesOK, DispatchInv, HeldInv, [Next]_vars
             PROVE  HeldInv'
  OBVIOUS
<1>. QED
  BY HeldEnd, HeldClaim, HeldConnect, HeldDispatch, HeldAttach, HeldCloseMedia,
     HeldStopAgent, HeldFinalise, HeldBenign, HeldIdle, StepKinds DEF OwnStep

LEMMA HeldInit == Init => HeldInv
BY DEF Init, HeldInv, AgentsHeld, BridgesHeld, ClosedIsClean, NoEntry, Starting, Terminal

LEMMA HeldAlways ==
    ASSUME Reliable
    PROVE  Spec => []HeldInv
<1>1. Spec => []WorldTypeOK
  BY WorldTypeInit, WorldTypeStep, PTL DEF Spec
<1>2. Spec => []DispatchInv
  BY <1>1, EntriesSound, DispatchInit, DispatchStep, PTL DEF Spec
<1>. QED
  BY <1>1, <1>2, EntriesSound, HeldInit, HeldStep, PTL DEF Spec

(***************************************************************************)
(* A call that is recorded as over has no agent and no bridge, whatever    *)
(* the database, LiveKit and the PBX failed at on the way, and whichever   *)
(* connector died.                                                         *)
(***************************************************************************)
THEOREM ClosedCallsAreClean ==
    ASSUME Reliable
    PROVE  Spec => []ClosedIsClean
<1>1. HeldInv => ClosedIsClean
  BY DEF HeldInv
<1>. QED
  BY <1>1, HeldAlways, PTL

(***************************************************************************)
(* Every agent and every bridge can be stopped: its call is still tracked, *)
(* with the handle that a later operation needs, unless the connector of   *)
(* the agent has died.                                                     *)
(***************************************************************************)
THEOREM NothingEscapes ==
    ASSUME Reliable
    PROVE  Spec => []ResourcesAreHeld
<1>1. HeldInv => ResourcesAreHeld
  BY DEF HeldInv, AgentsHeld, BridgesHeld, ResourcesAreHeld
<1>. QED
  BY <1>1, HeldAlways, PTL
-----------------------------------------------------------------------------
(***************************************************************************)
(* A drained connector.  While the database answers, no answer to a        *)
(* dispatch is lost and nobody dies, a tracked call's entry agrees with    *)
(* its row, so no transition is refused or illegal: an operation that      *)
(* takes a call down finds it connecting or active, and is the only one    *)
(* to record it as ended.                                                  *)
(***************************************************************************)
Answered == Faults \cap {"database", "lost", "crash"} = {}

Staged(e) ==
    /\ e.state \in {"claimed", "connecting", "active", "ending"}
    /\ e.state = "claimed" => e.pc = "connecting"
    /\ e.pc = "renew" => e.op = "renew" /\ e.state = "active"
    /\ e.pc = "ending" => e.state \in {"connecting", "active"}
    /\ e.pc \in {"media", "agent"} =>
          e.state = (IF e.op = "start" THEN "connecting" ELSE "ending")
    /\ e.pc \in {"fallback", "final"} => e.state = "ending"

Agrees(k, c, e, r) ==
    /\ e.tracked => r.owner = k /\ r.state = e.state /\ Staged(e)
    /\ ~e.tracked => e.op = "none" /\ (e = NoEntry \/ e.state \in Terminal)
    /\ r.owner = k => e.tracked \/ r.state \in Terminal
    /\ c \in todo[k] => e.tracked \/ e.state \in Terminal
    /\ mode[k] = "drained" => ~e.tracked

DrainInv ==
    /\ died = {}
    /\ \A k \in Connectors : mode[k] \in {"draining", "drained"} => claiming[k] = {}
    /\ \A k \in Connectors, c \in Calls : Agrees(k, c, entry[k][c], row[c])

LEMMA DrainInit == Init => DrainInv
BY CallAssumption DEF Init, DrainInv, Agrees, NoEntry

\* A step that writes one entry, and at most the row of a call it owns.
LEMMA AgreeFrame ==
    ASSUME EntriesOK, WorldTypeOK, DrainInv, NEW k \in Connectors, NEW c \in Calls,
           NEW e, Put(k, c, e),
           row' = row \/ (row[c].owner = k /\ \E to \in RowStates : row' = Moved(c, to)),
           Agrees(k, c, e, row'[c]),
           UNCHANGED <<claiming, mode, died>>,
           \A j \in Connectors : todo'[j] \subseteq todo[j]
    PROVE  DrainInv'
<1>1. \A d \in Calls : d # c => row'[d] = row[d]
  BY MovedFrame
<1>2. row' = row \/ (row[c].owner = k /\ row'[c].owner = k)
  <2>1. ASSUME NEW to \in RowStates, row' = Moved(c, to) PROVE row'[c].owner = row[c].owner
    BY <2>1, MovedFrame
  <2>. QED BY <2>1
<1>3. Agrees(k, c, entry[k][c], row[c])'
  BY PutOne DEF Agrees
<1>4. ASSUME NEW j \in Connectors, j # k PROVE Agrees(j, c, entry[j][c], row[c])'
  <2>1. entry'[j][c] = entry[j][c] /\ Agrees(j, c, entry[j][c], row[c])
    BY <1>4, PutOne DEF DrainInv
  <2>. QED BY <1>2, <1>4, <2>1 DEF Agrees
<1>5. ASSUME NEW j \in Connectors, NEW d \in Calls, d # c
      PROVE  Agrees(j, d, entry[j][d], row[d])'
  <2>1. entry'[j][d] = entry[j][d] /\ Agrees(j, d, entry[j][d], row[d])
    BY <1>5, PutOne DEF DrainInv
  <2>. QED BY <1>1, <1>5, <2>1 DEF Agrees
<1>6. \A j \in Connectors, d \in Calls : Agrees(j, d, entry[j][d], row[d])'
  BY <1>3, <1>4, <1>5
<1>. QED BY <1>6 DEF DrainInv

\* The operation of a tracked call goes on, or leaves it tracked.
LEMMA StaysTracked ==
    ASSUME EntriesOK, WorldTypeOK, DrainInv, NEW k \in Connectors, NEW c \in Calls,
           NEW e, Put(k, c, e), entry[k][c].tracked, e.tracked, Staged(e),
           \/ row' = row /\ e.state = entry[k][c].state
           \/ e.state \in RowStates /\ row' = Moved(c, e.state),
           UNCHANGED <<claiming, mode, died>>,
           \A j \in Connectors : todo'[j] \subseteq todo[j]
    PROVE  DrainInv'
<1>1. Agrees(k, c, entry[k][c], row[c])
  BY DEF DrainInv
<1>2. row'[c].owner = k /\ row'[c].state = e.state
  BY <1>1, MovedFrame DEF Agrees, Moved, WorldTypeOK, Row
<1>3. Agrees(k, c, e, row'[c])
  BY <1>1, <1>2 DEF Agrees
<1>4. row' = row \/ (row[c].owner = k /\ \E to \in RowStates : row' = Moved(c, to))
  BY <1>1 DEF Agrees
<1>. QED BY <1>3, <1>4, AgreeFrame

\* What only asks for an operation.
LEMMA StaysPut ==
    ASSUME EntriesOK, WorldTypeOK, DrainInv, NEW k \in Connectors, NEW c \in Calls,
           NEW e, Put(k, c, e), entry[k][c] # NoEntry,
           e.tracked = entry[k][c].tracked, e.state = entry[k][c].state,
           e.op = entry[k][c].op, e.pc = entry[k][c].pc,
           UNCHANGED <<row, claiming, mode, died>>,
           \A j \in Connectors : todo'[j] \subseteq todo[j]
    PROVE  DrainInv'
<1>1. Agrees(k, c, entry[k][c], row[c])
  BY DEF DrainInv
<1>2. Agrees(k, c, e, row'[c])
  BY <1>1 DEF Agrees, Staged
<1>. QED BY <1>2, AgreeFrame

LEMMA WorkIsTracked ==
    ASSUME EntriesOK, DrainInv, NEW k \in Connectors, NEW c \in Calls,
           entry[k][c].pc # "idle"
    PROVE  /\ entry[k][c] \in SoundEntry /\ entry[k][c].tracked /\ Staged(entry[k][c])
           /\ Owns(k, c) /\ entry[k][c].op # "none"
<1>1. entry[k][c] \in SoundEntry /\ Agrees(k, c, entry[k][c], row[c])
  BY DEF DrainInv, EntriesOK
<1>. QED BY <1>1 DEF Agrees, SoundEntry, EntryOK, Owns

LEMMA LegalIsDone ==
    ASSUME Answered, NEW k \in Connectors, NEW c \in Calls, NEW to, NEW answer,
           Owns(k, c), to \in Transitions[entry[k][c].state],
           Transition(k, c, to, answer)
    PROVE  answer = "done" /\ row' = Moved(c, to)
BY DEF Answered, Transition

LEMMA FinishedStages ==
    ASSUME NEW e \in SoundEntry, Staged(e), e.state # "claimed"
    PROVE  Finished(e).op = "none" /\ Staged(Finished(e)) /\ Finished(e).state = e.state
<1>1. Finished(e) \in SoundEntry /\ Finished(e).pc = "idle" /\ Finished(e).state = e.state
  BY FinishedSound
<1>. QED BY <1>1 DEF Staged, SoundEntry, EntryOK

\* The start of a call.
LEMMA DrainStarts ==
    ASSUME Answered, EntriesOK, WorldTypeOK, DrainInv, NEW k \in Connectors, NEW c \in Calls,
           Connect(k, c) \/ Dispatch(k, c) \/ Attach(k, c) \/ Activate(k, c)
    PROVE  DrainInv'
<1> DEFINE old == entry[k][c]
<1>1. old.pc \in Starting /\ old.pc # "idle"
  BY DEF Connect, Dispatch, Attach, Activate, Starting
<1>2. /\ old \in SoundEntry /\ old.tracked /\ Staged(old) /\ Owns(k, c) /\ old.op = "start"
      /\ old.pc = "connecting" => old.state = "claimed"
      /\ old.pc # "connecting" => old.state = "connecting"
  BY <1>1, WorkIsTracked DEF SoundEntry, EntryOK
<1>3. UNCHANGED <<claiming, mode, died, todo>>
  BY DEF Connect, Dispatch, Attach, Activate, controller
<1>4. CASE Connect(k, c)
  <2> DEFINE e == [old EXCEPT !.state = "connecting", !.pc = "dispatch"]
  <2>1. "connecting" \in Transitions[old.state]
    BY <1>2, <1>4 DEF Connect, Transitions, RowStates
  <2>2. row' = Moved(c, "connecting") /\ Put(k, c, e)
    BY <1>2, <1>4, <2>1, LegalIsDone DEF Connect
  <2>3. e.tracked /\ Staged(e) /\ e.state = "connecting"
    BY <1>2 DEF SoundEntry, Entry, Staged
  <2>. QED BY <1>2, <1>3, <2>2, <2>3, StaysTracked DEF RowStates
<1>5. CASE Dispatch(k, c)
  <2> DEFINE on == [old EXCEPT !.agent = TRUE, !.pc = "attach"]
             off == [old EXCEPT !.pc = "media"]
  <2>1. Put(k, c, on) \/ Put(k, c, off)
    BY <1>5 DEF Dispatch, Goto, Answered
  <2>2. \A e \in {on, off} : e.tracked /\ Staged(e) /\ e.state = old.state
    BY <1>2, <1>5 DEF Dispatch, SoundEntry, Entry, Staged
  <2>3. row' = row
    BY <1>5 DEF Dispatch
  <2> HIDE DEF on, off
  <2>. QED BY <1>2, <1>3, <2>1, <2>2, <2>3, StaysTracked
<1>6. CASE Attach(k, c)
  <2> DEFINE on == [old EXCEPT !.media = TRUE, !.pc = "activate"]
             off == [old EXCEPT !.pc = "media"]
  <2>1. Put(k, c, on) \/ Put(k, c, off)
    BY <1>6 DEF Attach, Goto
  <2>2. \A e \in {on, off} : e.tracked /\ Staged(e) /\ e.state = old.state
    BY <1>2, <1>6 DEF Attach, SoundEntry, Entry, Staged
  <2>3. row' = row
    BY <1>6 DEF Attach
  <2> HIDE DEF on, off
  <2>. QED BY <1>2, <1>3, <2>1, <2>2, <2>3, StaysTracked
<1>7. CASE Activate(k, c)
  <2> DEFINE e == [Finished(old) EXCEPT !.state = "active", !.timer = TRUE, !.due = TRUE]
  <2>1. "active" \in Transitions[old.state]
    BY <1>2, <1>7 DEF Activate, Transitions, RowStates
  <2>2. row' = Moved(c, "active") /\ Put(k, c, e)
    BY <1>2, <1>7, <2>1, LegalIsDone DEF Activate
  <2>3. Finished(old) \in SoundEntry /\ Finished(old).pc = "idle" /\ Finished(old).tracked
    BY <1>2, FinishedSound
  <2>4. e.tracked /\ Staged(e) /\ e.state = "active"
    BY <2>3 DEF SoundEntry, Entry, Staged
  <2>. QED BY <1>2, <1>3, <2>2, <2>4, StaysTracked DEF RowStates
<1>. QED BY <1>4, <1>5, <1>6, <1>7

LEMMA DrainRenew ==
    ASSUME Answered, EntriesOK, WorldTypeOK, DrainInv, NEW k \in Connectors, NEW c \in Calls,
           Renew(k, c)
    PROVE  DrainInv'
<1> DEFINE old == entry[k][c]
           kept == [Finished(old) EXCEPT !.renewFailed = FALSE]
           lost == [old EXCEPT !.leaseLost = TRUE, !.timer = FALSE, !.pc = "ending"]
<1>1. /\ old \in SoundEntry /\ old.tracked /\ Staged(old) /\ old.pc = "renew"
      /\ old.state = "active"
  BY WorkIsTracked DEF Renew, Staged
<1>2. Put(k, c, kept) \/ Put(k, c, lost)
  BY DEF Renew, Answered
<1>3. /\ Finished(old) \in SoundEntry /\ Finished(old).pc = "idle" /\ Finished(old).tracked
      /\ Finished(old).state = "active"
  BY <1>1, FinishedSound
<1>4. kept.tracked /\ Staged(kept) /\ kept.state = old.state
  BY <1>1, <1>3 DEF SoundEntry, Entry, Staged
<1>5. lost.tracked /\ Staged(lost) /\ lost.state = old.state
  BY <1>1 DEF SoundEntry, Entry, Staged
<1>6. UNCHANGED <<row, claiming, mode, died, todo>>
  BY DEF Renew, outside, controller
<1> HIDE DEF kept, lost
<1>. QED BY <1>1, <1>2, <1>4, <1>5, <1>6, StaysTracked

LEMMA DrainMarks ==
    ASSUME Answered, EntriesOK, WorldTypeOK, DrainInv, NEW k \in Connectors, NEW c \in Calls,
           MarkEnding(k, c)
    PROVE  DrainInv'
<1> DEFINE old == entry[k][c]
           seen == [old EXCEPT !.state = "ending"]
<1>1. /\ old \in SoundEntry /\ old.tracked /\ Staged(old) /\ old.pc = "ending"
      /\ old.state \in {"connecting", "active"} /\ Owns(k, c)
  BY WorkIsTracked DEF MarkEnding, Staged
<1>2. "ending" \in Transitions[old.state]
  BY <1>1 DEF Transitions, RowStates
<1>3. /\ seen \in SoundEntry /\ seen.tracked /\ seen.state = "ending" /\ seen.op = old.op
      /\ seen.clean = old.clean /\ seen.pc = "ending"
  BY <1>1 DEF SoundEntry, Entry, EntryOK, Bare, RowStates, Starting
<1> DEFINE back == [seen EXCEPT !.pc = "fallback"]
           lost == [seen EXCEPT !.pc = "media", !.moved = TRUE]
           down == [seen EXCEPT !.pc = "media"]
<1>4. PICK answer \in Answers :
        LET s == IF answer = "done" THEN [old EXCEPT !.state = "ending"] ELSE old IN
        /\ Transition(k, c, "ending", answer)
        /\ Proceed(k, c, answer,
              CASE old.op = "start" /\ old.clean /\ answer = "done" ->
                      [s EXCEPT !.pc = "fallback"]
                [] old.op = "renew" /\ answer # "raised" ->
                      [s EXCEPT !.pc = "media", !.moved = (answer = "done")]
                [] old.op \notin {"start", "renew"} /\ answer = "done" ->
                      [s EXCEPT !.pc = "media"]
                [] OTHER -> Finished(s))
  BY DEF MarkEnding
<1>5. answer = "done" /\ row' = Moved(c, "ending")
  BY <1>1, <1>2, <1>4, LegalIsDone
<1>6. /\ UNCHANGED <<claiming, mode, todo, died>>
      /\ \/ Put(k, c, back)
         \/ Put(k, c, lost) /\ old.op = "renew"
         \/ Put(k, c, down) /\ old.op \notin {"start", "renew"}
         \/ Put(k, c, Finished(seen)) /\ old.op = "start"
  BY <1>4, <1>5 DEF Proceed, controller
<1>7. /\ Finished(seen).pc = "idle" /\ Finished(seen).tracked /\ Finished(seen).state = "ending"
  BY <1>3, FinishedSound
<1>8. Staged(Finished(seen))
  BY <1>7 DEF Staged
<1> HIDE DEF seen
<1>9. back.tracked /\ back.state = "ending" /\ Staged(back)
  BY <1>3 DEF SoundEntry, Entry, Staged
<1>10. ASSUME old.op # "start"
       PROVE  /\ lost.tracked /\ lost.state = "ending" /\ Staged(lost)
              /\ down.tracked /\ down.state = "ending" /\ Staged(down)
  BY <1>3, <1>10 DEF SoundEntry, Entry, Staged
<1> HIDE DEF back, lost, down
<1>11. \E e : Put(k, c, e) /\ e.tracked /\ e.state = "ending" /\ Staged(e)
  BY <1>6, <1>7, <1>8, <1>9, <1>10
<1>. QED BY <1>1, <1>5, <1>6, <1>11, StaysTracked DEF RowStates

LEMMA DrainCleans ==
    ASSUME EntriesOK, WorldTypeOK, DrainInv, NEW k \in Connectors, NEW c \in Calls,
           CloseMedia(k, c) \/ StopAgent(k, c) \/ Fallback(k, c)
    PROVE  DrainInv'
<1> DEFINE old == entry[k][c]
<1>1. /\ old \in SoundEntry /\ old.tracked /\ Staged(old) /\ old.op # "none"
      /\ old.pc \in {"media", "agent", "fallback"}
  BY WorkIsTracked DEF CloseMedia, StopAgent, Fallback
<1>2. /\ old.state = (IF old.op = "start" /\ old.pc # "fallback" THEN "connecting" ELSE "ending")
  BY <1>1 DEF Staged
<1>3. UNCHANGED <<row, claiming, mode, todo, died>>
  BY DEF CloseMedia, StopAgent, Fallback, controller
<1>4. CASE CloseMedia(k, c)
  <2> DEFINE shut == [old EXCEPT !.media = FALSE, !.timer = FALSE, !.pc = "agent"]
             fail == [old EXCEPT !.clean = FALSE, !.timer = FALSE, !.pc = "agent"]
  <2>1. Put(k, c, shut) \/ Put(k, c, fail)
    BY <1>4 DEF CloseMedia
  <2>a. old.pc = "media" /\ old \in Entry
    BY <1>1, <1>4 DEF CloseMedia, SoundEntry
  <2>b. /\ shut.tracked /\ shut.state = old.state /\ shut.op = old.op /\ shut.pc = "agent"
    BY <1>1, <2>a DEF Entry
  <2>c. /\ fail.tracked /\ fail.state = old.state /\ fail.op = old.op /\ fail.pc = "agent"
    BY <1>1, <2>a DEF Entry
  <2>2. \A e \in {shut, fail} : e.tracked /\ Staged(e) /\ e.state = old.state
    <3>. HIDE DEF shut, fail
    <3>. QED BY <1>1, <1>2, <2>a, <2>b, <2>c DEF Staged
  <2> HIDE DEF shut, fail
  <2>. QED BY <1>1, <1>3, <2>1, <2>2, StaysTracked
<1>5. CASE StopAgent(k, c)
  <2> DEFINE off == [old EXCEPT !.agent = FALSE]
             fail == [old EXCEPT !.clean = FALSE]
  <2>1. \E e \in {old, off, fail} : Put(k, c, CleanedUp(e))
    BY <1>5 DEF StopAgent
  <2>2. \A e \in {old, off, fail} : /\ e \in SoundEntry /\ e.tracked /\ e.state = old.state
                                    /\ e.op = old.op /\ e.pc = "agent"
    <3>1. old \in Entry /\ off \in Entry /\ fail \in Entry /\ old.pc = "agent"
      BY <1>1, <1>5 DEF StopAgent, SoundEntry, Entry
    <3>2. /\ off.tracked /\ off.state = old.state /\ off.op = old.op /\ off.pc = "agent"
          /\ EntryOK(off)
      BY <1>1, <3>1 DEF SoundEntry, Entry, EntryOK, Bare, Starting
    <3>3. /\ fail.tracked /\ fail.state = old.state /\ fail.op = old.op /\ fail.pc = "agent"
          /\ EntryOK(fail)
      BY <1>1, <3>1 DEF SoundEntry, Entry, EntryOK, Bare, Starting
    <3> HIDE DEF off, fail
    <3>. QED BY <1>1, <3>1, <3>2, <3>3 DEF SoundEntry
  <2>3. ASSUME NEW e \in SoundEntry, e.tracked, e.state = old.state, e.op = old.op,
               e.pc = "agent"
        PROVE  CleanedUp(e).tracked /\ Staged(CleanedUp(e)) /\ CleanedUp(e).state = old.state
    <3>1. CASE AfterCleanup(e.op, e.clean) = "idle"
      <4>1. CleanedUp(e) = Finished(e) /\ old.state = "ending"
        BY <1>1, <1>2, <1>5, <2>3, <3>1 DEF CleanedUp, AfterCleanup, StopAgent
      <4>2. Finished(e).tracked /\ Finished(e).state = old.state /\ Finished(e).pc = "idle"
        BY <2>3, FinishedSound
      <4>. QED BY <4>1, <4>2 DEF Staged
    <3>2. CASE AfterCleanup(e.op, e.clean) # "idle"
      <4> DEFINE next == AfterCleanup(e.op, e.clean)
                 f == [e EXCEPT !.pc = next]
      <4>1. CleanedUp(e) = f
        BY <3>2 DEF CleanedUp
      <4>2. /\ next \in {"ending", "final", "fallback"}
            /\ next = "ending" => old.state = "connecting"
            /\ next # "ending" => old.state = "ending"
        BY <1>1, <1>2, <1>5, <2>3, <3>2 DEF AfterCleanup, StopAgent
      <4> HIDE DEF next
      <4>3. f.tracked /\ f.state = old.state /\ f.pc = next
        BY <2>3 DEF SoundEntry, Entry
      <4> HIDE DEF f
      <4>. QED BY <4>1, <4>2, <4>3 DEF Staged
    <3>. QED BY <3>1, <3>2
  <2> HIDE DEF off, fail
  <2>. QED BY <1>1, <1>3, <2>1, <2>2, <2>3, StaysTracked
<1>6. CASE Fallback(k, c)
  <2> DEFINE on == [old EXCEPT !.pc = "final"]
  <2>1. Put(k, c, on) \/ Put(k, c, Finished(old))
    BY <1>6 DEF Fallback, Goto, Finish
  <2>2. old.state = "ending"
    BY <1>2, <1>6 DEF Fallback
  <2>3. on.tracked /\ Staged(on) /\ on.state = old.state
    BY <1>1, <2>2 DEF SoundEntry, Entry, Staged
  <2>4. /\ Finished(old).tracked /\ Finished(old).state = old.state
        /\ Staged(Finished(old))
    BY <1>1, <2>2, FinishedSound, FinishedStages
  <2> HIDE DEF on
  <2>. QED BY <1>1, <1>3, <2>1, <2>3, <2>4, StaysTracked
<1>. QED BY <1>4, <1>5, <1>6

LEMMA DrainFinalises ==
    ASSUME Answered, EntriesOK, WorldTypeOK, DrainInv, NEW k \in Connectors, NEW c \in Calls,
           Finalise(k, c)
    PROVE  DrainInv'
<1> DEFINE old == entry[k][c]
           last == LastState(old.op)
           e == [Finished(old) EXCEPT !.state = last, !.tracked = FALSE]
<1>1. /\ old \in SoundEntry /\ old.tracked /\ Staged(old) /\ old.pc = "final"
      /\ old.state = "ending" /\ Owns(k, c)
  BY WorkIsTracked DEF Finalise, Staged
<1>2. last \in Transitions[old.state] /\ last \in Terminal /\ last \in RowStates
  BY <1>1 DEF LastState, Transitions, RowStates, Terminal
<1>3. PICK answer \in Answers :
        /\ Transition(k, c, last, answer)
        /\ Proceed(k, c, answer, IF answer = "done" THEN e ELSE Finished(old))
  BY DEF Finalise
<1>4. answer = "done" /\ row' = Moved(c, last)
  BY <1>1, <1>2, <1>3, LegalIsDone
<1>5. Put(k, c, e) /\ UNCHANGED <<claiming, mode, todo, died>>
  BY <1>3, <1>4 DEF Proceed, controller
<1>6. Finished(old) \in SoundEntry /\ Finished(old).op = "none"
  BY <1>1, FinishedSound, FinishedStages
<1> HIDE DEF last
<1>7. ~e.tracked /\ e.op = "none" /\ e.state = last
  BY <1>6 DEF SoundEntry, Entry
<1>8. row'[c].state = last
  BY <1>2, <1>4, MovedFrame
<1>9. Agrees(k, c, e, row'[c])
  BY <1>2, <1>7, <1>8 DEF Agrees
<1> HIDE DEF e
<1>. QED BY <1>1, <1>2, <1>4, <1>5, <1>9, AgreeFrame DEF Owns

\* A call is claimed once; whoever else looked at it has not got it.
LEMMA DrainClaims ==
    ASSUME Answered, EntriesOK, WorldTypeOK, DrainInv, NEW k \in Connectors, NEW c \in Calls,
           Claim(k, c)
    PROVE  DrainInv'
<1> DEFINE e == [NoEntry EXCEPT !.tracked = TRUE, !.op = "start", !.pc = "connecting"]
<1>1. /\ UNCHANGED <<mode, todo, died>>
      /\ claiming' = [claiming EXCEPT ![k] = @ \ {c}] /\ c \in claiming[k]
      /\ \/ UNCHANGED <<row, entry>>
         \/ row[c].state = "absent" /\ row' = ClaimedBy(k, c) /\ Put(k, c, e)
  BY DEF Claim, Answered
<1>2. \A j \in Connectors : mode'[j] \in {"draining", "drained"} => claiming'[j] = {}
  BY <1>1 DEF DrainInv, WorldTypeOK
<1>3. CASE UNCHANGED <<row, entry>>
  BY <1>1, <1>2, <1>3 DEF DrainInv, Agrees
<1>4. CASE row[c].state = "absent" /\ row' = ClaimedBy(k, c) /\ Put(k, c, e)
  <2>1. mode[k] # "drained"
    BY <1>1 DEF DrainInv
  <2>2. /\ row'[c].owner = k /\ row'[c].state = "claimed"
        /\ \A d \in Calls : d # c => row'[d] = row[d]
    BY <1>4 DEF ClaimedBy, WorldTypeOK
  <2>3. e.tracked /\ Staged(e) /\ e.state = "claimed"
    BY DEF NoEntry, Staged
  <2> HIDE DEF e
  <2>4. entry'[k][c] = e
    BY <1>4, PutOne
  <2>5. Agrees(k, c, entry[k][c], row[c])'
    BY <1>1, <2>1, <2>2, <2>3, <2>4 DEF Agrees
  <2>6. ASSUME NEW j \in Connectors, j # k PROVE Agrees(j, c, entry[j][c], row[c])'
    <3>1. entry'[j][c] = entry[j][c] /\ Agrees(j, c, entry[j][c], row[c])
      BY <1>4, <2>6, PutOne DEF DrainInv
    <3>2. ~entry[j][c].tracked
      BY <1>4, <3>1 DEF Agrees, Staged
    <3>. QED BY <1>1, <2>2, <2>6, <3>1, <3>2 DEF Agrees
  <2>7. ASSUME NEW j \in Connectors, NEW d \in Calls, d # c
        PROVE  Agrees(j, d, entry[j][d], row[d])'
    <3>1. entry'[j][d] = entry[j][d] /\ Agrees(j, d, entry[j][d], row[d])
      BY <1>4, <2>7, PutOne DEF DrainInv
    <3>. QED BY <1>1, <2>2, <2>7, <3>1 DEF Agrees
  <2>8. \A j \in Connectors, d \in Calls : Agrees(j, d, entry[j][d], row[d])'
    BY <2>5, <2>6, <2>7
  <2>. QED BY <1>1, <1>2, <2>8 DEF DrainInv
<1>. QED BY <1>1, <1>3, <1>4

\* Requests, and the lock that is handed on.
LEMMA DrainRequests ==
    ASSUME EntriesOK, WorldTypeOK, DrainInv, NEW k \in Connectors, NEW c \in Calls,
           NEW o \in Ops,
           TimerFires(k, c) \/ EndCall(k, c) \/ DrainNext(k, c) \/ BridgeCalls(k, c, o)
    PROVE  DrainInv'
<1> DEFINE old == entry[k][c]
           timed == [old EXCEPT !.timer = FALSE, !.waiting = @ \cup {"renew"}]
           ended == [old EXCEPT !.waiting = @ \cup {"end"}, !.due = FALSE]
           asked(p) == [old EXCEPT !.waiting = @ \cup {p}]
<1>1. old \in Entry /\ Agrees(k, c, old, row[c])
  BY DEF EntriesOK, SoundEntry, DrainInv
<1>2. old # NoEntry
  BY <1>1 DEF TimerFires, EndCall, DrainNext, BridgeCalls, NoEntry, Agrees, Terminal
<1>3. Put(k, c, timed) \/ Put(k, c, ended) \/ \E p \in Ops : Put(k, c, asked(p))
  BY DEF TimerFires, EndCall, DrainNext, BridgeCalls, Request, Put, Ops, EntriesOK
<1>4. ASSUME NEW p PROVE /\ asked(p).tracked = old.tracked /\ asked(p).state = old.state
                         /\ asked(p).op = old.op /\ asked(p).pc = old.pc
  BY <1>1 DEF Entry
<1>5. \A e \in {timed, ended} : /\ e.tracked = old.tracked /\ e.state = old.state
                                /\ e.op = old.op /\ e.pc = old.pc
  BY <1>1 DEF Entry
<1> HIDE DEF timed, ended, asked
<1>6. \E e : /\ Put(k, c, e) /\ e.tracked = old.tracked /\ e.state = old.state
             /\ e.op = old.op /\ e.pc = old.pc
  BY <1>3, <1>4, <1>5
<1>7. /\ UNCHANGED <<row, claiming, mode, died>>
      /\ \A j \in Connectors : todo'[j] \subseteq todo[j]
  BY DEF TimerFires, EndCall, DrainNext, BridgeCalls, outside, controller, WorldTypeOK
<1>. QED BY <1>2, <1>6, <1>7, StaysPut

LEMMA DrainBegins ==
    ASSUME EntriesOK, WorldTypeOK, DrainInv, NEW k \in Connectors, NEW c \in Calls,
           NEW o \in Ops, Begin(k, c, o)
    PROVE  DrainInv'
<1> DEFINE old == entry[k][c]
<1>1. /\ old \in SoundEntry /\ old \in Entry /\ Agrees(k, c, old, row[c]) /\ old.op = "none"
      /\ old.pc = "idle" /\ o \in old.waiting /\ o # "start"
  BY DEF EntriesOK, SoundEntry, EntryOK, Entry, DrainInv, Begin
<1>2. old # NoEntry
  BY <1>1 DEF NoEntry
<1>3. UNCHANGED <<row, claiming, mode, died, todo>>
  BY DEF Begin, outside, controller
<1>4. CASE Superseded(o, old.state)
  <2> DEFINE e == [old EXCEPT !.waiting = @ \ {o}]
  <2>1. Put(k, c, e)
    BY <1>4 DEF Begin
  <2>2. e.tracked = old.tracked /\ e.state = old.state /\ e.op = old.op /\ e.pc = old.pc
    BY <1>1 DEF Entry
  <2> HIDE DEF e
  <2>. QED BY <1>2, <1>3, <2>1, <2>2, StaysPut
<1>5. CASE ~Superseded(o, old.state)
  <2>1. old.tracked /\ Staged(old) /\ old.state \in {"connecting", "active", "ending"}
    BY <1>1, <1>2, <1>5 DEF Agrees, Staged, Superseded
  <2>2. PICK timer \in {old.timer, old.timer /\ o = "renew"} :
          Put(k, c, [old EXCEPT !.waiting = @ \ {o}, !.op = o,
                                !.pc = FirstStep(o, old.state), !.timer = timer])
    BY <1>5 DEF Begin
  <2> DEFINE step == FirstStep(o, old.state)
             e == [old EXCEPT !.waiting = @ \ {o}, !.op = o, !.pc = step, !.timer = timer]
  <2>3. /\ step \in {"renew", "media", "ending"}
        /\ step = "renew" => o = "renew" /\ old.state = "active"
        /\ step = "media" => old.state = "ending"
        /\ step = "ending" => old.state \in {"connecting", "active"}
    BY <1>5, <2>1 DEF FirstStep, Superseded
  <2> HIDE DEF step
  <2>4. e.tracked /\ e.state = old.state /\ e.op = o /\ e.pc = step
    BY <1>1, <2>1 DEF Entry
  <2>5. Put(k, c, e)
    BY <2>2 DEF step
  <2> HIDE DEF e
  <2>6. Staged(e)
    BY <1>1, <2>1, <2>3, <2>4 DEF Staged
  <2>. QED BY <1>3, <2>1, <2>4, <2>5, <2>6, StaysTracked
<1>. QED BY <1>4, <1>5

\* What concerns no single call.
LEMMA DrainGoesOn ==
    ASSUME Answered, EntriesOK, WorldTypeOK, DrainInv,
           \/ \E k \in Connectors, c \in Calls : Join(k, c)
           \/ \E k \in Connectors : Shutdown(k) \/ StartDraining(k) \/ DrainEnd(k) \/ Crash(k)
           \/ \E c \in Calls : Arrive(c) \/ Leave(c) \/ LeaseExpire(c)
           \/ UNCHANGED vars
    PROVE  DrainInv'
<1>1. CASE \E k \in Connectors, c \in Calls : Join(k, c)
  <2>1. PICK k \in Connectors, c \in Calls : Join(k, c)
    BY <1>1
  <2>2. \A j \in Connectors : mode'[j] \in {"draining", "drained"} => claiming'[j] = {}
    BY <2>1 DEF Join, DrainInv, WorldTypeOK
  <2>. QED BY <2>1, <2>2 DEF Join, outside, DrainInv, Agrees
<1>2. ASSUME NEW k \in Connectors, Shutdown(k) PROVE DrainInv'
  <2>1. \A j \in Connectors : mode'[j] \in {"draining", "drained"} => mode'[j] = mode[j]
    BY <1>2 DEF Shutdown, WorldTypeOK
  <2>. QED BY <1>2, <2>1 DEF Shutdown, outside, DrainInv, Agrees
<1>3. ASSUME NEW k \in Connectors, StartDraining(k) PROVE DrainInv'
  <2>1. /\ \A j \in Connectors : mode'[j] \in {"draining", "drained"} => claiming'[j] = {}
        /\ \A j \in Connectors : mode'[j] = "drained" => mode[j] = "drained"
        /\ \A j \in Connectors, c \in Calls : c \in todo'[j] => c \in todo[j] \/ entry[j][c].tracked
    BY <1>3 DEF StartDraining, JoinsAreDone, DrainInv, WorldTypeOK
  <2>. QED BY <1>3, <2>1 DEF StartDraining, outside, DrainInv, Agrees
<1>4. ASSUME NEW k \in Connectors, DrainEnd(k) PROVE DrainInv'
  <2>1. /\ \A j \in Connectors : j # k => mode'[j] = mode[j]
        /\ mode'[k] = "drained" => \A c \in Calls : ~entry[k][c].tracked
        /\ claiming[k] = {}
    BY <1>4 DEF DrainEnd, DrainInv, WorldTypeOK
  <2>2. ASSUME NEW j \in Connectors, NEW c \in Calls
        PROVE  Agrees(j, c, entry[j][c], row[c])'
    BY <1>4, <2>1 DEF DrainEnd, outside, DrainInv, Agrees
  <2>. QED BY <1>4, <2>1, <2>2 DEF DrainEnd, DrainInv
<1>5. ASSUME NEW k \in Connectors, Crash(k) PROVE DrainInv'
  BY <1>5 DEF Crash, Answered
<1>6. ASSUME NEW c \in Calls, Arrive(c) \/ Leave(c) PROVE DrainInv'
  BY <1>6 DEF Arrive, Leave, controller, DrainInv, Agrees
<1>7. ASSUME NEW c \in Calls, LeaseExpire(c) PROVE DrainInv'
  <2>1. \A d \in Calls : row'[d].owner = row[d].owner /\ row'[d].state = row[d].state
    BY <1>7 DEF LeaseExpire, WorldTypeOK, Row
  <2>. QED BY <1>7, <2>1 DEF LeaseExpire, controller, DrainInv, Agrees
<1>8. CASE UNCHANGED vars
  BY <1>8 DEF vars, outside, controller, DrainInv, Agrees
<1>. QED BY <1>1, <1>2, <1>3, <1>4, <1>5, <1>6, <1>7, <1>8

LEMMA DrainStep ==
    ASSUME Answered
    PROVE  EntriesOK /\ WorldTypeOK /\ DrainInv /\ [Next]_vars => DrainInv'
<1> SUFFICES ASSUME EntriesOK, WorldTypeOK, DrainInv, [Next]_vars PROVE DrainInv'
  OBVIOUS
<1>1. "renew" \in Ops
  BY DEF Ops
<1>. QED
  BY <1>1, DrainStarts, DrainRenew, DrainMarks, DrainCleans, DrainFinalises, DrainClaims,
     DrainRequests, DrainBegins, DrainGoesOn DEF Next, Step

(***************************************************************************)
(* shutdown answers "stopped" only with nothing left: no call tracked or   *)
(* being claimed, no agent, no bridge and no open row, for any number of   *)
(* calls and connectors, while LiveKit's requests and the PBX fail and     *)
(* leases run out, but the database and dispatches answer and nobody dies. *)
(***************************************************************************)
THEOREM DrainedConnectorsAreIdle ==
    ASSUME Answered
    PROVE  Spec => []DrainedIsIdle
<1>1. HeldInv /\ DrainInv => DrainedIsIdle
  BY DEF HeldInv, AgentsHeld, BridgesHeld, DrainInv, Agrees, DrainedIsIdle
<1>2. Spec => []WorldTypeOK
  BY WorldTypeInit, WorldTypeStep, PTL DEF Spec
<1>3. Spec => []DrainInv
  BY <1>2, EntriesSound, DrainInit, DrainStep, PTL DEF Spec
<1>4. Reliable
  BY DEF Answered, Reliable
<1>. QED
  BY <1>1, <1>3, <1>4, HeldAlways, PTL
=============================================================================
