------------------------------ MODULE CallProofs ------------------------------
(***************************************************************************)
(* Theorems about CallController, for any number of connectors and calls.  *)
(***************************************************************************)
EXTENDS CallController, TLAPS

(***************************************************************************)
(* What the lock guarantees of one entry: the steps before the agent is    *)
(* dispatched belong to the start, an entry still "claimed" holds nothing, *)
(* and the steps that let the caller and the record go come only after     *)
(* both handles were given up.                                             *)
(***************************************************************************)
Starting == {"connecting", "dispatch", "attach", "activate"}

Bare(e) == ~e.agent /\ ~e.media

EntryOK(e) ==
    /\ e.op = "none" <=> e.pc = "idle"
    /\ e.pc \in Starting => e.op = "start" /\ e.tracked
    /\ e.pc = "connecting" => e.state = "claimed"
    /\ e.pc \in Starting \ {"connecting"} => e.state = "connecting"
    /\ e.pc = "renew" => e.op # "start"
    /\ e.state = "claimed" => Bare(e)
    /\ e.pc = "agent" /\ e.clean => ~e.media
    /\ e.op = "start" /\ e.pc = "ending" /\ e.clean => Bare(e)
    /\ e.pc \in {"fallback", "final"} => Bare(e)

SoundEntry == {e \in Entry : EntryOK(e)}

EntriesOK == entry \in [Connectors -> [Calls -> SoundEntry]]

(***************************************************************************)
(* What ties the entries to the world outside.                             *)
(***************************************************************************)
Early == {"connecting", "dispatch"}

Unclaimed(c) ==
    row[c].state = "absent" =>
        /\ row[c].owner = NoConnector
        /\ dispatches[c] = 0
        /\ \A k \in Connectors : entry[k][c].pc \notin Starting

Undispatched(c) ==
    \A k \in Connectors : entry[k][c].pc \in Early =>
        /\ dispatches[c] = 0
        /\ \A j \in Connectors : entry[j][c].pc \in Early => j = k

DispatchInv == \A c \in Calls : /\ dispatches[c] <= 1
                                /\ Unclaimed(c)
                                /\ Undispatched(c)

-----------------------------------------------------------------------------
(***************************************************************************)
(* One operation writes one entry, and ending an operation keeps it sound. *)
(***************************************************************************)
LEMMA PutOne ==
    ASSUME EntriesOK, NEW k \in Connectors, NEW c \in Calls, NEW e, Put(k, c, e)
    PROVE  /\ entry'[k][c] = e
           /\ \A j \in Connectors, d \in Calls :
                 j # k \/ d # c => entry'[j][d] = entry[j][d]
           /\ e \in SoundEntry => EntriesOK'
BY DEF EntriesOK, Put

LEMMA FinishedSound ==
    ASSUME NEW e \in SoundEntry
    PROVE  /\ Finished(e) \in SoundEntry
           /\ Finished(e).pc = "idle"
           /\ Finished(e).tracked = e.tracked
           /\ Finished(e).agent = e.agent
           /\ Finished(e).media = e.media
           /\ Finished(e).state = e.state
<1> DEFINE t == e.timer \/ (e.op = "renew" /\ e.state = "active" /\ ~e.leaseLost)
           f == [e EXCEPT !.op = "none", !.pc = "idle", !.clean = TRUE,
                          !.moved = FALSE, !.timer = t]
<1>1. t \in BOOLEAN
  OBVIOUS
<1>2. Finished(e) = f
  BY Zenon DEF Finished
<1>. HIDE DEF t
<1>3. /\ f \in Entry
      /\ f.op = "none" /\ f.pc = "idle"
      /\ f.tracked = e.tracked /\ f.agent = e.agent /\ f.media = e.media
      /\ f.state = e.state
  BY <1>1 DEF SoundEntry, Entry, Pcs, Ops
<1>. HIDE DEF f
<1>4. f \in SoundEntry
  BY <1>3 DEF SoundEntry, EntryOK, Starting, Bare
<1>. QED
  BY <1>2, <1>3, <1>4

-----------------------------------------------------------------------------
(***************************************************************************)
(* What each step makes of the entry it works on.  Most steps are benign:  *)
(* they leave the call tracked as it is, and both handles.                 *)
(***************************************************************************)
Benign(k, c, e) ==
    /\ e \in SoundEntry
    /\ Put(k, c, e)
    /\ e.tracked = entry[k][c].tracked
    /\ e.agent = entry[k][c].agent
    /\ e.media = entry[k][c].media
    /\ e.pc = entry[k][c].pc \/ e.pc \notin Starting

LEMMA RequestBenign ==
    ASSUME EntriesOK, NEW k \in Connectors, NEW c \in Calls,
           NEW o \in Ops \ {"start"}, Request(k, c, o)
    PROVE  \E e : Benign(k, c, e)
<1> DEFINE old == entry[k][c]
           e == [old EXCEPT !.waiting = @ \cup {o}]
<1>1. old \in SoundEntry
  BY DEF EntriesOK
<1>2. e \in SoundEntry
  BY <1>1 DEF SoundEntry, Entry, EntryOK, Bare
<1>3. Put(k, c, e)
  BY DEF EntriesOK, Request, Put
<1>. QED
  BY <1>1, <1>2, <1>3 DEF Benign, SoundEntry, Entry

LEMMA TimerBenign ==
    ASSUME EntriesOK, NEW k \in Connectors, NEW c \in Calls, TimerFires(k, c)
    PROVE  \E e : Benign(k, c, e)
<1> DEFINE old == entry[k][c]
           e == [old EXCEPT !.timer = FALSE, !.waiting = @ \cup {"renew"}]
<1>1. old \in SoundEntry
  BY DEF EntriesOK
<1>2. e \in Entry
  BY <1>1 DEF SoundEntry, Entry, Ops
<1>3. EntryOK(e) /\ e.pc = old.pc /\ e.tracked = old.tracked
      /\ e.agent = old.agent /\ e.media = old.media
  BY <1>1 DEF SoundEntry, Entry, EntryOK, Bare
<1>4. Put(k, c, e)
  BY DEF TimerFires
<1> HIDE DEF e
<1>. QED
  BY <1>2, <1>3, <1>4 DEF Benign, SoundEntry

LEMMA EndCallBenign ==
    ASSUME EntriesOK, NEW k \in Connectors, NEW c \in Calls, EndCall(k, c)
    PROVE  \E e : Benign(k, c, e)
<1> DEFINE old == entry[k][c]
           e == [old EXCEPT !.waiting = @ \cup {"end"}, !.due = FALSE]
<1>1. old \in SoundEntry
  BY DEF EntriesOK
<1>2. e \in Entry
  BY <1>1 DEF SoundEntry, Entry, Ops
<1>3. EntryOK(e) /\ e.pc = old.pc /\ e.tracked = old.tracked
      /\ e.agent = old.agent /\ e.media = old.media
  BY <1>1 DEF SoundEntry, Entry, EntryOK, Bare
<1>4. Put(k, c, e)
  BY DEF EndCall
<1> HIDE DEF e
<1>. QED
  BY <1>2, <1>3, <1>4 DEF Benign, SoundEntry

LEMMA BeginBenign ==
    ASSUME EntriesOK, NEW k \in Connectors, NEW c \in Calls, NEW o \in Ops,
           Begin(k, c, o)
    PROVE  \E e : Benign(k, c, e)
<1> DEFINE old == entry[k][c]
<1>1. /\ old \in SoundEntry /\ old.op = "none" /\ o \in old.waiting
      /\ o # "start"
  BY DEF EntriesOK, Begin, SoundEntry, Entry
<1>2. CASE Superseded(o, old.state)
  <2> DEFINE e == [old EXCEPT !.waiting = @ \ {o}]
  <2>1. Put(k, c, e)
    BY <1>2 DEF Begin
  <2>2. e \in SoundEntry
    BY <1>1 DEF SoundEntry, Entry, EntryOK, Bare
  <2>3. /\ e.tracked = old.tracked /\ e.agent = old.agent
        /\ e.media = old.media /\ e.pc = old.pc
    BY <1>1 DEF SoundEntry, Entry
  <2> HIDE DEF e
  <2>. QED
    BY <2>1, <2>2, <2>3 DEF Benign
<1>3. CASE ~Superseded(o, old.state)
  <2>1. PICK timer \in {old.timer, old.timer /\ o = "renew"} :
          Put(k, c, [old EXCEPT !.waiting = @ \ {o}, !.op = o,
                                !.pc = FirstStep(o, old.state),
                                !.timer = timer])
    BY <1>3 DEF Begin
  <2>2. timer \in BOOLEAN
    BY <1>1 DEF SoundEntry, Entry
  <2> DEFINE step == FirstStep(o, old.state)
             e == [old EXCEPT !.waiting = @ \ {o}, !.op = o, !.pc = step,
                              !.timer = timer]
  <2>3. /\ step \in {"renew", "final", "media", "ending"}
        /\ step = "final" => old.state = "claimed"
    BY DEF FirstStep
  <2> HIDE DEF step
  <2>4. e \in Entry
    BY <1>1, <2>2, <2>3 DEF SoundEntry, Entry, Pcs
  <2>5. EntryOK(e)
    BY <1>1, <2>3 DEF SoundEntry, Entry, EntryOK, Bare, Starting, Ops
  <2>6. /\ e.tracked = old.tracked /\ e.agent = old.agent
        /\ e.media = old.media /\ e.pc \notin Starting
    BY <1>1, <2>3 DEF SoundEntry, Entry, Starting
  <2>7. Put(k, c, e)
    BY <2>1 DEF step
  <2> HIDE DEF e
  <2>. QED
    BY <2>4, <2>5, <2>6, <2>7 DEF Benign, SoundEntry
<1>. QED
  BY <1>2, <1>3

LEMMA RenewBenign ==
    ASSUME EntriesOK, NEW k \in Connectors, NEW c \in Calls, Renew(k, c)
    PROVE  \E e : Benign(k, c, e)
<1> DEFINE old == entry[k][c]
           lost == [old EXCEPT !.leaseLost = TRUE, !.timer = FALSE,
                               !.pc = "ending"]
           kept == [Finished(old) EXCEPT !.renewFailed = FALSE]
           retried == [Finished(old) EXCEPT !.renewFailed = TRUE]
<1>1. old \in SoundEntry /\ old.pc = "renew"
  BY DEF EntriesOK, Renew
<1>2. Finished(old) \in SoundEntry /\ Finished(old).pc = "idle"
  BY <1>1, FinishedSound
<1>3. lost \in SoundEntry /\ lost.pc \notin Starting
  BY <1>1 DEF SoundEntry, Entry, EntryOK, Bare, Starting, Pcs
<1>4. /\ kept \in SoundEntry /\ kept.pc = "idle"
      /\ retried \in SoundEntry /\ retried.pc = "idle"
  BY <1>2 DEF SoundEntry, Entry, EntryOK, Bare
<1>5. Put(k, c, lost) \/ Put(k, c, kept) \/ Put(k, c, retried)
  BY DEF Renew
<1>6. \A e \in {lost, kept, retried} : /\ e.tracked = old.tracked
                                       /\ e.agent = old.agent
                                       /\ e.media = old.media
  BY <1>1, <1>2, FinishedSound DEF SoundEntry, Entry
<1> HIDE DEF lost, kept, retried
<1>. QED
  BY <1>3, <1>4, <1>5, <1>6 DEF Benign, Starting

LEMMA MarkEndingBenign ==
    ASSUME EntriesOK, NEW k \in Connectors, NEW c \in Calls, MarkEnding(k, c)
    PROVE  ProcessEnds(k) \/ (UNCHANGED bridges /\ \E e : Benign(k, c, e))
<1> SUFFICES ASSUME ~ProcessEnds(k)
             PROVE  UNCHANGED bridges /\ \E e : Benign(k, c, e)
  OBVIOUS
<1> DEFINE old == entry[k][c]
<1>1. old \in SoundEntry /\ old.pc = "ending"
  BY DEF EntriesOK, MarkEnding
<1>2. PICK answer \in Answers :
        LET seen == IF answer = "done" THEN [old EXCEPT !.state = "ending"]
                    ELSE old
        IN UNCHANGED bridges /\ Put(k, c,
               CASE old.op = "start" /\ old.clean /\ answer = "done" ->
                       [seen EXCEPT !.pc = "fallback"]
                 [] old.op = "renew" /\ answer # "raised" ->
                       [seen EXCEPT !.pc = "media", !.moved = (answer = "done")]
                 [] old.op \notin {"start", "renew"} /\ answer = "done" ->
                       [seen EXCEPT !.pc = "media"]
                 [] OTHER -> Finished(seen))
  BY DEF MarkEnding, Proceed
<1> DEFINE seen == IF answer = "done" THEN [old EXCEPT !.state = "ending"]
                   ELSE old
           moved == answer = "done"
<1>3. /\ seen \in SoundEntry
      /\ seen.tracked = old.tracked /\ seen.agent = old.agent
      /\ seen.media = old.media /\ seen.op = old.op
      /\ seen.clean = old.clean /\ seen.pc = "ending"
  BY <1>1 DEF SoundEntry, Entry, EntryOK, Bare, RowStates, Starting
<1>4. moved \in BOOLEAN
  OBVIOUS
<1> DEFINE back == [seen EXCEPT !.pc = "fallback"]
           lost == [seen EXCEPT !.pc = "media", !.moved = moved]
           down == [seen EXCEPT !.pc = "media"]
<1>5. \/ Put(k, c, back) /\ seen.op = "start" /\ seen.clean
      \/ Put(k, c, lost) \/ Put(k, c, down) \/ Put(k, c, Finished(seen))
  BY <1>2, <1>3
<1> HIDE DEF seen, moved
<1>6. ASSUME seen.op = "start", seen.clean
      PROVE  back \in SoundEntry
  BY <1>3, <1>6 DEF SoundEntry, Entry, EntryOK, Bare, Pcs, Starting
<1>7. lost \in Entry /\ down \in Entry
  BY <1>3, <1>4 DEF SoundEntry, Entry, Pcs
<1>8. EntryOK(lost) /\ EntryOK(down)
  BY <1>3 DEF SoundEntry, Entry, EntryOK, Bare, Starting
<1>9. \A e \in {back, lost, down} :
         /\ e.tracked = old.tracked /\ e.agent = old.agent
         /\ e.media = old.media /\ e.pc \notin Starting
  BY <1>3 DEF SoundEntry, Entry, Starting
<1>10. Finished(seen) \in SoundEntry
  BY <1>3, FinishedSound
<1>11. /\ Finished(seen).tracked = old.tracked
       /\ Finished(seen).agent = old.agent
       /\ Finished(seen).media = old.media
       /\ Finished(seen).pc \notin Starting
  BY <1>3, FinishedSound DEF Starting
<1> HIDE DEF back, lost, down
<1>. QED
  BY <1>2, <1>5, <1>6, <1>7, <1>8, <1>9, <1>10, <1>11 DEF Benign, SoundEntry

LEMMA FallbackBenign ==
    ASSUME EntriesOK, NEW k \in Connectors, NEW c \in Calls, Fallback(k, c)
    PROVE  \E e : Benign(k, c, e)
<1> DEFINE old == entry[k][c]
           e == [old EXCEPT !.pc = "final"]
<1>1. old \in SoundEntry /\ old.pc = "fallback"
  BY DEF EntriesOK, Fallback
<1>2. Put(k, c, e) \/ Put(k, c, Finished(old))
  BY DEF Fallback, Goto, Finish
<1>3. e \in SoundEntry
  BY <1>1 DEF SoundEntry, Entry, EntryOK, Bare, Pcs, Starting
<1>4. /\ e.tracked = old.tracked /\ e.agent = old.agent
      /\ e.media = old.media /\ e.pc \notin Starting
  BY <1>1 DEF SoundEntry, Entry, Starting
<1> HIDE DEF e
<1>. QED
  BY <1>1, <1>2, <1>3, <1>4, FinishedSound DEF Benign, Starting

(***************************************************************************)
(* The start of a call up to its agent and bridge, and the cleanup.        *)
(***************************************************************************)
LEMMA ClaimEffect ==
    ASSUME EntriesOK, NEW k \in Connectors, NEW c \in Calls, Claim(k, c)
    PROVE  \/ UNCHANGED entry
           \/ /\ row[c].state = "absent" /\ row' = ClaimedBy(k, c)
              /\ \E e \in SoundEntry : /\ Put(k, c, e)
                                       /\ e.pc = "connecting" /\ Bare(e)
                                       /\ e.tracked
<1> DEFINE e == [NoEntry EXCEPT !.tracked = TRUE, !.op = "start",
                                !.pc = "connecting"]
<1>1. e \in SoundEntry /\ e.pc = "connecting" /\ Bare(e) /\ e.tracked
  BY DEF NoEntry, SoundEntry, Entry, EntryOK, Bare, Starting, Pcs, Ops, RowStates
<1> HIDE DEF e
<1>2. CASE Put(k, c, e) /\ row[c].state = "absent" /\ row' = ClaimedBy(k, c)
  BY <1>1, <1>2
<1>. QED
  BY <1>2 DEF Claim, e

LEMMA ConnectEffect ==
    ASSUME EntriesOK, NEW k \in Connectors, NEW c \in Calls, Connect(k, c)
    PROVE  /\ entry[k][c].pc = "connecting"
           /\ \E answer \in Answers, e \in SoundEntry :
                 /\ Transition(k, c, "connecting", answer)
                 /\ Put(k, c, e)
                 /\ Bare(e)
                 /\ e.pc \in {"dispatch", "idle", "media"}
                 /\ e.pc = "dispatch" => answer = "done"
<1> DEFINE old == entry[k][c]
           on   == [old EXCEPT !.state = "connecting", !.pc = "dispatch"]
           off  == [Finished(old) EXCEPT !.tracked = FALSE]
           fail == [old EXCEPT !.pc = "media"]
<1>1. old \in SoundEntry /\ old.pc = "connecting"
  BY DEF EntriesOK, Connect
<1>2. PICK answer \in Answers :
        /\ Transition(k, c, "connecting", answer)
        /\ Put(k, c, CASE answer = "done" -> on
                       [] answer = "refused" -> off
                       [] answer = "raised" -> fail)
  BY DEF Connect
<1>3. /\ Finished(old) \in SoundEntry /\ Finished(old).pc = "idle"
      /\ Bare(Finished(old))
  BY <1>1, FinishedSound DEF SoundEntry, EntryOK, Bare, Starting
<1>4. on \in SoundEntry /\ on.pc = "dispatch" /\ Bare(on)
  BY <1>1 DEF SoundEntry, Entry, EntryOK, Bare, Starting, Pcs, RowStates
<1>5. off \in SoundEntry /\ off.pc = "idle" /\ Bare(off)
  BY <1>3 DEF SoundEntry, Entry, EntryOK, Bare, Starting
<1>6. fail \in SoundEntry /\ fail.pc = "media" /\ Bare(fail)
  BY <1>1 DEF SoundEntry, Entry, EntryOK, Bare, Starting, Pcs
<1> HIDE DEF on, off, fail
<1>7. \/ answer = "done" /\ Put(k, c, on)
      \/ Put(k, c, off) \/ Put(k, c, fail)
  BY <1>2 DEF Answers
<1>. QED
  BY <1>1, <1>2, <1>4, <1>5, <1>6, <1>7

LEMMA DispatchEffect ==
    ASSUME EntriesOK, NEW k \in Connectors, NEW c \in Calls, Dispatch(k, c)
    PROVE  /\ entry[k][c].pc = "dispatch"
           /\ \E e \in SoundEntry :
                 /\ Put(k, c, e)
                 /\ e.tracked /\ e.media = entry[k][c].media
                 /\ e.pc \in {"attach", "media"}
                 /\ \/ /\ agents' = agents \cup {<<k, c>>}
                       /\ dispatches' = [dispatches EXCEPT ![c] = @ + 1]
                       /\ e.agent \/ "lost" \in Faults
                    \/ UNCHANGED <<agents, dispatches>> /\ e.agent = entry[k][c].agent
<1> DEFINE old == entry[k][c]
           on   == [old EXCEPT !.agent = TRUE, !.pc = "attach"]
           fail == [old EXCEPT !.pc = "media"]
<1>1. old \in SoundEntry /\ old.pc = "dispatch"
  BY DEF EntriesOK, Dispatch
<1>2. on \in Entry /\ fail \in Entry
  BY <1>1 DEF SoundEntry, Entry, Pcs
<1>3. /\ EntryOK(on) /\ on.tracked /\ on.media = old.media
      /\ on.agent /\ on.pc = "attach"
      /\ EntryOK(fail) /\ fail.tracked /\ fail.media = old.media
      /\ fail.agent = old.agent /\ fail.pc = "media"
  BY <1>1 DEF SoundEntry, Entry, EntryOK, Bare, Starting
<1>4. \/ /\ Put(k, c, on)
         /\ agents' = agents \cup {<<k, c>>}
         /\ dispatches' = [dispatches EXCEPT ![c] = @ + 1]
      \/ Put(k, c, fail) /\ UNCHANGED <<agents, dispatches>>
      \/ /\ Put(k, c, fail) /\ "lost" \in Faults
         /\ agents' = agents \cup {<<k, c>>}
         /\ dispatches' = [dispatches EXCEPT ![c] = @ + 1]
  BY DEF Dispatch, Goto
<1> HIDE DEF on, fail
<1>. QED
  BY <1>1, <1>2, <1>3, <1>4 DEF SoundEntry

LEMMA AttachEffect ==
    ASSUME EntriesOK, NEW k \in Connectors, NEW c \in Calls, Attach(k, c)
    PROVE  /\ entry[k][c].pc = "attach"
           /\ \E e \in SoundEntry :
                 /\ Put(k, c, e)
                 /\ e.tracked /\ e.agent = entry[k][c].agent
                 /\ e.pc \in {"activate", "media"}
                 /\ \/ bridges' = bridges \cup {<<k, c>>} /\ e.media
                    \/ UNCHANGED bridges /\ e.media = entry[k][c].media
<1> DEFINE old == entry[k][c]
           on   == [old EXCEPT !.media = TRUE, !.pc = "activate"]
           fail == [old EXCEPT !.pc = "media"]
<1>1. old \in SoundEntry /\ old.pc = "attach"
  BY DEF EntriesOK, Attach
<1>2. on \in Entry /\ fail \in Entry
  BY <1>1 DEF SoundEntry, Entry, Pcs
<1>3. /\ EntryOK(on) /\ on.tracked /\ on.media /\ on.agent = old.agent
      /\ on.pc = "activate"
      /\ EntryOK(fail) /\ fail.tracked /\ fail.media = old.media
      /\ fail.agent = old.agent /\ fail.pc = "media"
  BY <1>1 DEF SoundEntry, Entry, EntryOK, Bare, Starting
<1>4. \/ Put(k, c, on) /\ bridges' = bridges \cup {<<k, c>>}
      \/ Put(k, c, fail) /\ UNCHANGED bridges
  BY DEF Attach, Goto
<1> HIDE DEF on, fail
<1>. QED
  BY <1>1, <1>2, <1>3, <1>4 DEF SoundEntry

LEMMA ActivateBenign ==
    ASSUME EntriesOK, NEW k \in Connectors, NEW c \in Calls, Activate(k, c)
    PROVE  /\ entry[k][c].pc = "activate"
           /\ \E e : Benign(k, c, e)
           /\ \E answer \in Answers : Transition(k, c, "active", answer)
<1> DEFINE old == entry[k][c]
           on   == [Finished(old) EXCEPT !.state = "active", !.timer = TRUE,
                                         !.due = TRUE]
           fail == [old EXCEPT !.pc = "media"]
<1>1. old \in SoundEntry /\ old.pc = "activate"
  BY DEF EntriesOK, Activate
<1>2. Finished(old) \in SoundEntry /\ Finished(old).pc = "idle"
  BY <1>1, FinishedSound
<1>3. on \in Entry /\ fail \in Entry
  BY <1>1, <1>2 DEF SoundEntry, Entry, Pcs, RowStates
<1>4. /\ EntryOK(on) /\ on.pc \notin Starting
      /\ EntryOK(fail) /\ fail.pc \notin Starting
  BY <1>1, <1>2 DEF SoundEntry, Entry, EntryOK, Bare, Starting
<1>5. \A e \in {on, fail} : /\ e.tracked = old.tracked
                            /\ e.agent = old.agent
                            /\ e.media = old.media
  BY <1>1, <1>2, FinishedSound DEF SoundEntry, Entry
<1>6. Put(k, c, on) \/ Put(k, c, fail)
  BY DEF Activate, Goto
<1> HIDE DEF on, fail
<1>7. \E e : Benign(k, c, e)
  BY <1>3, <1>4, <1>5, <1>6 DEF SoundEntry, Benign
<1>. QED
  BY <1>1, <1>7 DEF Activate

LEMMA CloseMediaEffect ==
    ASSUME EntriesOK, NEW k \in Connectors, NEW c \in Calls, CloseMedia(k, c)
    PROVE  \E e \in SoundEntry :
              /\ Put(k, c, e)
              /\ e.tracked = entry[k][c].tracked
              /\ e.agent = entry[k][c].agent
              /\ e.pc = "agent"
              /\ bridges' \subseteq bridges
              /\ bridges \ {<<k, c>>} \subseteq bridges'
              /\ \/ e.media = entry[k][c].media
                 \/ entry[k][c].media /\ bridges' = bridges \ {<<k, c>>}
<1> DEFINE old == entry[k][c]
           shut == [old EXCEPT !.media = FALSE, !.timer = FALSE, !.pc = "agent"]
           fail == [old EXCEPT !.clean = FALSE, !.timer = FALSE, !.pc = "agent"]
<1>1. old \in SoundEntry /\ old.pc = "media"
  BY DEF EntriesOK, CloseMedia
<1>2. shut \in Entry /\ fail \in Entry
  BY <1>1 DEF SoundEntry, Entry, Pcs
<1>3. /\ EntryOK(shut) /\ shut.tracked = old.tracked /\ ~shut.media
      /\ shut.agent = old.agent /\ shut.pc = "agent"
      /\ EntryOK(fail) /\ fail.tracked = old.tracked /\ fail.media = old.media
      /\ fail.agent = old.agent /\ fail.pc = "agent"
  BY <1>1 DEF SoundEntry, Entry, EntryOK, Bare, Starting
<1>4. \/ /\ Put(k, c, shut)
         /\ bridges' = IF old.media THEN bridges \ {<<k, c>>} ELSE bridges
      \/ Put(k, c, fail) /\ bridges' \in {bridges, bridges \ {<<k, c>>}}
  BY DEF CloseMedia
<1>5. old.media \in BOOLEAN /\ shut.media = FALSE
  BY <1>1 DEF SoundEntry, Entry
<1> HIDE DEF shut, fail
<1>. QED
  BY <1>2, <1>3, <1>4, <1>5 DEF SoundEntry

LEMMA CleanedUpSound ==
    ASSUME NEW e \in SoundEntry, e.pc = "agent", e.clean => Bare(e)
    PROVE  /\ CleanedUp(e) \in SoundEntry
           /\ CleanedUp(e).pc \notin Starting
           /\ CleanedUp(e).tracked = e.tracked
           /\ CleanedUp(e).agent = e.agent
           /\ CleanedUp(e).media = e.media
<1> DEFINE pc == AfterCleanup(e.op, e.clean)
           on == [e EXCEPT !.pc = pc]
<1>1. CASE pc = "idle"
  BY <1>1, FinishedSound DEF CleanedUp, Starting
<1>2. CASE pc # "idle"
  <2>1. e.op = "start" => pc = "ending"
    BY DEF AfterCleanup
  <2>2. e.op # "start" => e.clean /\ pc \in {"final", "fallback"}
    BY <1>2 DEF AfterCleanup, SoundEntry, Entry
  <2>3. CleanedUp(e) = on
    BY <1>2 DEF CleanedUp
  <2> HIDE DEF pc
  <2>4. on \in Entry
    BY <2>1, <2>2 DEF SoundEntry, Entry, Pcs
  <2>5. /\ EntryOK(on) /\ on.pc \notin Starting
        /\ on.tracked = e.tracked /\ on.agent = e.agent /\ on.media = e.media
    BY <2>1, <2>2 DEF SoundEntry, Entry, EntryOK, Bare, Starting
  <2> HIDE DEF on
  <2>. QED
    BY <2>3, <2>4, <2>5 DEF SoundEntry
<1>. QED
  BY <1>1, <1>2

LEMMA StopAgentEffect ==
    ASSUME EntriesOK, NEW k \in Connectors, NEW c \in Calls, StopAgent(k, c)
    PROVE  \E e \in SoundEntry :
              /\ Put(k, c, e)
              /\ e.tracked = entry[k][c].tracked
              /\ e.media = entry[k][c].media
              /\ e.pc \notin Starting
              /\ agents' \subseteq agents
              /\ agents \ {<<k, c>>} \subseteq agents'
              /\ \/ e.agent = entry[k][c].agent
                 \/ agents' = agents \ {<<k, c>>}
<1> DEFINE old == entry[k][c]
           off  == [old EXCEPT !.agent = FALSE]
           fail == [old EXCEPT !.clean = FALSE]
<1>1. old \in SoundEntry /\ old.pc = "agent"
  BY DEF EntriesOK, StopAgent
<1>2. /\ off \in SoundEntry /\ off.pc = "agent" /\ (off.clean => Bare(off))
      /\ off.tracked = old.tracked /\ off.media = old.media
  BY <1>1 DEF SoundEntry, Entry, EntryOK, Bare, Starting
<1>3. /\ fail \in SoundEntry /\ fail.pc = "agent" /\ ~fail.clean
      /\ fail.tracked = old.tracked /\ fail.media = old.media
      /\ fail.agent = old.agent
  BY <1>1 DEF SoundEntry, Entry, EntryOK, Bare, Starting
<1> HIDE DEF off, fail
<1>4. CASE ~old.agent /\ Put(k, c, CleanedUp(old)) /\ UNCHANGED agents
  <2>1. old.clean => Bare(old)
    BY <1>1, <1>4 DEF SoundEntry, EntryOK, Bare
  <2>. QED
    BY <1>1, <1>4, <2>1, CleanedUpSound
<1>5. CASE Put(k, c, CleanedUp(off)) /\ agents' = agents \ {<<k, c>>}
  BY <1>2, <1>5, CleanedUpSound
<1>6. CASE /\ Put(k, c, CleanedUp(fail))
           /\ agents' \in {agents, agents \ {<<k, c>>}}
  BY <1>3, <1>6, CleanedUpSound
<1>. QED
  BY <1>4, <1>5, <1>6 DEF StopAgent, off, fail

LEMMA FinaliseEffect ==
    ASSUME EntriesOK, NEW k \in Connectors, NEW c \in Calls, Finalise(k, c)
    PROVE  /\ Bare(entry[k][c]) /\ entry[k][c].pc = "final"
           /\ \E answer \in Answers :
                 Transition(k, c, LastState(entry[k][c].op), answer)
           /\ \/ ProcessEnds(k)
              \/ /\ UNCHANGED bridges
                 /\ \E e \in SoundEntry : /\ Put(k, c, e)
                                          /\ Bare(e) /\ e.pc \notin Starting
<1> DEFINE old == entry[k][c]
           last == LastState(old.op)
           over == [Finished(old) EXCEPT !.state = last, !.tracked = FALSE]
<1>1. old \in SoundEntry /\ old.pc = "final" /\ Bare(old)
  BY DEF EntriesOK, Finalise, SoundEntry, EntryOK
<1>2. /\ Finished(old) \in SoundEntry /\ Finished(old).pc = "idle"
      /\ Bare(Finished(old))
  BY <1>1, FinishedSound DEF Bare
<1>3. last \in {"failed", "ended"}
  BY DEF LastState
<1>4. \/ ProcessEnds(k)
      \/ UNCHANGED bridges /\ (Put(k, c, over) \/ Put(k, c, Finished(old)))
  BY DEF Finalise, Proceed
<1> HIDE DEF last
<1>5. over \in Entry
  BY <1>2, <1>3 DEF SoundEntry, Entry, RowStates
<1>6. EntryOK(over) /\ Bare(over) /\ over.pc = "idle"
  BY <1>2, <1>3 DEF SoundEntry, Entry, EntryOK, Bare, Starting
<1> HIDE DEF over
<1>7. over \in SoundEntry /\ over.pc \notin Starting
      /\ Finished(old).pc \notin Starting
  BY <1>2, <1>5, <1>6 DEF SoundEntry, Starting
<1>8. \E answer \in Answers : Transition(k, c, last, answer)
  BY DEF Finalise, last
<1>. QED
  BY <1>1, <1>2, <1>4, <1>6, <1>7, <1>8 DEF last

-----------------------------------------------------------------------------
(***************************************************************************)
(* The steps of the whole system, sorted by what they disturb.             *)
(***************************************************************************)
LEMMA TransitionEffect ==
    ASSUME NEW k, NEW c, NEW to, NEW answer, Transition(k, c, to, answer)
    PROVE  /\ \/ UNCHANGED row
              \/ Owns(k, c) /\ row' = Moved(c, to)
           /\ answer = "done" => Owns(k, c) /\ row' = Moved(c, to)
BY DEF Transition

BenignStep(k, c, e) ==
    /\ Benign(k, c, e)
    /\ UNCHANGED <<agents, bridges, dispatches>>
    /\ \/ UNCHANGED row
       \/ Owns(k, c) /\ \E to \in {"ending", "active"} : row' = Moved(c, to)

IdleStep ==
    /\ UNCHANGED <<entry, agents, bridges, dispatches>>
    /\ \/ UNCHANGED row
       \/ \E c \in Calls : row' = [row EXCEPT ![c].leased = FALSE]

\* The connector's process ends, alone or in an operation whose transition
\* raised, applied or not.
EndStep(k) ==
    /\ ProcessEnds(k)
    /\ UNCHANGED <<agents, dispatches>>
    /\ \/ UNCHANGED row
       \/ \E c \in Calls, to \in {"ending"} \cup Terminal :
             /\ Owns(k, c) /\ row' = Moved(c, to)
             /\ to \in Terminal =>
                   Bare(entry[k][c]) /\ entry[k][c].pc = "final"

OwnStep(k, c) == \/ Claim(k, c) \/ Connect(k, c) \/ Dispatch(k, c)
                 \/ Attach(k, c) \/ CloseMedia(k, c) \/ StopAgent(k, c)
                 \/ Finalise(k, c) /\ ~ProcessEnds(k)

LEMMA StepKinds ==
    ASSUME EntriesOK, [Next]_vars
    PROVE  \/ \E k \in Connectors, c \in Calls : \E e : BenignStep(k, c, e)
           \/ \E k \in Connectors, c \in Calls : OwnStep(k, c)
           \/ \E k \in Connectors : EndStep(k)
           \/ IdleStep
<1> USE DEF BenignStep, outside, controller
<1>1. ASSUME NEW k \in Connectors, NEW c \in Calls, Claim(k, c) \/ Step(k, c)
      PROVE  OwnStep(k, c) \/ EndStep(k) \/ \E e : BenignStep(k, c, e)
  <2>1. CASE Renew(k, c)
    BY <2>1, RenewBenign DEF Renew
  <2>2. CASE Fallback(k, c)
    BY <2>2, FallbackBenign DEF Fallback
  <2>3. CASE MarkEnding(k, c)
    <3>1. UNCHANGED <<agents, dispatches>>
      BY <2>3 DEF MarkEnding
    <3>2. row' = row \/ (Owns(k, c) /\ row' = Moved(c, "ending"))
      BY <2>3, TransitionEffect DEF MarkEnding
    <3>3. CASE ProcessEnds(k)
      BY <3>1, <3>2, <3>3 DEF EndStep, Terminal
    <3>4. CASE UNCHANGED bridges /\ \E e : Benign(k, c, e)
      BY <3>1, <3>2, <3>4
    <3>. QED
      BY <2>3, <3>3, <3>4, MarkEndingBenign
  <2>4. CASE Activate(k, c)
    BY <2>4, ActivateBenign, TransitionEffect DEF Activate
  <2>5. CASE OwnStep(k, c)
    BY <2>5
  <2>6. CASE Finalise(k, c) /\ ProcessEnds(k)
    <3>1. LastState(entry[k][c].op) \in Terminal
      BY DEF LastState, Terminal
    <3>2. \/ row' = row
          \/ /\ Owns(k, c) /\ row' = Moved(c, LastState(entry[k][c].op))
             /\ Bare(entry[k][c]) /\ entry[k][c].pc = "final"
      BY <2>6, FinaliseEffect, TransitionEffect
    <3>. QED
      BY <2>6, <3>1, <3>2 DEF Finalise, EndStep
  <2>. QED
    BY <1>1, <2>1, <2>2, <2>3, <2>4, <2>5, <2>6 DEF Step, OwnStep
<1>2. ASSUME NEW k \in Connectors, NEW c \in Calls,
             TimerFires(k, c) \/ EndCall(k, c) \/ DrainNext(k, c)
      PROVE  \E e : BenignStep(k, c, e)
  <2>1. CASE TimerFires(k, c)
    BY <2>1, TimerBenign DEF TimerFires
  <2>2. CASE EndCall(k, c)
    BY <2>2, EndCallBenign DEF EndCall
  <2>3. CASE DrainNext(k, c)
    BY <2>3, RequestBenign DEF DrainNext, Ops
  <2>. QED
    BY <1>2, <2>1, <2>2, <2>3
<1>3. ASSUME NEW k \in Connectors, NEW c \in Calls, NEW o \in Ops,
             Begin(k, c, o) \/ BridgeCalls(k, c, o)
      PROVE  \E e : BenignStep(k, c, e)
  <2>1. CASE Begin(k, c, o)
    BY <2>1, BeginBenign DEF Begin
  <2>2. CASE BridgeCalls(k, c, o)
    BY <2>2, RequestBenign DEF BridgeCalls, Ops
  <2>. QED
    BY <1>3, <2>1, <2>2
<1>4. ASSUME \/ \E k \in Connectors, c \in Calls : Join(k, c)
             \/ \E k \in Connectors : Shutdown(k) \/ StartDraining(k) \/ DrainEnd(k)
             \/ \E c \in Calls : Arrive(c) \/ Leave(c) \/ LeaseExpire(c)
             \/ UNCHANGED vars
      PROVE  IdleStep
  BY <1>4 DEF IdleStep, Join, Shutdown, StartDraining, DrainEnd, Arrive, Leave,
              LeaseExpire, vars
<1>5. ASSUME NEW k \in Connectors, Crash(k)
      PROVE  EndStep(k)
  BY <1>5 DEF Crash, EndStep
<1>. QED
  BY <1>1, <1>2, <1>3, <1>4, <1>5 DEF Next, OwnStep

-----------------------------------------------------------------------------
(***************************************************************************)
(* Entries stay sound, and with them everything well typed.                *)
(***************************************************************************)
LEMMA NoEntrySound == NoEntry \in SoundEntry
BY DEF NoEntry, SoundEntry, Entry, EntryOK, Bare, Starting, Pcs, Ops, RowStates

LEMMA EntriesInit == Init => EntriesOK
BY NoEntrySound DEF Init, EntriesOK

LEMMA EntriesStep == EntriesOK /\ [Next]_vars => EntriesOK'
<1> SUFFICES ASSUME EntriesOK, [Next]_vars PROVE EntriesOK'
  OBVIOUS
<1>1. ASSUME NEW k \in Connectors, NEW c \in Calls, NEW e, BenignStep(k, c, e)
      PROVE  EntriesOK'
  BY <1>1, PutOne DEF BenignStep, Benign
<1>2. ASSUME NEW k \in Connectors, NEW c \in Calls, OwnStep(k, c)
      PROVE  EntriesOK'
  <2>1. UNCHANGED entry \/ \E e \in SoundEntry : Put(k, c, e)
    <3>1. CASE Claim(k, c)
      BY <3>1, ClaimEffect
    <3>2. CASE Connect(k, c)
      BY <3>2, ConnectEffect
    <3>3. CASE Dispatch(k, c)
      BY <3>3, DispatchEffect
    <3>4. CASE Attach(k, c)
      BY <3>4, AttachEffect
    <3>5. CASE CloseMedia(k, c)
      BY <3>5, CloseMediaEffect
    <3>6. CASE StopAgent(k, c)
      BY <3>6, StopAgentEffect
    <3>7. CASE Finalise(k, c) /\ ~ProcessEnds(k)
      BY <3>7, FinaliseEffect
    <3>. QED
      BY <1>2, <3>1, <3>2, <3>3, <3>4, <3>5, <3>6, <3>7 DEF OwnStep
  <2>2. CASE UNCHANGED entry
    BY <2>2 DEF EntriesOK
  <2>. QED
    BY <2>1, <2>2, PutOne
<1>3. ASSUME NEW k \in Connectors, EndStep(k)
      PROVE  EntriesOK'
  BY <1>3, NoEntrySound DEF EndStep, ProcessEnds, EntriesOK
<1>4. ASSUME IdleStep
      PROVE  EntriesOK'
  BY <1>4 DEF IdleStep, EntriesOK
<1>. QED
  BY <1>1, <1>2, <1>3, <1>4, StepKinds

LEMMA EntriesSound == Spec => []EntriesOK
<1>. QED
  BY EntriesInit, EntriesStep, PTL DEF Spec

(***************************************************************************)
(* The rest of the type invariant.                                         *)
(***************************************************************************)
WorldTypeOK ==
    /\ row \in [Calls -> Row]
    /\ caller \in [Calls -> {"away", "waiting", "gone"}]
    /\ agents \subseteq Connectors \X Calls
    /\ bridges \subseteq Connectors \X Calls
    /\ dispatches \in [Calls -> Nat]
    /\ claiming \in [Connectors -> SUBSET Calls]
    /\ mode \in [Connectors -> Modes]
    /\ todo \in [Connectors -> SUBSET Calls]
    /\ died \subseteq Connectors

LEMMA MovedType ==
    ASSUME row \in [Calls -> Row], NEW c \in Calls, NEW to \in RowStates
    PROVE  Moved(c, to) \in [Calls -> Row]
<1>1. [row[c] EXCEPT !.state = to] \in Row
  BY DEF Row
<1>2. Moved(c, to) = [row EXCEPT ![c] = [row[c] EXCEPT !.state = to]]
  BY DEF Moved
<1>. QED
  BY <1>1, <1>2

LEMMA ClaimedType ==
    ASSUME row \in [Calls -> Row], NEW k \in Connectors, NEW c \in Calls
    PROVE  ClaimedBy(k, c) \in [Calls -> Row]
<1>1. [state |-> "claimed", owner |-> k, leased |-> TRUE] \in Row
  BY DEF Row, RowStates
<1>. QED
  BY <1>1 DEF ClaimedBy

LEMMA TransitionType ==
    ASSUME row \in [Calls -> Row], NEW k, NEW c \in Calls, NEW to \in RowStates,
           NEW answer, Transition(k, c, to, answer)
    PROVE  row' \in [Calls -> Row]
BY MovedType, TransitionEffect

LEMMA ProcessEndsType ==
    ASSUME WorldTypeOK, NEW k \in Connectors, ProcessEnds(k)
    PROVE  /\ bridges' \subseteq Connectors \X Calls
           /\ claiming' \in [Connectors -> SUBSET Calls]
           /\ mode' \in [Connectors -> Modes]
           /\ todo' \in [Connectors -> SUBSET Calls]
           /\ died' \subseteq Connectors
BY DEF ProcessEnds, WorldTypeOK, Modes

LEMMA ProceedType ==
    ASSUME WorldTypeOK, NEW k \in Connectors, NEW c \in Calls,
           NEW answer, NEW e, Proceed(k, c, answer, e)
    PROVE  /\ bridges' \subseteq Connectors \X Calls
           /\ claiming' \in [Connectors -> SUBSET Calls]
           /\ mode' \in [Connectors -> Modes]
           /\ todo' \in [Connectors -> SUBSET Calls]
           /\ died' \subseteq Connectors
<1>1. CASE UNCHANGED <<bridges, controller, died>>
  BY <1>1 DEF WorldTypeOK, controller
<1>2. CASE /\ mode' = [mode EXCEPT ![k] = "incomplete"]
           /\ todo' = [todo EXCEPT ![k] = {}]
           /\ UNCHANGED <<bridges, claiming, died>>
  BY <1>2 DEF WorldTypeOK, Modes
<1>. QED
  BY <1>1, <1>2, ProcessEndsType DEF Proceed

LEMMA StepType ==
    ASSUME WorldTypeOK, NEW k \in Connectors, NEW c \in Calls, Step(k, c)
    PROVE  WorldTypeOK'
<1>1. CASE Connect(k, c)
  BY <1>1, TransitionType DEF Connect, WorldTypeOK, controller, RowStates
<1>2. CASE Dispatch(k, c)
  BY <1>2 DEF Dispatch, WorldTypeOK, controller
<1>3. CASE Attach(k, c)
  BY <1>3 DEF Attach, WorldTypeOK, controller
<1>4. CASE Activate(k, c)
  BY <1>4, TransitionType DEF Activate, WorldTypeOK, controller, RowStates
<1>5. CASE Renew(k, c)
  BY <1>5 DEF Renew, WorldTypeOK, controller, outside
<1>6. CASE MarkEnding(k, c)
  <2>1. "ending" \in RowStates
    BY DEF RowStates
  <2>2. row' \in [Calls -> Row]
    BY <1>6, <2>1, TransitionType DEF MarkEnding, WorldTypeOK
  <2>3. \E answer, e : Proceed(k, c, answer, e)
    BY <1>6 DEF MarkEnding
  <2>. QED
    BY <1>6, <2>2, <2>3, ProceedType DEF MarkEnding, WorldTypeOK
<1>7. CASE CloseMedia(k, c)
  BY <1>7 DEF CloseMedia, WorldTypeOK, controller
<1>8. CASE StopAgent(k, c)
  BY <1>8 DEF StopAgent, WorldTypeOK, controller
<1>9. CASE Fallback(k, c)
  BY <1>9 DEF Fallback, WorldTypeOK, controller
<1>10. CASE Finalise(k, c)
  <2>1. LastState(entry[k][c].op) \in RowStates
    BY DEF LastState, RowStates
  <2>2. row' \in [Calls -> Row]
    BY <1>10, <2>1, TransitionType DEF Finalise, WorldTypeOK
  <2>3. \E answer, e : Proceed(k, c, answer, e)
    BY <1>10 DEF Finalise
  <2>. QED
    BY <1>10, <2>2, <2>3, ProceedType DEF Finalise, WorldTypeOK
<1>. QED
  BY <1>1, <1>2, <1>3, <1>4, <1>5, <1>6, <1>7, <1>8, <1>9, <1>10 DEF Step

LEMMA CallEventType ==
    ASSUME WorldTypeOK, NEW k \in Connectors, NEW c \in Calls,
           \/ Join(k, c) \/ Claim(k, c) \/ TimerFires(k, c) \/ EndCall(k, c)
           \/ DrainNext(k, c)
           \/ \E o \in Ops : Begin(k, c, o) \/ BridgeCalls(k, c, o)
    PROVE  WorldTypeOK'
<1>1. CASE Join(k, c)
  BY <1>1 DEF Join, WorldTypeOK, outside
<1>2. CASE Claim(k, c)
  BY <1>2, ClaimedType DEF Claim, WorldTypeOK
<1>3. CASE TimerFires(k, c)
  BY <1>3 DEF TimerFires, WorldTypeOK, outside, controller
<1>4. CASE EndCall(k, c)
  BY <1>4 DEF EndCall, WorldTypeOK, outside, controller
<1>5. CASE DrainNext(k, c)
  BY <1>5 DEF DrainNext, WorldTypeOK, outside
<1>6. CASE \E o \in Ops : Begin(k, c, o) \/ BridgeCalls(k, c, o)
  BY <1>6 DEF Begin, BridgeCalls, WorldTypeOK, outside, controller
<1>. QED
  BY <1>1, <1>2, <1>3, <1>4, <1>5, <1>6

LEMMA ConnectorType ==
    ASSUME WorldTypeOK, NEW k \in Connectors,
           Shutdown(k) \/ StartDraining(k) \/ DrainEnd(k) \/ Crash(k)
    PROVE  WorldTypeOK'
<1>1. CASE Shutdown(k)
  BY <1>1 DEF Shutdown, WorldTypeOK, outside, Modes
<1>2. CASE StartDraining(k)
  BY <1>2 DEF StartDraining, WorldTypeOK, outside, Modes
<1>3. CASE DrainEnd(k)
  BY <1>3 DEF DrainEnd, WorldTypeOK, outside, Modes
<1>4. CASE Crash(k)
  BY <1>4, ProcessEndsType DEF Crash, WorldTypeOK
<1>. QED
  BY <1>1, <1>2, <1>3, <1>4

LEMMA CallerType ==
    ASSUME WorldTypeOK, NEW c \in Calls,
           Arrive(c) \/ Leave(c) \/ LeaseExpire(c)
    PROVE  WorldTypeOK'
<1>1. CASE Arrive(c) \/ Leave(c)
  BY <1>1 DEF Arrive, Leave, WorldTypeOK, controller
<1>2. CASE LeaseExpire(c)
  <2>1. [row[c] EXCEPT !.leased = FALSE] \in Row
    BY DEF WorldTypeOK, Row
  <2>2. row' = [row EXCEPT ![c] = [row[c] EXCEPT !.leased = FALSE]]
    BY <1>2 DEF LeaseExpire
  <2>. QED
    BY <1>2, <2>1, <2>2 DEF LeaseExpire, WorldTypeOK, controller
<1>. QED
  BY <1>1, <1>2

LEMMA WorldTypeInit == Init => WorldTypeOK
BY CallAssumption DEF Init, WorldTypeOK, Row, Modes

LEMMA WorldTypeStep == WorldTypeOK /\ [Next]_vars => WorldTypeOK'
<1>1. WorldTypeOK /\ UNCHANGED vars => WorldTypeOK'
  BY DEF WorldTypeOK, vars, outside, controller
<1>. QED
  BY <1>1, StepType, CallEventType, ConnectorType, CallerType DEF Next

(***************************************************************************)
(* Every reachable state is well typed, and an operation is at a step of   *)
(* its own exactly while it holds the call's lock.                         *)
(***************************************************************************)
THEOREM CallsTypeCorrect == Spec => []CallTypeOK
<1>1. Spec => []WorldTypeOK
  BY WorldTypeInit, WorldTypeStep, PTL DEF Spec
<1>2. WorldTypeOK /\ EntriesOK => CallTypeOK
  BY DEF WorldTypeOK, EntriesOK, CallTypeOK, SoundEntry, EntryOK
<1>. QED
  BY <1>1, <1>2, EntriesSound, PTL

-----------------------------------------------------------------------------
(***************************************************************************)
(* One agent per call.  Before its dispatch a call has had none, and the   *)
(* claim has put one connector alone on the way to it.                     *)
(***************************************************************************)
LEMMA DispatchFrame ==
    ASSUME EntriesOK, DispatchInv, NEW k \in Connectors, NEW c \in Calls,
           NEW e, Put(k, c, e),
           e.pc \in Early => entry[k][c].pc \in Early,
           e.pc \in Starting => entry[k][c].pc \in Starting,
           UNCHANGED dispatches,
           \A d \in Calls : row'[d].state = "absent" => row'[d] = row[d]
    PROVE  DispatchInv'
<1>1. \A j \in Connectors, d \in Calls :
         /\ entry'[j][d].pc \in Early => entry[j][d].pc \in Early
         /\ entry'[j][d].pc \in Starting => entry[j][d].pc \in Starting
  BY PutOne
<1>. QED
  BY <1>1 DEF DispatchInv, Unclaimed, Undispatched

LEMMA DispatchIdle ==
    ASSUME WorldTypeOK, DispatchInv, IdleStep
    PROVE  DispatchInv'
<1>1. \A d \in Calls : /\ row'[d].state = row[d].state
                       /\ row'[d].owner = row[d].owner
  BY DEF IdleStep, WorldTypeOK, Row
<1>. QED
  BY <1>1 DEF IdleStep, DispatchInv, Unclaimed, Undispatched

LEMMA MovedFrame ==
    ASSUME WorldTypeOK, NEW c \in Calls, NEW to \in RowStates
    PROVE  /\ \A d \in Calls : d # c => Moved(c, to)[d] = row[d]
           /\ Moved(c, to)[c].state = to
           /\ Moved(c, to)[c].owner = row[c].owner
           /\ to # "absent"
BY DEF WorldTypeOK, Row, Moved, RowStates

LEMMA DispatchClaim ==
    ASSUME WorldTypeOK, EntriesOK, DispatchInv,
           NEW k \in Connectors, NEW c \in Calls, Claim(k, c)
    PROVE  DispatchInv'
<1>1. dispatches' = dispatches
  BY DEF Claim
<1>2. CASE UNCHANGED entry
  <2>1. row' = row \/ row' = ClaimedBy(k, c)
    BY DEF Claim
  <2>2. \A d \in Calls : row'[d].state = "absent" => row'[d] = row[d]
    BY <2>1 DEF ClaimedBy, WorldTypeOK
  <2>. QED
    BY <1>1, <1>2, <2>2 DEF DispatchInv, Unclaimed, Undispatched
<1>3. ASSUME row[c].state = "absent", row' = ClaimedBy(k, c),
             NEW e, Put(k, c, e), e.pc = "connecting"
      PROVE  DispatchInv'
  <2>1. /\ dispatches[c] = 0
        /\ \A j \in Connectors : entry[j][c].pc \notin Starting
    BY <1>3 DEF DispatchInv, Unclaimed
  <2>2. /\ row'[c].state = "claimed"
        /\ \A d \in Calls : d # c => row'[d] = row[d]
    BY <1>3 DEF ClaimedBy, WorldTypeOK
  <2>3. /\ \A j \in Connectors : j # k => entry'[j][c] = entry[j][c]
        /\ \A j \in Connectors, d \in Calls : d # c => entry'[j][d] = entry[j][d]
    BY <1>3, PutOne
  <2>4. \A d \in Calls : Unclaimed(d)'
    BY <1>1, <2>2, <2>3 DEF DispatchInv, Unclaimed
  <2>5. \A d \in Calls : Undispatched(d)'
    BY <1>1, <2>1, <2>3 DEF DispatchInv, Undispatched, Early, Starting
  <2>. QED
    BY <1>1, <2>4, <2>5 DEF DispatchInv
<1>. QED
  BY <1>2, <1>3, ClaimEffect

LEMMA DispatchDispatch ==
    ASSUME WorldTypeOK, EntriesOK, DispatchInv,
           NEW k \in Connectors, NEW c \in Calls, Dispatch(k, c)
    PROVE  DispatchInv'
<1>1. PICK e \in SoundEntry :
        /\ Put(k, c, e)
        /\ e.pc \in {"attach", "media"}
        /\ \/ dispatches' = [dispatches EXCEPT ![c] = @ + 1]
           \/ UNCHANGED dispatches
  BY DispatchEffect
<1>2. entry[k][c].pc = "dispatch" /\ row' = row
  BY DEF Dispatch
<1>3. /\ entry'[k][c].pc \notin Early
      /\ \A j \in Connectors : j # k => entry'[j][c] = entry[j][c]
      /\ \A j \in Connectors, d \in Calls : d # c => entry'[j][d] = entry[j][d]
  BY <1>1, PutOne DEF Early
<1>4. /\ dispatches[c] = 0 /\ row[c].state # "absent"
      /\ \A j \in Connectors : entry[j][c].pc \in Early => j = k
  BY <1>2 DEF DispatchInv, Undispatched, Unclaimed, Early, Starting
<1>5. \A j \in Connectors : entry'[j][c].pc \notin Early
  BY <1>3, <1>4
<1>6. dispatches'[c] \in {0, 1} /\ \A d \in Calls : d # c => dispatches'[d] = dispatches[d]
  BY <1>1, <1>4 DEF WorldTypeOK
<1>7. \A d \in Calls : dispatches'[d] <= 1
  BY <1>6 DEF DispatchInv
<1>8. \A d \in Calls : Unclaimed(d)'
  BY <1>2, <1>3, <1>4, <1>6 DEF DispatchInv, Unclaimed
<1>9. \A d \in Calls : Undispatched(d)'
  BY <1>3, <1>5, <1>6 DEF DispatchInv, Undispatched
<1>. QED
  BY <1>7, <1>8, <1>9 DEF DispatchInv

LEMMA DispatchStep ==
    WorldTypeOK /\ EntriesOK /\ DispatchInv /\ [Next]_vars => DispatchInv'
<1> SUFFICES ASSUME WorldTypeOK, EntriesOK, DispatchInv, [Next]_vars
             PROVE  DispatchInv'
  OBVIOUS
<1>1. ASSUME NEW k \in Connectors, NEW c \in Calls, NEW e, BenignStep(k, c, e)
      PROVE  DispatchInv'
  <2>1. \A d \in Calls : row'[d].state = "absent" => row'[d] = row[d]
    BY <1>1, MovedFrame DEF BenignStep, RowStates
  <2>2. /\ e.pc \in Early => entry[k][c].pc \in Early
        /\ e.pc \in Starting => entry[k][c].pc \in Starting
    BY <1>1 DEF BenignStep, Benign, Early, Starting
  <2>. QED
    BY <1>1, <2>1, <2>2, DispatchFrame DEF BenignStep, Benign
<1>2. ASSUME NEW k \in Connectors, NEW c \in Calls, Connect(k, c)
      PROVE  DispatchInv'
  <2>1. PICK answer \in Answers, e \in SoundEntry :
          /\ Transition(k, c, "connecting", answer)
          /\ Put(k, c, e)
    BY <1>2, ConnectEffect
  <2>2. entry[k][c].pc = "connecting" /\ UNCHANGED dispatches
    BY <1>2 DEF Connect
  <2>3. \A d \in Calls : row'[d].state = "absent" => row'[d] = row[d]
    BY <2>1, MovedFrame, TransitionEffect DEF RowStates
  <2>. QED
    BY <2>1, <2>2, <2>3, DispatchFrame DEF Early, Starting
<1>3. ASSUME NEW k \in Connectors, NEW c \in Calls, Attach(k, c)
      PROVE  DispatchInv'
  <2>1. PICK e \in SoundEntry : Put(k, c, e) /\ e.pc \in {"activate", "media"}
    BY <1>3, AttachEffect
  <2>2. entry[k][c].pc = "attach" /\ UNCHANGED <<row, dispatches>>
    BY <1>3 DEF Attach
  <2>. QED
    BY <2>1, <2>2, DispatchFrame DEF Early, Starting
<1>4. ASSUME NEW k \in Connectors, NEW c \in Calls,
             CloseMedia(k, c) \/ StopAgent(k, c)
      PROVE  DispatchInv'
  <2>1. PICK e \in SoundEntry : Put(k, c, e) /\ e.pc \notin Starting
    BY <1>4, CloseMediaEffect, StopAgentEffect DEF Starting
  <2>2. UNCHANGED <<row, dispatches>>
    BY <1>4 DEF CloseMedia, StopAgent
  <2>. QED
    BY <2>1, <2>2, DispatchFrame DEF Early, Starting
<1>5. ASSUME NEW k \in Connectors, NEW c \in Calls, Finalise(k, c), ~ProcessEnds(k)
      PROVE  DispatchInv'
  <2>1. PICK e \in SoundEntry : Put(k, c, e) /\ e.pc \notin Starting
    BY <1>5, FinaliseEffect
  <2>2. UNCHANGED dispatches
    BY <1>5 DEF Finalise
  <2>3. LastState(entry[k][c].op) \in RowStates
    BY DEF LastState, RowStates
  <2>4. \A d \in Calls : row'[d].state = "absent" => row'[d] = row[d]
    BY <1>5, <2>3, FinaliseEffect, MovedFrame, TransitionEffect
  <2>. QED
    BY <2>1, <2>2, <2>4, DispatchFrame DEF Early, Starting
<1>6. ASSUME NEW k \in Connectors, EndStep(k)
      PROVE  DispatchInv'
  <2>1. \A j \in Connectors, d \in Calls :
           entry'[j][d] = entry[j][d] \/ entry'[j][d].pc = "idle"
    BY <1>6 DEF EndStep, ProcessEnds, EntriesOK, NoEntry
  <2>2. UNCHANGED dispatches
    BY <1>6 DEF EndStep
  <2>3. \A d \in Calls : row'[d].state = "absent" => row'[d] = row[d]
    BY <1>6, MovedFrame DEF EndStep, RowStates, Terminal
  <2>. QED
    BY <2>1, <2>2, <2>3 DEF DispatchInv, Unclaimed, Undispatched, Early, Starting
<1>. QED
  BY <1>1, <1>2, <1>3, <1>4, <1>5, <1>6, DispatchClaim, DispatchDispatch,
     DispatchIdle, StepKinds DEF OwnStep

LEMMA DispatchInit == Init => DispatchInv
BY DEF Init, DispatchInv, Unclaimed, Undispatched, NoEntry, Early, Starting

(***************************************************************************)
(* A call gets at most one agent: the row is inserted once, its claimant   *)
(* is the only connector to start the call, and it starts it once.         *)
(***************************************************************************)
THEOREM OneAgentPerCall == Spec => []OneDispatch
<1>1. Spec => []WorldTypeOK
  BY WorldTypeInit, WorldTypeStep, PTL DEF Spec
<1>2. Spec => []DispatchInv
  BY <1>1, EntriesSound, DispatchInit, DispatchStep, PTL DEF Spec
<1>3. DispatchInv => OneDispatch
  BY DEF DispatchInv, OneDispatch
<1>. QED
  BY <1>2, <1>3, PTL

-----------------------------------------------------------------------------
(***************************************************************************)
(* The claim of a call is for life: every change of a row is a claim of an *)
(* absent call, a legal transition by its owner, or the end of its lease.  *)
(***************************************************************************)
RowKept(c) == /\ row[c].state # "absent" => row'[c].owner = row[c].owner
              /\ row[c].state \in Terminal => row'[c].state = row[c].state

LEMMA TransitionKeeps ==
    ASSUME WorldTypeOK, NEW k, NEW c \in Calls, NEW to \in RowStates,
           NEW answer, Transition(k, c, to, answer)
    PROVE  \A d \in Calls : RowKept(d)
<1>1. CASE UNCHANGED row
  BY <1>1 DEF RowKept
<1>2. CASE ~UNCHANGED row
  <2>1. /\ row' = Moved(c, to) /\ Owns(k, c)
        /\ to \in Transitions[row[c].state]
    BY <1>2 DEF Transition, Owns
  <2>2. row[c].state \notin Terminal
    BY <2>1 DEF Transitions, RowStates, Terminal
  <2>. QED
    BY <2>1, <2>2, MovedFrame DEF RowKept
<1>. QED
  BY <1>1, <1>2

LEMMA RowsKept ==
    ASSUME WorldTypeOK, [Next]_vars
    PROVE  \A d \in Calls : RowKept(d)
<1>1. ASSUME UNCHANGED row
      PROVE  \A d \in Calls : RowKept(d)
  BY <1>1 DEF RowKept
<1>2. ASSUME NEW k \in Connectors, NEW c \in Calls, Claim(k, c)
      PROVE  \A d \in Calls : RowKept(d)
  <2>1. row' = row \/ (row[c].state = "absent" /\ row' = ClaimedBy(k, c))
    BY <1>2 DEF Claim
  <2>. QED
    BY <2>1, <1>1 DEF ClaimedBy, RowKept, WorldTypeOK, Terminal
<1>3. ASSUME NEW c \in Calls, LeaseExpire(c)
      PROVE  \A d \in Calls : RowKept(d)
  BY <1>3 DEF LeaseExpire, RowKept, WorldTypeOK, Row
<1>4. ASSUME NEW k \in Connectors, NEW c \in Calls, Step(k, c)
      PROVE  \A d \in Calls : RowKept(d)
  <2>1. CASE UNCHANGED row
    BY <2>1, <1>1
  <2>2. CASE \E to \in RowStates, answer \in Answers : Transition(k, c, to, answer)
    BY <2>2, TransitionKeeps
  <2>3. /\ LastState(entry[k][c].op) \in RowStates
        /\ {"connecting", "active", "ending"} \subseteq RowStates
    BY DEF LastState, RowStates
  <2>. QED
    BY <1>4, <2>1, <2>2, <2>3
       DEF Step, Connect, Dispatch, Attach, Activate, Renew, MarkEnding,
           CloseMedia, StopAgent, Fallback, Finalise, outside
<1>5. ASSUME NEW k \in Connectors, NEW c \in Calls,
             \/ Join(k, c) \/ TimerFires(k, c) \/ EndCall(k, c) \/ DrainNext(k, c)
             \/ \E o \in Ops : Begin(k, c, o) \/ BridgeCalls(k, c, o)
      PROVE  UNCHANGED row
  BY <1>5 DEF Join, TimerFires, EndCall, DrainNext, Begin, BridgeCalls, outside
<1>6. ASSUME \/ UNCHANGED vars
             \/ \E c \in Calls : Arrive(c) \/ Leave(c)
             \/ \E k \in Connectors : \/ Shutdown(k) \/ StartDraining(k)
                                      \/ DrainEnd(k) \/ Crash(k)
      PROVE  UNCHANGED row
  BY <1>6 DEF Arrive, Leave, Shutdown, StartDraining, DrainEnd, Crash, vars, outside
<1>. QED
  BY <1>1, <1>2, <1>3, <1>4, <1>5, <1>6 DEF Next

(***************************************************************************)
(* A claim is never passed on and a closed call is never opened again.     *)
(***************************************************************************)
THEOREM ClaimKept == Spec => ClaimIsForLife
<1>1. Spec => []WorldTypeOK
  BY WorldTypeInit, WorldTypeStep, PTL DEF Spec
<1> DEFINE Kept == \A c \in Calls :
             /\ row[c].state # "absent" => row'[c].owner = row[c].owner
             /\ row[c].state \in Terminal => row'[c].state = row[c].state
<1>2. WorldTypeOK /\ [Next]_vars => [Kept]_vars
  BY RowsKept DEF RowKept
<1>. QED
  BY <1>1, <1>2, PTL DEF Spec, ClaimIsForLife
=============================================================================
