---------------------------- MODULE RuntimeProofs ----------------------------
(***************************************************************************)
(* Theorems about TenantRuntime and the EventAdapter in it, for any finite *)
(* set of calls and any participant numbers.                               *)
(***************************************************************************)
EXTENDS TenantRuntime, FiniteSetTheorems, SequenceTheorems, TLAPS

-----------------------------------------------------------------------------
(***************************************************************************)
(* The owner's part: where start() and shutdown() are, and that until the  *)
(* lease is acquired nothing has happened.                                 *)
(***************************************************************************)
Untouched ==
    /\ link = "off" /\ ~listening /\ ~everConnected
    /\ runtime = "none" /\ step \in {"none", "acquire"}

StepsFollowStates ==
    /\ lease = "none" => Untouched
    /\ lease # "none" => step # "acquire" /\ broker # "idle"
    /\ lease = "released" => step = "none"
    /\ runtime \in {"starting", "running", "draining", "failed"} => lease = "held"
    /\ step = "none" <=> broker \notin {"starting", "stopping"}
    /\ step \in {"acquire", "connect"} => broker = "starting"
    /\ step = "connect" => runtime = "starting"
    /\ broker = "running" => runtime = "running"
    /\ step \in {"drain", "disconnect"} => stopping /\ runtime \in {"starting", "running", "draining"}
    /\ step = "release" => runtime \in IF Starting THEN {"draining", "failed"}
                                       ELSE {"none", "stopped", "abandoned"}

\* Once the controller has drained and left no call behind, none comes.
Sealed == stopping /\ task.at # "join" /\ Held = {}

DrainedIsSealed ==
    step = "disconnect" \/ runtime \in {"stopped", "failed"} \/ (runtime = "none" /\ lease # "none")
    => Sealed

-----------------------------------------------------------------------------
(***************************************************************************)
(* The adapter's part: which call each of its records is about.            *)
(***************************************************************************)
Taken(c) == task.at \in {"resolve", "join"} /\ task.call = c
Ending(c) == task.at = "end" /\ task.call = c

NumbersAreGiven ==
    /\ \A c \in Calls : /\ leg[c] = "none" <=> number[c] = None
                        /\ leg[c] = "none" => served[c] = "unknown" /\ ~Taken(c) /\ c \notin task.fresh
    /\ \A n \in 1..Len(queue) : queue[n].op = "join" => leg[queue[n].call] # "none"

TaskIsOfACall ==
    /\ task.at \in {"resolve", "join", "end"} => task.call \in Calls
    /\ task.at = "resolve" => byCall[task.call] = None
    /\ task.at = "join" => /\ byCall[task.call] = number[task.call]
                           /\ byId[number[task.call]] = task.call
                           /\ served[task.call] = "active" => Reused(task.call)
    /\ task.at = "end" => task.id \in Ids /\ byId[task.id] = task.call
    /\ task.at = "purge" => \A c \in task.stale : byCall[c] # None

TrackedIsKnown ==
    \A c \in Calls : byCall[c] # None =>
        byCall[c] = number[c] /\ (served[c] # "unknown" \/ Taken(c))

\* The first connection finds everything as it was at the start.
Fresh == task = Idle /\ \A c \in Calls : served[c] = "unknown" /\ byCall[c] = None

FirstConnectsFirst ==
    /\ ~everConnected => Fresh /\ queue = <<>>
    /\ listening /\ link = "up" => everConnected
    /\ \A n \in 1..Len(queue) : queue[n].op = "connected" /\ queue[n].first => n = 1 /\ Fresh

\* A connected event is of a connection that has been made.
EpochsArePast ==
    \A n \in 1..Len(queue) : queue[n].op = "connected" => queue[n].epoch <= epoch

\* A snapshot's calls are in the hands of a reconciliation.
SnapshotInHand ==
    /\ task.fresh # {} => task.reconciling /\ task.at \in {"purge", "admit", "resolve", "join"}
    /\ task.at = "snapshot" => task.reconciling

-----------------------------------------------------------------------------
(***************************************************************************)
(* What brings the controller up to date with the PBX: the intake is cut   *)
(* off, or the reconnection is queued and will reconcile, or the event is  *)
(* queued, or an operation is about it.                                    *)
(***************************************************************************)
Cut == ~listening \/ link # "up"
Reconnects(n) == queue[n].op = "connected" /\ queue[n].epoch = epoch /\ ~queue[n].first
Ends(n, c) == queue[n].op = "end" /\ queue[n].id = number[c]
Joins(n, c) == queue[n].op = "join" /\ queue[n].call = c

EndIsComing(c, n) == Cut \/ \E m \in 1..Len(queue) : m > n /\ (Reconnects(m) \/ Ends(m, c))
Departed(c) == leg[c] = "gone" /\ ~Reused(c)
Closed == ~accepting /\ task.at # "purge"

ReconcilingIsClosed == task.at \in {"snapshot", "purge"} => ~accepting

DeparturesArrive ==
    \A c \in Calls : Departed(c) =>
        /\ served[c] = "active" =>
              EndIsComing(c, 0) \/ Ending(c) \/ (task.at = "purge" /\ c \in task.stale) \/ Closed
        /\ Taken(c) \/ c \in task.fresh => EndIsComing(c, 0)
        /\ \A n \in 1..Len(queue) : Joins(n, c) => EndIsComing(c, n)

JoinIsComing(c) == \E n \in 1..Len(queue) : Joins(n, c)
Overlooked(c) == leg[c] = "up" /\ served[c] = "unknown" /\ c \notin turnedAway

ArrivalsArrive ==
    \A c \in Calls : Overlooked(c) =>
        /\ \/ Cut \/ \E n \in 1..Len(queue) : Reconnects(n)
           \/ JoinIsComing(c) \/ Taken(c) \/ c \in task.fresh \/ Closed
        /\ \A n \in 1..Len(queue) :
              queue[n].op = "connected" /\ queue[n].epoch = epoch /\ queue[n].first
              => Cut \/ JoinIsComing(c)

AdapterInv ==
    /\ AdapterTypeOK /\ NumbersAreGiven /\ TaskIsOfACall /\ TrackedIsKnown /\ ServedIsTracked
    /\ FirstConnectsFirst /\ EpochsArePast /\ SnapshotInHand /\ ReconcilingIsClosed
    /\ DeparturesArrive /\ ArrivalsArrive

RuntimeInv ==
    /\ AdapterInv /\ RuntimeTypeOK
    /\ StepsFollowStates /\ DrainedIsSealed

-----------------------------------------------------------------------------
(***************************************************************************)
(* The queue: an operation is taken from its head, events are added.       *)
(***************************************************************************)
LEMMA EventKinds ==
    ASSUME NEW e \in Event
    PROVE  \/ e.op = "connected" /\ e.epoch \in Nat /\ e.first \in BOOLEAN
           \/ e.op = "join" /\ e.call \in Calls
           \/ e.op = "end" /\ e.id \in Ids
BY DEF Event

LEMMA Dequeued ==
    ASSUME AdapterTypeOK, NEW op, Next1(op)
    PROVE  /\ task = Idle /\ queue[1] \in Event /\ queue[1].op = op /\ Head(queue) = queue[1]
           /\ queue' \in Seq(Event) /\ Len(queue) \in Nat /\ Len(queue) >= 1
           /\ Len(queue') = Len(queue) - 1
           /\ \A n \in 1..Len(queue') : queue'[n] = queue[n + 1]
BY DEF AdapterTypeOK, Next1

LEMMA Enqueued ==
    ASSUME AdapterTypeOK, NEW s \in Seq(Event), queue' = queue \o s
    PROVE  /\ queue' \in Seq(Event) /\ Len(queue) \in Nat /\ Len(s) \in Nat
           /\ Len(queue') = Len(queue) + Len(s)
           /\ \A n \in 1..Len(queue) : queue'[n] = queue[n]
           /\ \A n \in 1..Len(s) : queue'[Len(queue) + n] = s[n]
BY DEF AdapterTypeOK

\* What was to come still comes, when an operation is taken ...
LEMMA TakingKeeps ==
    ASSUME AdapterTypeOK, NEW op, Next1(op), UNCHANGED <<epoch, listening, link>>,
           NEW c \in Calls, number'[c] = number[c]
    PROVE  /\ \A n \in 1..Len(queue') : EndIsComing(c, n + 1) => EndIsComing(c, n)'
           /\ EndIsComing(c, 1) => EndIsComing(c, 0)'
           /\ EndIsComing(c, 0) => EndIsComing(c, 0)' \/ Reconnects(1) \/ Ends(1, c)
           /\ JoinIsComing(c) => JoinIsComing(c)' \/ Joins(1, c)
           /\ \A n \in 1..Len(queue') : Joins(n, c)' => Joins(n + 1, c)
           /\ (\E n \in 1..Len(queue) : Reconnects(n))
              => Reconnects(1) \/ \E n \in 1..Len(queue') : Reconnects(n)'
<1>1. /\ Len(queue) \in Nat /\ Len(queue) >= 1 /\ Len(queue') = Len(queue) - 1
      /\ \A n \in 1..Len(queue') : queue'[n] = queue[n + 1]
  BY Dequeued
<1>2. \A n \in 1..Len(queue') : /\ Reconnects(n)' <=> Reconnects(n + 1)
                                /\ Ends(n, c)' <=> Ends(n + 1, c)
                                /\ Joins(n, c)' <=> Joins(n + 1, c)
  BY <1>1 DEF Reconnects, Ends, Joins
<1>3. \A m \in 1..Len(queue) : m > 1 => m - 1 \in 1..Len(queue') /\ (m - 1) + 1 = m
  BY <1>1
<1>4. ASSUME NEW k \in Nat, EndIsComing(c, k + 1) PROVE EndIsComing(c, k)'
  <2>1. CASE Cut
    BY <2>1 DEF EndIsComing, Cut
  <2>2. CASE ~Cut
    <3>1. PICK m \in 1..Len(queue) : m > k + 1 /\ (Reconnects(m) \/ Ends(m, c))
      BY <1>4, <2>2 DEF EndIsComing
    <3>2. m - 1 \in 1..Len(queue') /\ m - 1 > k /\ (Reconnects(m - 1) \/ Ends(m - 1, c))'
      BY <1>2, <1>3, <3>1
    <3>. QED BY <3>2 DEF EndIsComing
  <2>. QED BY <2>1, <2>2
<1>5. ASSUME EndIsComing(c, 0), ~Reconnects(1), ~Ends(1, c) PROVE EndIsComing(c, 0)'
  <2>1. EndIsComing(c, 1)
    BY <1>1, <1>5 DEF EndIsComing
  <2>. QED BY <1>4, <2>1
<1>6. ASSUME JoinIsComing(c), ~Joins(1, c) PROVE JoinIsComing(c)'
  <2>1. PICK m \in 1..Len(queue) : Joins(m, c) /\ m > 1
    BY <1>1, <1>6 DEF JoinIsComing
  <2>2. m - 1 \in 1..Len(queue') /\ Joins(m - 1, c)'
    BY <1>2, <1>3, <2>1
  <2>. QED BY <2>2 DEF JoinIsComing
<1>7. ASSUME NEW m \in 1..Len(queue), Reconnects(m), ~Reconnects(1)
      PROVE  \E n \in 1..Len(queue') : Reconnects(n)'
  <2>1. m - 1 \in 1..Len(queue') /\ Reconnects(m - 1)'
    BY <1>1, <1>2, <1>3, <1>7
  <2>. QED BY <2>1
<1>8. \A n \in 1..Len(queue') : n \in Nat
  BY <1>1
<1>. QED
  BY <1>2, <1>4, <1>5, <1>6, <1>7, <1>8

\* ... and when events are added.
LEMMA AddingKeeps ==
    ASSUME AdapterTypeOK, NEW s \in Seq(Event), queue' = queue \o s,
           UNCHANGED <<epoch, listening, link>>, NEW c \in Calls, number'[c] = number[c]
    PROVE  /\ \A n \in 0..Len(queue) : EndIsComing(c, n) => EndIsComing(c, n)'
           /\ JoinIsComing(c) => JoinIsComing(c)'
           /\ \A n \in 1..Len(queue) : /\ Joins(n, c)' <=> Joins(n, c)
                                       /\ Reconnects(n)' <=> Reconnects(n)
<1>1. /\ Len(queue) \in Nat /\ Len(s) \in Nat /\ Len(queue') = Len(queue) + Len(s)
      /\ \A n \in 1..Len(queue) : queue'[n] = queue[n]
  BY Enqueued
<1>2. \A n \in 1..Len(queue) : n \in 1..Len(queue')
  BY <1>1
<1>3. \A n \in 1..Len(queue) : /\ Reconnects(n)' <=> Reconnects(n)
                               /\ Ends(n, c)' <=> Ends(n, c)
                               /\ Joins(n, c)' <=> Joins(n, c)
  BY <1>1 DEF Reconnects, Ends, Joins
<1>. QED
  BY <1>2, <1>3 DEF EndIsComing, Cut, JoinIsComing

-----------------------------------------------------------------------------
(***************************************************************************)
(* Types.                                                                  *)
(***************************************************************************)
LEMMA IdleTask == /\ Idle \in Task /\ Idle.at = "idle" /\ Idle.fresh = {} /\ Idle.stale = {}
                  /\ ~Idle.reconciling
BY DEF Idle, Task

LEMMA StartedTask ==
    ASSUME NEW t
    PROVE  /\ t = [Idle EXCEPT !.at = "snapshot", !.reconciling = TRUE]
              => t.at = "snapshot" /\ t.fresh = {}
           /\ \A c : t = [Idle EXCEPT !.at = "resolve", !.call = c]
                    => t.at = "resolve" /\ t.call = c /\ t.fresh = {}
           /\ \A c, i : t = [Idle EXCEPT !.at = "end", !.call = c, !.id = i]
                       => t.at = "end" /\ t.call = c /\ t.id = i /\ t.fresh = {}
BY DEF Idle

LEMMA ResumedTask ==
    ASSUME AdapterTypeOK
    PROVE  /\ Resumed \in Task /\ Resumed.at \in {"idle", "admit"}
           /\ Resumed.fresh = IF task.reconciling THEN task.fresh ELSE {}
BY IdleTask DEF Resumed, AdapterTypeOK, Task

LEMMA QueueIsTyped ==
    /\ \A c \in Calls : <<JoinOf(c)>> \in Seq(Event)
    /\ \A i \in Ids : <<[op |-> "end", id |-> i]>> \in Seq(Event)
    /\ <<>> \in Seq(Event)
BY DEF JoinOf, Event

\* The first connection announces who is there already.
LEMMA AnnouncedIsTyped ==
    ASSUME NEW order \in [1..Cardinality(Up) -> Up], NEW f \in BOOLEAN, NEW e \in Nat
    PROVE  /\ [n \in DOMAIN order |-> JoinOf(order[n])] \in Seq(Event)
           /\ <<[op |-> "connected", epoch |-> e, first |-> f]>>
              \o (IF f THEN [n \in DOMAIN order |-> JoinOf(order[n])] ELSE <<>>) \in Seq(Event)
           /\ Cardinality(Up) \in Nat
<1>1. Cardinality(Up) \in Nat
  <2>1. IsFiniteSet(Up)
    BY AdapterAssumption, FS_Subset DEF Up
  <2>. QED BY <2>1, FS_CardinalityType
<1>2. [n \in DOMAIN order |-> JoinOf(order[n])] \in [1..Cardinality(Up) -> Event]
  BY DEF JoinOf, Event, Up
<1>3. [n \in DOMAIN order |-> JoinOf(order[n])] \in Seq(Event)
  BY <1>1, <1>2
<1>4. <<[op |-> "connected", epoch |-> e, first |-> f]>> \in Seq(Event)
  BY DEF Event
<1>. QED
  BY <1>1, <1>3, <1>4, QueueIsTyped

Announcement(order) ==
    <<[op |-> "connected", epoch |-> epoch + 1, first |-> ~everConnected]>>
    \o (IF ~everConnected THEN [n \in DOMAIN order |-> JoinOf(order[n])] ELSE <<>>)

\* What a connection announces: itself, and whoever is there at the first one.
LEMMA AnnouncedIsJoin ==
    ASSUME AdapterTypeOK, NEW order \in [1..Cardinality(Up) -> Up],
           NEW a, a = Announcement(order)
    PROVE  /\ Len(a) \in Nat /\ Len(a) >= 1
           /\ a[1] = [op |-> "connected", epoch |-> epoch + 1, first |-> ~everConnected]
           /\ \A n \in 2..Len(a) : a[n].op = "join" /\ a[n].call \in Up /\ ~everConnected
           /\ \A n \in 1..Len(a) : a[n].op = "join" => a[n].call \in Up
<1> DEFINE e == [op |-> "connected", epoch |-> epoch + 1, first |-> ~everConnected]
           joins == [n \in DOMAIN order |-> JoinOf(order[n])]
           rest == IF ~everConnected THEN joins ELSE <<>>
<1>1. everConnected \in BOOLEAN /\ epoch + 1 \in Nat
  BY DEF AdapterTypeOK
<1>2. joins \in Seq(Event) /\ Cardinality(Up) \in Nat
  BY <1>1, AnnouncedIsTyped
<1>3. e \in Event /\ rest \in Seq(Event) /\ <<e>> \in Seq(Event) /\ Len(<<e>>) = 1
  BY <1>1, <1>2, QueueIsTyped DEF Event
<1>4. /\ Len(joins) = Cardinality(Up)
      /\ \A n \in 1..Cardinality(Up) : joins[n].op = "join" /\ joins[n].call = order[n]
  BY <1>2 DEF JoinOf
<1>5. /\ Len(rest) = IF ~everConnected THEN Cardinality(Up) ELSE 0
      /\ ~everConnected => rest = joins
  BY <1>4
<1>6. a = <<e>> \o rest
  BY DEF Announcement
<1> HIDE DEF rest, joins
<1>7. /\ Len(a) = 1 + Len(rest) /\ Len(rest) \in Nat
      /\ a[1] = e
      /\ \A n \in 2..Len(a) : a[n] = rest[n - 1]
  BY <1>3, <1>6, ConcatProperties
<1>8. \A n \in 1..Len(rest) : ~everConnected /\ rest[n].op = "join" /\ rest[n].call = order[n]
  BY <1>1, <1>2, <1>4, <1>5
<1>9. \A n \in 2..Len(a) : n - 1 \in 1..Len(rest)
  BY <1>7
<1>10. \A n \in 1..Len(rest) : rest[n].call \in Up
  <2>1. Len(rest) <= Cardinality(Up)
    BY <1>2, <1>5
  <2>. QED BY <1>2, <1>7, <1>8, <2>1
<1>12. \A n \in 1..Len(a) : n = 1 \/ n \in 2..Len(a)
  BY <1>7
<1>13. \A n \in 2..Len(a) : a[n].op = "join" /\ a[n].call \in Up /\ ~everConnected
  BY <1>7, <1>8, <1>9, <1>10
<1>14. \A n \in 1..Len(a) : a[n].op = "join" => a[n].call \in Up
  BY <1>7, <1>12, <1>13
<1>15. Len(a) \in Nat /\ Len(a) >= 1
  BY <1>7
<1>. QED
  BY <1>7, <1>13, <1>14, <1>15

LEMMA AnnouncedToAll ==
    ASSUME AdapterTypeOK, NEW order \in [1..Cardinality(Up) -> Up], ~everConnected,
           NEW m \in 1..Cardinality(Up)
    PROVE  \E n \in 2..Len(Announcement(order)) : Announcement(order)[n] = JoinOf(order[m])
<1> DEFINE e == [op |-> "connected", epoch |-> epoch + 1, first |-> TRUE]
           joins == [n \in DOMAIN order |-> JoinOf(order[n])]
<1>1. Announcement(order) = <<e>> \o joins
  BY DEF Announcement
<1>2. joins \in Seq(Event) /\ Cardinality(Up) \in Nat
  BY AnnouncedIsTyped DEF AdapterTypeOK
<1>3. <<e>> \in Seq(Event) /\ Len(<<e>>) = 1
  BY DEF AdapterTypeOK, Event
<1>4. Len(joins) = Cardinality(Up) /\ joins[m] = JoinOf(order[m])
  BY <1>2
<1> HIDE DEF e, joins
<1>5. /\ Len(<<e>> \o joins) = 1 + Cardinality(Up)
      /\ (<<e>> \o joins)[m + 1] = joins[m]
  BY <1>2, <1>3, <1>4, ConcatProperties
<1>6. m + 1 \in 2..(1 + Cardinality(Up))
  BY <1>2
<1>. QED
  BY <1>1, <1>4, <1>5, <1>6

LEMMA ConnectedQueue ==
    ASSUME AdapterTypeOK, Connected, listening
    PROVE  \E order \in [1..Cardinality(Up) -> Up] :
              /\ {order[n] : n \in 1..Cardinality(Up)} = Up
              /\ queue' = queue \o Announcement(order) /\ Announcement(order) \in Seq(Event)
<1>1. PICK order \in [1..Cardinality(Up) -> Up] :
         /\ {order[n] : n \in DOMAIN order} = Up
         /\ queue' = queue \o <<[op |-> "connected", epoch |-> epoch + 1,
                                 first |-> ~everConnected]>>
              \o (IF everConnected THEN <<>> ELSE [n \in DOMAIN order |-> JoinOf(order[n])])
  BY DEF Connected
<1>2. everConnected \in BOOLEAN /\ epoch + 1 \in Nat
  BY DEF AdapterTypeOK
<1>3. Announcement(order) \in Seq(Event)
  BY <1>2, AnnouncedIsTyped DEF Announcement
<1>4. [n \in DOMAIN order |-> JoinOf(order[n])] \in Seq(Event)
  BY <1>2, AnnouncedIsTyped
<1>5. <<[op |-> "connected", epoch |-> epoch + 1, first |-> ~everConnected]>> \in Seq(Event)
  BY <1>2 DEF Event
<1>6. queue' = queue \o Announcement(order)
  <2>1. (IF ~everConnected THEN [n \in DOMAIN order |-> JoinOf(order[n])] ELSE <<>>) \in Seq(Event)
    BY <1>4, QueueIsTyped
  <2>2. (IF everConnected THEN <<>> ELSE [n \in DOMAIN order |-> JoinOf(order[n])])
        = IF ~everConnected THEN [n \in DOMAIN order |-> JoinOf(order[n])] ELSE <<>>
    BY <1>2
  <2>3. queue \in Seq(Event)
    BY DEF AdapterTypeOK
  <2> DEFINE e == <<[op |-> "connected", epoch |-> epoch + 1, first |-> ~everConnected]>>
             rest == IF ~everConnected THEN [n \in DOMAIN order |-> JoinOf(order[n])] ELSE <<>>
  <2>4. queue' = (queue \o e) \o rest
    BY <1>1, <2>2
  <2>5. e \in Seq(Event) /\ rest \in Seq(Event)
    BY <1>5, <2>1
  <2>6. Announcement(order) = e \o rest
    BY DEF Announcement
  <2> HIDE DEF e, rest
  <2>. QED BY <2>3, <2>4, <2>5, <2>6, ConcatAssociative
<1>. QED
  BY <1>1, <1>3, <1>6

LEMMA ConnectedEffect ==
    ASSUME Connected
    PROVE  /\ link = "down" /\ link' = "up"
           /\ ~listening => UNCHANGED <<epoch, everConnected, queue>>
           /\ listening => epoch' = epoch + 1 /\ everConnected' = TRUE
           /\ UNCHANGED <<leg, number, drops, accepting, listening, task, tracked, control>>
<1>1. CASE listening
  BY <1>1 DEF Connected
<1>2. CASE ~listening
  BY <1>2 DEF Connected
<1>. QED BY <1>1, <1>2

LEMMA TypeKept ==
    ASSUME AdapterTypeOK, NumbersAreGiven, TaskIsOfACall, TrackedIsKnown, AdapterNext
    PROVE  AdapterTypeOK'
<1>. USE DEF AdapterTypeOK
<1>0. \A q : Heard(q) \in {queue, queue \o q}
  BY DEF Heard
<1>1. ASSUME NEW c \in Calls, NEW i \in Ids, Ring(c, i) PROVE AdapterTypeOK'
  <2>1. queue' \in Seq(Event)
    BY <1>0, <1>1, QueueIsTyped, Enqueued DEF Ring
  <2>. QED BY <1>1, <2>1 DEF Ring, pbx, intake, tracked, control
<1>2. ASSUME NEW c \in Calls, HangsUp(c) PROVE AdapterTypeOK'
  <2>1. number[c] \in Ids
    BY <1>2 DEF HangsUp, NumbersAreGiven
  <2>2. queue' \in Seq(Event)
    BY <1>0, <1>2, <2>1, QueueIsTyped, Enqueued DEF HangsUp
  <2>. QED BY <1>2, <2>2 DEF HangsUp, intake, tracked, control
<1>3. ASSUME NEW c \in Calls, EndedByController(c) PROVE AdapterTypeOK'
  BY <1>3 DEF EndedByController, pbx, intake, tracked
<1>4. CASE Connected
  <2>1. queue' \in Seq(Event)
    BY <1>4, ConnectedQueue, Enqueued DEF Connected
  <2>2. listening \in BOOLEAN /\ everConnected \in BOOLEAN
    OBVIOUS
  <2>3. epoch' \in Nat /\ everConnected' \in BOOLEAN
    <3>1. CASE listening
      BY <1>4, <3>1, ConnectedEffect
    <3>2. CASE ~listening
      <4>1. epoch' = epoch /\ everConnected' = everConnected
        BY <1>4, <3>2, ConnectedEffect
      <4>. QED BY <2>2, <4>1
    <3>. QED BY <3>1, <3>2
  <2>4. link' = "up" /\ UNCHANGED <<leg, number, drops, accepting, listening, task, tracked, control>>
    BY <1>4, ConnectedEffect
  <2>. QED BY <2>1, <2>3, <2>4 DEF tracked, control
<1>5. CASE Disconnected
  <2>1. link' = "down" /\ drops < MaxDrops /\ drops' = drops + 1 /\ epoch' \in {epoch, epoch + 1}
        /\ accepting' \in {accepting, FALSE}
        /\ UNCHANGED <<leg, number, everConnected, listening, queue, task, tracked, control>>
    BY <1>5 DEF Disconnected
  <2>2. drops' \in 0..MaxDrops /\ epoch' \in Nat
    BY <2>1, AdapterAssumption
  <2>. QED BY <2>1, <2>2 DEF tracked, control
<1>6. CASE TakeConnected
  BY <1>6, Dequeued, IdleTask DEF TakeConnected, pbx, tracked, control, Idle, Task
<1>7. CASE TakeJoin
  <2>1. task' \in Task
    <3>1. Head(queue).call \in Calls
      BY <1>7, Dequeued, EventKinds DEF TakeJoin
    <3>2. task' \in {Idle, [Idle EXCEPT !.at = "resolve", !.call = Head(queue).call]}
      BY <1>7 DEF TakeJoin
    <3>. QED BY <3>1, <3>2, IdleTask DEF Task
  <2>. QED BY <1>7, <2>1, Dequeued DEF TakeJoin, pbx, intake, tracked, control
<1>8. CASE TakeEnd
  <2>1. task' \in Task
    BY <1>8, Dequeued, EventKinds, IdleTask DEF TakeEnd, Idle, Task
  <2>. QED BY <1>8, <2>1, Dequeued DEF TakeEnd, pbx, intake, tracked, control
<1>9. CASE Resolved
  <2>1. task.call \in Calls /\ number[task.call] \in Ids /\ task' \in Task
    BY <1>9, ResumedTask DEF Resolved, TaskIsOfACall, NumbersAreGiven, Taken, Task
  <2>2. byCall' \in [Calls -> Ids \cup {None}] /\ byId' \in [Ids -> Calls \cup {None}]
        /\ turnedAway' \subseteq Calls /\ served' = served
    BY <1>9, <2>1 DEF Resolved, tracked
  <2>. QED BY <1>9, <2>1, <2>2 DEF Resolved, pbx, intake
<1>10. CASE JoinAnswered
  <2>1. task.call \in Calls /\ task' \in Task
    BY <1>10, ResumedTask DEF JoinAnswered, TaskIsOfACall
  <2>2. /\ byCall' \in [Calls -> Ids \cup {None}] /\ byId' \in [Ids -> Calls \cup {None}]
        /\ turnedAway' \subseteq Calls
        /\ served' \in [Calls -> {"unknown", "active", "stuck", "closed"}]
    BY <1>10, <2>1 DEF JoinAnswered, JoinOutcome, Untracked, tracked
  <2>. QED BY <1>10, <2>1, <2>2 DEF JoinAnswered, pbx, intake
<1>11. CASE EndAnswered
  <2>2. /\ byCall' \in [Calls -> Ids \cup {None}] /\ byId' \in [Ids -> Calls \cup {None}]
        /\ served' \in [Calls -> {"unknown", "active", "stuck", "closed"}]
    BY <1>11 DEF EndAnswered, EndOutcome, Untracked, tracked, TaskIsOfACall
  <2>. QED BY <1>11, <2>2, IdleTask DEF EndAnswered, pbx, intake
<1>12. CASE Snapshot
  <2>1. [task EXCEPT !.at = "purge", !.stale = GoneFromPbx, !.fresh = Up] \in Task
    BY DEF Task, GoneFromPbx, Up
  <2>2. task' \in Task /\ UNCHANGED <<pbx, intake, queue, tracked, control>>
    BY <1>12, <2>1, IdleTask DEF Snapshot
  <2>. QED BY <2>2 DEF pbx, intake, tracked, control
<1>13. ASSUME NEW c \in Calls, Purge(c) PROVE AdapterTypeOK'
  <2>1. byCall' \in [Calls -> Ids \cup {None}] /\ byId' \in [Ids -> Calls \cup {None}]
    BY <1>13 DEF Purge, Untracked, tracked
  <2>2. served' \in [Calls -> {"unknown", "active", "stuck", "closed"}]
    BY <1>13 DEF Purge, EndOutcome
  <2>3. task' \in Task
    BY <1>13, IdleTask DEF Purge, Task
  <2>4. UNCHANGED <<pbx, intake, queue, stopping, turnedAway>>
    BY <1>13 DEF Purge
  <2>. QED BY <2>1, <2>2, <2>3, <2>4 DEF pbx, intake
<1>14. CASE Reopen
  BY <1>14 DEF Reopen, pbx, tracked, control, Task
<1>15. ASSUME NEW c \in Calls, AdmitFresh(c) PROVE AdapterTypeOK'
  BY <1>15 DEF AdmitFresh, pbx, intake, tracked, control, Task
<1>16. CASE Reconciled
  BY <1>16, IdleTask DEF Reconciled, pbx, intake, tracked, control
<1>. QED
  BY <1>1, <1>2, <1>3, <1>4, <1>5, <1>6, <1>7, <1>8, <1>9, <1>10, <1>11, <1>12, <1>13, <1>14,
     <1>15, <1>16 DEF AdapterNext, Handlers

-----------------------------------------------------------------------------
(***************************************************************************)
(* Which call the adapter's records are about.                             *)
(***************************************************************************)
Tracking == NumbersAreGiven /\ TaskIsOfACall /\ TrackedIsKnown /\ ServedIsTracked

\* Events of the PBX: only a ring gives a number, and only to a new leg.
LEMMA PbxTracking ==
    ASSUME AdapterTypeOK, Tracking,
           \/ \E c \in Calls : HangsUp(c) \/ EndedByController(c) \/ \E i \in Ids : Ring(c, i)
           \/ Connected \/ Disconnected
    PROVE  Tracking'
<1>. USE DEF AdapterTypeOK
<1>0. \A q : Heard(q) \in {queue, queue \o q}
  BY DEF Heard
<1>1. ASSUME NEW c \in Calls, NEW i \in Ids, Ring(c, i) PROVE Tracking'
  <2>0. /\ leg[c] = "none" /\ leg' = [leg EXCEPT ![c] = "up"] /\ number' = [number EXCEPT ![c] = i]
        /\ UNCHANGED <<task, byCall, byId, served>> /\ i # None /\ number[c] = None
        /\ served[c] = "unknown" /\ ~Taken(c) /\ c \notin task.fresh
    BY <1>1, AdapterAssumption DEF Ring, Tracking, NumbersAreGiven, tracked, control
  <2>1. \A n \in 1..Len(queue') : queue'[n].op = "join" => leg'[queue'[n].call] # "none"
    <3>1. CASE queue' = queue
      BY <2>0, <3>1, EventKinds DEF Tracking, NumbersAreGiven
    <3>2. CASE queue' = queue \o <<JoinOf(c)>>
      <4>1. /\ Len(queue) \in Nat /\ Len(queue') = Len(queue) + 1
            /\ \A n \in 1..Len(queue) : queue'[n] = queue[n]
            /\ queue'[Len(queue) + 1] = JoinOf(c)
        BY <3>2, QueueIsTyped, Enqueued
      <4>2. \A n \in 1..Len(queue') : n \in 1..Len(queue) \/ n = Len(queue) + 1
        BY <4>1
      <4>3. \A n \in 1..Len(queue) : queue[n] \in Event
        OBVIOUS
      <4>. QED BY <2>0, <4>1, <4>2, <4>3, EventKinds DEF Tracking, NumbersAreGiven, JoinOf
    <3>. QED BY <1>0, <1>1, <3>1, <3>2 DEF Ring
  <2>2. NumbersAreGiven'
    BY <2>0, <2>1 DEF Tracking, NumbersAreGiven, Taken
  <2>3. \A d \in Calls : leg[d] # "none" => number'[d] = number[d] /\ (Reused(d) => Reused(d)')
    BY <2>0 DEF Tracking, NumbersAreGiven, Reused
  <2>4. TaskIsOfACall'
    BY <2>0, <2>3 DEF Tracking, TaskIsOfACall, NumbersAreGiven, Taken
  <2>5. TrackedIsKnown'
    BY <2>0, <2>3 DEF Tracking, TrackedIsKnown, NumbersAreGiven, Taken
  <2>6. ServedIsTracked'
    BY <2>0, <2>3 DEF Tracking, ServedIsTracked, NumbersAreGiven
  <2>. QED BY <2>2, <2>4, <2>5, <2>6 DEF Tracking
<1>2. ASSUME NEW c \in Calls, HangsUp(c) PROVE Tracking'
  <2>0. /\ leg[c] = "up" /\ leg' = [leg EXCEPT ![c] = "gone"]
        /\ UNCHANGED <<number, task, byCall, byId, served>>
    BY <1>2 DEF HangsUp, tracked, control
  <2>1. \A n \in 1..Len(queue') : queue'[n].op = "join" => leg'[queue'[n].call] # "none"
    <3>1. CASE queue' = queue
      BY <2>0, <3>1, EventKinds DEF Tracking, NumbersAreGiven
    <3>2. CASE queue' = queue \o <<[op |-> "end", id |-> number[c]]>>
      <4>0. number[c] \in Ids
        BY <2>0 DEF Tracking, NumbersAreGiven
      <4>1. /\ Len(queue) \in Nat /\ Len(queue') = Len(queue) + 1
            /\ \A n \in 1..Len(queue) : queue'[n] = queue[n]
            /\ queue'[Len(queue) + 1] = [op |-> "end", id |-> number[c]]
        BY <3>2, <4>0, QueueIsTyped, Enqueued
      <4>2. \A n \in 1..Len(queue') : n \in 1..Len(queue) \/ n = Len(queue) + 1
        BY <4>1
      <4>3. \A n \in 1..Len(queue) : queue[n] \in Event
        OBVIOUS
      <4>. QED BY <2>0, <4>1, <4>2, <4>3, EventKinds DEF Tracking, NumbersAreGiven
    <3>. QED BY <1>0, <1>2, <3>1, <3>2 DEF HangsUp
  <2>2. NumbersAreGiven'
    BY <2>0, <2>1 DEF Tracking, NumbersAreGiven, Taken
  <2>. QED BY <2>0, <2>2 DEF Tracking, TaskIsOfACall, TrackedIsKnown, ServedIsTracked, Taken, Reused
<1>3. ASSUME NEW c \in Calls, EndedByController(c) PROVE Tracking'
  <2>0. /\ served[c] = "active" /\ UNCHANGED <<leg, number, queue, task, byCall, byId>>
        /\ served'[c] \notin {"active", "unknown"}
        /\ \A d \in Calls \ {c} : served'[d] = served[d]
    BY <1>3 DEF EndedByController, tracked, pbx
  <2>1. NumbersAreGiven'
    BY <2>0 DEF Tracking, NumbersAreGiven, Taken
  <2>2. TaskIsOfACall'
    BY <2>0 DEF Tracking, TaskIsOfACall, Reused
  <2>3. TrackedIsKnown' /\ ServedIsTracked'
    BY <2>0 DEF Tracking, TrackedIsKnown, ServedIsTracked, Taken, Reused
  <2>. QED BY <2>1, <2>2, <2>3 DEF Tracking
<1>4. CASE Connected
  <2>0. UNCHANGED <<leg, number, task, byCall, byId, served>>
    BY <1>4 DEF Connected, tracked, control
  <2>1. \A n \in 1..Len(queue') : queue'[n].op = "join" => leg'[queue'[n].call] # "none"
    <3>1. CASE queue' = queue
      BY <2>0, <3>1, EventKinds DEF Tracking, NumbersAreGiven
    <3>2. CASE listening
      <4>1. PICK order \in [1..Cardinality(Up) -> Up] :
               queue' = queue \o Announcement(order) /\ Announcement(order) \in Seq(Event)
        BY <1>4, <3>2, ConnectedQueue
      <4>2. /\ Len(queue) \in Nat /\ Len(Announcement(order)) \in Nat
            /\ Len(queue') = Len(queue) + Len(Announcement(order))
            /\ \A n \in 1..Len(queue) : queue'[n] = queue[n]
            /\ \A n \in 1..Len(Announcement(order)) : queue'[Len(queue) + n] = Announcement(order)[n]
        BY <4>1, Enqueued
      <4>3. ASSUME NEW n \in 1..Len(queue') PROVE
                n \in 1..Len(queue) \/ (n - Len(queue) \in 1..Len(Announcement(order))
                                        /\ queue'[n] = Announcement(order)[n - Len(queue)])
        BY <4>2
      <4>4. \A n \in 1..Len(Announcement(order)) :
               Announcement(order)[n].op = "join" => Announcement(order)[n].call \in Up
        BY AnnouncedIsJoin
      <4>5. \A n \in 1..Len(queue) : queue[n] \in Event
        OBVIOUS
      <4>. QED BY <2>0, <4>2, <4>3, <4>4, <4>5, EventKinds DEF Tracking, NumbersAreGiven, Up
    <3>. QED BY <1>4, <3>1, <3>2, ConnectedEffect
  <2>2. NumbersAreGiven'
    BY <2>0, <2>1 DEF Tracking, NumbersAreGiven, Taken
  <2>. QED BY <2>0, <2>2 DEF Tracking, TaskIsOfACall, TrackedIsKnown, ServedIsTracked, Taken, Reused
<1>5. CASE Disconnected
  <2>0. UNCHANGED <<leg, number, queue, task, byCall, byId, served>>
    BY <1>5 DEF Disconnected, tracked, control
  <2>. QED BY <2>0 DEF Tracking, NumbersAreGiven, TaskIsOfACall, TrackedIsKnown, ServedIsTracked,
                     Taken, Reused
<1>. QED
  BY <1>1, <1>2, <1>3, <1>4, <1>5

\* An operation is taken from the queue.
LEMMA TakeTracking ==
    ASSUME AdapterTypeOK, Tracking, TakeConnected \/ TakeJoin \/ TakeEnd
    PROVE  Tracking'
<1>0. PICK op : Next1(op) /\ UNCHANGED <<leg, number, byCall, byId, served>>
  BY DEF TakeConnected, TakeJoin, TakeEnd, pbx, tracked, control
<1>1. /\ task = Idle /\ queue[1] \in Event /\ Head(queue) = queue[1] /\ queue[1].op = op
      /\ Len(queue) \in Nat /\ Len(queue) >= 1 /\ Len(queue') = Len(queue) - 1
      /\ \A n \in 1..Len(queue') : queue'[n] = queue[n + 1]
  BY <1>0, Dequeued
<1>2. \A n \in 1..Len(queue') : queue'[n].op = "join" => leg'[queue'[n].call] # "none"
  <2>1. \A n \in 1..Len(queue') : n + 1 \in 1..Len(queue)
    BY <1>1
  <2>. QED BY <1>0, <1>1, <2>1 DEF Tracking, NumbersAreGiven
<1>3. 1 \in 1..Len(queue)
  BY <1>1
<1>4. CASE TakeConnected
  <2>1. task' = Idle \/ task' = [Idle EXCEPT !.at = "snapshot", !.reconciling = TRUE]
    BY <1>1, <1>4 DEF TakeConnected
  <2>2. task'.at \in {"idle", "snapshot"} /\ task'.fresh = {}
    BY <2>1, IdleTask, StartedTask
  <2>3. NumbersAreGiven'
    BY <1>0, <1>2, <2>2 DEF Tracking, NumbersAreGiven, Taken
  <2>4. TaskIsOfACall' /\ ServedIsTracked'
    BY <1>0, <2>2 DEF Tracking, TaskIsOfACall, ServedIsTracked, Reused
  <2>5. TrackedIsKnown'
    BY <1>0, <1>1, IdleTask DEF Tracking, TrackedIsKnown, Taken
  <2>. QED BY <2>3, <2>4, <2>5 DEF Tracking
<1>5. CASE TakeJoin
  <2> DEFINE c == queue[1].call
  <2>1. /\ c \in Calls /\ leg[c] # "none"
        /\ \/ task' = Idle
           \/ task' = [Idle EXCEPT !.at = "resolve", !.call = c] /\ byCall[c] = None
    <3>1. queue[1].op = "join"
      BY <1>1, <1>5, Dequeued DEF TakeJoin
    <3>2. c \in Calls /\ leg[c] # "none"
      BY <1>1, <1>3, <3>1, EventKinds DEF Tracking, NumbersAreGiven
    <3>. QED BY <1>1, <1>5, <3>2 DEF TakeJoin, Admitted
  <2> HIDE DEF c
  <2>2. task'.fresh = {} /\ (task'.at = "idle" \/ (task'.at = "resolve" /\ task'.call = c /\ byCall[c] = None))
    BY <2>1, IdleTask, StartedTask
  <2>3. NumbersAreGiven'
    BY <1>0, <1>2, <2>1, <2>2 DEF Tracking, NumbersAreGiven, Taken
  <2>4. TaskIsOfACall' /\ ServedIsTracked'
    BY <1>0, <2>1, <2>2 DEF Tracking, TaskIsOfACall, ServedIsTracked, Reused
  <2>5. TrackedIsKnown'
    BY <1>0, <1>1, IdleTask DEF Tracking, TrackedIsKnown, Taken
  <2>. QED BY <2>3, <2>4, <2>5 DEF Tracking
<1>6. CASE TakeEnd
  <2> DEFINE i == queue[1].id
  <2>1. /\ i \in Ids
        /\ \/ task' = Idle
           \/ task' = [Idle EXCEPT !.at = "end", !.call = byId[i], !.id = i] /\ byId[i] \in Calls
    <3>1. queue[1].op = "end"
      BY <1>1, <1>6, Dequeued DEF TakeEnd
    <3>2. i \in Ids
      BY <1>1, <3>1, EventKinds
    <3>3. byId[i] \in Calls \cup {None}
      BY <3>2 DEF AdapterTypeOK
    <3>. QED BY <1>1, <1>6, <3>2, <3>3 DEF TakeEnd
  <2> HIDE DEF i
  <2>2. task'.fresh = {} /\ (task'.at = "idle" \/ (task'.at = "end" /\ task'.call = byId[i]
                                                   /\ task'.id = i /\ byId[i] \in Calls))
    <3>1. CASE task' = Idle
      BY <3>1, IdleTask
    <3>2. CASE task' = [Idle EXCEPT !.at = "end", !.call = byId[i], !.id = i] /\ byId[i] \in Calls
      BY <3>2 DEF Idle
    <3>. QED BY <2>1, <3>1, <3>2
  <2>3. NumbersAreGiven'
    BY <1>0, <1>2, <2>2 DEF Tracking, NumbersAreGiven, Taken
  <2>4. TaskIsOfACall' /\ ServedIsTracked'
    BY <1>0, <2>1, <2>2 DEF Tracking, TaskIsOfACall, ServedIsTracked, Reused
  <2>5. TrackedIsKnown'
    BY <1>0, <1>1, IdleTask DEF Tracking, TrackedIsKnown, Taken
  <2>. QED BY <2>3, <2>4, <2>5 DEF Tracking
<1>. QED
  BY <1>4, <1>5, <1>6

LEMMA ServedHasNumber ==
    ASSUME AdapterTypeOK, Tracking, NEW c \in Calls, served[c] # "unknown"
    PROVE  number[c] \in Ids
BY DEF AdapterTypeOK, Tracking, NumbersAreGiven

\* An answer arrives for the operation under way.
LEMMA AnswerTracking ==
    ASSUME AdapterTypeOK, Tracking, Resolved \/ JoinAnswered \/ EndAnswered
    PROVE  Tracking'
<1>. USE DEF AdapterTypeOK
<1>0. UNCHANGED <<leg, number, queue>> /\ task.call \in Calls
  BY DEF Resolved, JoinAnswered, EndAnswered, pbx, Tracking, TaskIsOfACall
<1>1. Resumed.at \in {"idle", "admit"} /\ Resumed.fresh \subseteq task.fresh
  BY ResumedTask
<1> DEFINE c == task.call
<1>2. CASE Resolved
  <2>0. task.at = "resolve" /\ byCall[c] = None /\ leg[c] # "none" /\ number[c] \in Ids
        /\ served' = served /\ Taken(c)
    BY <1>0, <1>2 DEF Resolved, Tracking, TaskIsOfACall, NumbersAreGiven, Taken
  <2>1. CASE task' = Resumed /\ UNCHANGED byCall
             /\ byId' \in {byId, [byId EXCEPT ![number[c]] = None]}
    <3>1. NumbersAreGiven'
      BY <1>0, <1>1, <2>0, <2>1 DEF Tracking, NumbersAreGiven, Taken
    <3>2. TaskIsOfACall'
      BY <1>1, <2>1 DEF TaskIsOfACall
    <3>3. TrackedIsKnown'
      BY <1>0, <2>0, <2>1 DEF Tracking, TrackedIsKnown, Taken
    <3>4. ASSUME NEW d \in Calls, served[d] = "active" PROVE
             Reused(d) \/ (byCall[d] = number[d] /\ byId'[number[d]] = d)
      <4>1. CASE d = c
        BY <2>0, <3>4, <4>1, AdapterAssumption DEF Tracking, ServedIsTracked
      <4>2. CASE d # c
        <5>1. CASE number[d] = number[c]
          BY <1>0, <4>2, <5>1 DEF Reused
        <5>2. CASE number[d] # number[c]
          BY <2>0, <2>1, <3>4, <5>2, ServedHasNumber DEF Tracking, ServedIsTracked
        <5>. QED BY <5>1, <5>2
      <4>. QED BY <4>1, <4>2
    <3>5. ServedIsTracked'
      BY <1>0, <2>0, <2>1, <3>4 DEF ServedIsTracked, Reused
    <3>. QED BY <3>1, <3>2, <3>3, <3>5 DEF Tracking
  <2>2. CASE /\ byCall' = [byCall EXCEPT ![c] = number[c]] /\ byId' = [byId EXCEPT ![number[c]] = c]
             /\ task' = [task EXCEPT !.at = "join"]
    <3>0. task'.at = "join" /\ task'.call = c /\ task'.fresh = task.fresh
      BY <2>2 DEF Task
    <3>1. NumbersAreGiven'
      BY <1>0, <2>0, <3>0 DEF Tracking, NumbersAreGiven, Taken
    <3>2. served[c] = "active" => Reused(c)
      BY <1>0, <2>0, AdapterAssumption DEF Tracking, ServedIsTracked
    <3>3. TaskIsOfACall'
      BY <1>0, <2>0, <2>2, <3>0, <3>2 DEF TaskIsOfACall, Reused
    <3>4. TrackedIsKnown'
      BY <1>0, <2>0, <2>2, <3>0 DEF Tracking, TrackedIsKnown, Taken
    <3>5. ASSUME NEW d \in Calls, served[d] = "active" PROVE
             Reused(d) \/ (byCall'[d] = number[d] /\ byId'[number[d]] = d)
      <4>1. CASE d = c
        BY <3>2, <3>5, <4>1
      <4>2. CASE d # c
        <5>1. CASE number[d] = number[c]
          BY <1>0, <4>2, <5>1 DEF Reused
        <5>2. CASE number[d] # number[c]
          BY <2>0, <2>2, <3>5, <4>2, <5>2 DEF Tracking, ServedIsTracked
        <5>. QED BY <5>1, <5>2
      <4>. QED BY <4>1, <4>2
    <3>6. ServedIsTracked'
      BY <1>0, <2>0, <3>5 DEF ServedIsTracked, Reused
    <3>. QED BY <3>1, <3>3, <3>4, <3>6 DEF Tracking
  <2>. QED BY <1>2, <2>1, <2>2 DEF Resolved, tracked
<1>3. CASE JoinAnswered
  <2>0. /\ task.at = "join" /\ byCall[c] = number[c] /\ byId[number[c]] = c /\ task' = Resumed
        /\ served[c] = "active" => Reused(c)
        /\ leg[c] # "none" /\ number[c] \in Ids /\ Taken(c)
        /\ \A d \in Calls \ {c} : served'[d] = served[d]
    BY <1>0, <1>3 DEF JoinAnswered, Tracking, TaskIsOfACall, NumbersAreGiven, Taken
  <2>1. /\ \/ served'[c] = "active" /\ served[c] = "unknown" /\ UNCHANGED <<byCall, byId>>
           \/ /\ byCall' = [byCall EXCEPT ![c] = None] /\ byId' = [byId EXCEPT ![number[c]] = None]
              /\ served'[c] = "active" => served[c] = "active"
        /\ served'[c] = "unknown" => served[c] = "unknown" /\ byCall'[c] = None
    BY <1>0, <1>3 DEF JoinAnswered, JoinOutcome, Untracked, tracked
  <2>2. NumbersAreGiven'
    BY <1>0, <1>1, <2>0, <2>1 DEF Tracking, NumbersAreGiven, Taken
  <2>3. TaskIsOfACall'
    BY <1>1, <2>0 DEF TaskIsOfACall
  <2>4. TrackedIsKnown'
    BY <1>0, <2>0, <2>1 DEF Tracking, TrackedIsKnown, Taken
  <2>5. ASSUME NEW d \in Calls, served'[d] = "active" PROVE
           Reused(d) \/ (byCall'[d] = number[d] /\ byId'[number[d]] = d)
    <3>1. CASE d = c
      BY <2>0, <2>1, <2>5, <3>1
    <3>2. CASE d # c
      <4>1. CASE number[d] = number[c]
        BY <1>0, <3>2, <4>1 DEF Reused
      <4>2. CASE number[d] # number[c]
        BY <2>0, <2>1, <2>5, <3>2, <4>2, ServedHasNumber DEF Tracking, ServedIsTracked
      <4>. QED BY <4>1, <4>2
    <3>. QED BY <3>1, <3>2
  <2>6. ServedIsTracked'
    BY <1>0, <2>5 DEF ServedIsTracked, Reused
  <2>. QED BY <2>2, <2>3, <2>4, <2>6 DEF Tracking
<1>4. CASE EndAnswered
  <2>0. /\ task.at = "end" /\ task.id \in Ids /\ byId[task.id] = c /\ task' = Idle
        /\ \A d \in Calls \ {c} : served'[d] = served[d]
        /\ served'[c] # "active" /\ (served'[c] = "unknown" <=> served[c] = "unknown")
    BY <1>0, <1>4 DEF EndAnswered, EndOutcome, Tracking, TaskIsOfACall
  <2>1. \/ UNCHANGED <<byCall, byId>>
        \/ byCall' = [byCall EXCEPT ![c] = None] /\ byId' = [byId EXCEPT ![task.id] = None]
    BY <1>0, <1>4 DEF EndAnswered, Untracked, tracked
  <2>2. NumbersAreGiven'
    BY <1>0, <2>0, IdleTask DEF Tracking, NumbersAreGiven, Taken
  <2>3. TaskIsOfACall'
    BY <2>0, IdleTask DEF TaskIsOfACall
  <2>4. TrackedIsKnown'
    BY <1>0, <2>0, <2>1 DEF Tracking, TrackedIsKnown, Taken
  <2>5. ASSUME NEW d \in Calls, served'[d] = "active" PROVE
           Reused(d) \/ (byCall'[d] = number[d] /\ byId'[number[d]] = d)
    BY <1>0, <2>0, <2>1, <2>5, ServedHasNumber DEF Tracking, ServedIsTracked
  <2>6. ServedIsTracked'
    BY <1>0, <2>5 DEF ServedIsTracked, Reused
  <2>. QED BY <2>2, <2>3, <2>4, <2>6 DEF Tracking
<1>. QED
  BY <1>2, <1>3, <1>4

\* A reconciliation goes on.
LEMMA ReconcileTracking ==
    ASSUME AdapterTypeOK, Tracking,
           Snapshot \/ Reopen \/ Reconciled \/ \E c \in Calls : Purge(c) \/ AdmitFresh(c)
    PROVE  Tracking'
<1>. USE DEF AdapterTypeOK
<1>0. UNCHANGED <<leg, number, queue>>
  BY DEF Snapshot, Reopen, Reconciled, Purge, AdmitFresh, pbx
<1>1. CASE Snapshot \/ Reopen \/ Reconciled \/ \E c \in Calls : AdmitFresh(c)
  <2>0. UNCHANGED <<byCall, byId, served>> /\ \A d \in Calls : ~Taken(d)
    BY <1>1 DEF Snapshot, Reopen, Reconciled, AdmitFresh, tracked, control, Taken
  <2>1. /\ task'.fresh \subseteq task.fresh \cup Up
        /\ task'.at \in {"idle", "purge", "admit", "resolve"}
        /\ task'.at = "purge" => task'.stale \subseteq GoneFromPbx
        /\ task'.at = "resolve" => task'.call \in task.fresh /\ task'.call \in Calls
                                   /\ byCall[task'.call] = None
    <3>1. CASE Snapshot
      BY <3>1, IdleTask DEF Snapshot, Task
    <3>2. CASE Reopen
      BY <3>2 DEF Reopen, Task
    <3>3. CASE Reconciled
      BY <3>3, IdleTask DEF Reconciled
    <3>4. ASSUME NEW c \in Calls, AdmitFresh(c)
          PROVE  /\ task'.fresh \subseteq task.fresh /\ task'.at \in {"admit", "resolve"}
                 /\ task'.at = "resolve" => task'.call = c /\ c \in task.fresh /\ byCall[c] = None
      BY <3>4 DEF AdmitFresh, Admitted, Task
    <3>. QED BY <1>1, <3>1, <3>2, <3>3, <3>4
  <2>2. NumbersAreGiven'
    BY <1>0, <2>0, <2>1 DEF Tracking, NumbersAreGiven, Taken, Up
  <2>3. TaskIsOfACall'
    BY <1>0, <2>0, <2>1 DEF TaskIsOfACall, GoneFromPbx
  <2>4. TrackedIsKnown' /\ ServedIsTracked'
    BY <1>0, <2>0 DEF Tracking, TrackedIsKnown, ServedIsTracked, Taken, Reused
  <2>. QED BY <2>2, <2>3, <2>4 DEF Tracking
<1>2. ASSUME NEW c \in Calls, Purge(c) PROVE Tracking'
  <2>0. /\ task.at = "purge" /\ byCall[c] = number[c] /\ byCall[c] # None /\ c \in task.stale
        /\ \A d \in Calls \ {c} : served'[d] = served[d]
        /\ served'[c] # "active" /\ (served'[c] = "unknown" <=> served[c] = "unknown")
    BY <1>2 DEF Purge, EndOutcome, Tracking, TaskIsOfACall, TrackedIsKnown
  <2>1. \/ UNCHANGED <<byCall, byId>> /\ task' = Idle
        \/ /\ byCall' = [byCall EXCEPT ![c] = None] /\ byId' = [byId EXCEPT ![number[c]] = None]
           /\ task' = [task EXCEPT !.stale = @ \ {c}]
    BY <1>2, <2>0 DEF Purge, Untracked, tracked
  <2>2. /\ task'.at \in {"idle", "purge"} /\ task'.fresh \subseteq task.fresh
        /\ task'.at = "purge" => task'.stale = task.stale \ {c} /\ byCall' = [byCall EXCEPT ![c] = None]
    BY <2>0, <2>1, IdleTask DEF Task
  <2>3. NumbersAreGiven'
    BY <1>0, <2>0, <2>2 DEF Tracking, NumbersAreGiven, Taken
  <2>4. TaskIsOfACall'
    BY <2>0, <2>2 DEF Tracking, TaskIsOfACall, Task
  <2>5. TrackedIsKnown'
    BY <1>0, <2>0, <2>1 DEF Tracking, TrackedIsKnown, Taken
  <2>6. ASSUME NEW d \in Calls, served'[d] = "active" PROVE
           Reused(d) \/ (byCall'[d] = number[d] /\ byId'[number[d]] = d)
    <3>1. d # c /\ served[d] = "active"
      BY <2>0, <2>6
    <3>2. CASE number[d] = number[c]
      BY <3>1, <3>2 DEF Reused
    <3>3. CASE number[d] # number[c]
      BY <2>1, <3>1, <3>3, ServedHasNumber DEF Tracking, ServedIsTracked
    <3>. QED BY <3>2, <3>3
  <2>7. ServedIsTracked'
    BY <1>0, <2>6 DEF ServedIsTracked, Reused
  <2>. QED BY <2>3, <2>4, <2>5, <2>7 DEF Tracking
<1>. QED
  BY <1>1, <1>2

LEMMA TrackingKept == ASSUME AdapterTypeOK, Tracking, AdapterNext PROVE Tracking'
BY PbxTracking, TakeTracking, AnswerTracking, ReconcileTracking DEF AdapterNext, Handlers

-----------------------------------------------------------------------------
(***************************************************************************)
(* Whoever is at work, the adapter was connected before; until the first   *)
(* connection is handled nothing else is.                                  *)
(***************************************************************************)
LEMMA NotFresh ==
    ASSUME FirstConnectsFirst, ~Fresh
    PROVE  /\ everConnected
           /\ \A n \in 1..Len(queue) : ~(queue[n].op = "connected" /\ queue[n].first)
BY DEF FirstConnectsFirst

LEMMA FirstKept ==
    ASSUME AdapterTypeOK, Tracking, FirstConnectsFirst, AdapterNext
    PROVE  FirstConnectsFirst'
<1>1. CASE \E c \in Calls : HangsUp(c) \/ \E i \in Ids : Ring(c, i)
  <2>1. PICK c \in Calls : HangsUp(c) \/ \E i \in Ids : Ring(c, i)
    BY <1>1
  <2>2. UNCHANGED <<link, listening, everConnected, task, served, byCall>>
    BY <2>1 DEF HangsUp, Ring, intake, tracked, control
  <2>3. CASE queue' = queue
    BY <2>2, <2>3 DEF FirstConnectsFirst, Fresh
  <2>4. CASE listening /\ link = "up" /\ \E e \in Event : e.op \in {"join", "end"} /\ queue' = queue \o <<e>>
    <3>1. PICK e \in Event : e.op \in {"join", "end"} /\ queue' = queue \o <<e>>
      BY <2>4
    <3>2. <<e>> \in Seq(Event) /\ Len(<<e>>) = 1 /\ <<e>>[1] = e
      OBVIOUS
    <3>3. /\ Len(queue) \in Nat /\ Len(queue') = Len(queue) + 1
          /\ \A n \in 1..Len(queue) : queue'[n] = queue[n]
          /\ queue'[Len(queue) + 1] = e
      BY <3>1, <3>2, Enqueued
    <3>4. \A n \in 1..Len(queue') : n \in 1..Len(queue) \/ n = Len(queue) + 1
      BY <3>3
    <3>. QED BY <2>2, <2>4, <3>1, <3>3, <3>4 DEF FirstConnectsFirst, Fresh
  <2>5. \/ queue' = queue
        \/ listening /\ link = "up" /\ queue' = queue \o <<JoinOf(c)>>
        \/ listening /\ link = "up" /\ queue' = queue \o <<[op |-> "end", id |-> number[c]]>>
           /\ number[c] \in Ids
    BY <2>1 DEF HangsUp, Ring, Heard, Tracking, NumbersAreGiven, AdapterTypeOK
  <2>6. JoinOf(c) \in Event /\ JoinOf(c).op = "join"
        /\ \A i \in Ids : [op |-> "end", id |-> i] \in Event
    BY DEF JoinOf, Event
  <2>. QED BY <2>3, <2>4, <2>5, <2>6
<1>2. CASE \E c \in Calls : EndedByController(c)
  <2>1. ~Fresh /\ UNCHANGED <<queue, everConnected, link, listening>>
    BY <1>2 DEF EndedByController, Fresh, intake, pbx
  <2>. QED BY <2>1, NotFresh DEF FirstConnectsFirst
<1>3. CASE Connected
  <2>1. UNCHANGED <<listening, task, served, byCall>>
    BY <1>3, ConnectedEffect DEF tracked, control
  <2>2. CASE ~listening
    BY <1>3, <2>1, <2>2, ConnectedEffect DEF FirstConnectsFirst, Fresh
  <2>3. CASE listening
    <3>1. PICK order \in [1..Cardinality(Up) -> Up] :
             queue' = queue \o Announcement(order) /\ Announcement(order) \in Seq(Event)
      BY <1>3, <2>3, ConnectedQueue
    <3> DEFINE a == Announcement(order)
    <3>2. /\ Len(queue) \in Nat /\ Len(a) \in Nat /\ Len(queue') = Len(queue) + Len(a)
          /\ \A n \in 1..Len(queue) : queue'[n] = queue[n]
          /\ \A n \in 1..Len(a) : queue'[Len(queue) + n] = a[n]
      BY <3>1, Enqueued
    <3>3. /\ Len(a) \in Nat /\ Len(a) >= 1
          /\ a[1] = [op |-> "connected", epoch |-> epoch + 1, first |-> ~everConnected]
          /\ \A n \in 2..Len(a) : a[n].op = "join"
      BY AnnouncedIsJoin
    <3> HIDE DEF a
    <3>4. everConnected' = TRUE
      BY <1>3, <2>3, ConnectedEffect
    <3>5. ASSUME NEW n \in 1..Len(queue'), queue'[n].op = "connected", queue'[n].first
          PROVE  n = 1 /\ Fresh
      <4>1. CASE n \in 1..Len(queue)
        BY <3>2, <3>5, <4>1 DEF FirstConnectsFirst
      <4>2. CASE n \notin 1..Len(queue)
        <5>1. n - Len(queue) \in 1..Len(a) /\ queue'[n] = a[n - Len(queue)]
          BY <3>2, <4>2
        <5>2. n - Len(queue) = 1
          BY <3>3, <3>5, <5>1
        <5>3. ~everConnected
          <6>1. queue'[n] = a[1]
            BY <5>1, <5>2
          <6>2. a[1].first = ~everConnected
            BY <3>3
          <6>. QED BY <3>5, <6>1, <6>2
        <5>4. queue = <<>> /\ Fresh
          BY <5>3 DEF FirstConnectsFirst
        <5>. QED BY <3>2, <5>2, <5>4
      <4>. QED BY <4>1, <4>2
    <3>6. Fresh' <=> Fresh
      BY <2>1 DEF Fresh
    <3>. QED BY <3>4, <3>5, <3>6 DEF FirstConnectsFirst
  <2>. QED BY <2>2, <2>3
<1>4. CASE Disconnected
  BY <1>4 DEF Disconnected, FirstConnectsFirst, Fresh, tracked, control
<1>5. CASE TakeConnected \/ TakeJoin \/ TakeEnd
  <2>1. PICK op : Next1(op) /\ UNCHANGED <<listening, link, everConnected>>
    BY <1>5 DEF TakeConnected, TakeJoin, TakeEnd, pbx, intake
  <2>2. /\ Len(queue) \in Nat /\ Len(queue) >= 1 /\ Len(queue') = Len(queue) - 1
        /\ \A n \in 1..Len(queue') : queue'[n] = queue[n + 1]
    BY <2>1, Dequeued
  <2>3. \A n \in 1..Len(queue') : n + 1 \in 1..Len(queue) /\ n + 1 # 1
    BY <2>2
  <2>4. queue # <<>>
    BY <2>1 DEF Next1
  <2>. QED BY <2>1, <2>2, <2>3, <2>4 DEF FirstConnectsFirst
<1>6. CASE \/ Resolved \/ JoinAnswered \/ EndAnswered \/ Snapshot \/ Reopen \/ Reconciled
           \/ \E c \in Calls : Purge(c) \/ AdmitFresh(c)
  <2>1. task.at # "idle" /\ UNCHANGED <<queue, everConnected, link, listening>>
    BY <1>6 DEF Resolved, JoinAnswered, EndAnswered, Snapshot, Reopen, Reconciled, Purge,
                AdmitFresh, intake, pbx
  <2>2. ~Fresh
    BY <2>1, IdleTask DEF Fresh
  <2>. QED BY <2>1, <2>2, NotFresh DEF FirstConnectsFirst
<1>. QED
  BY <1>1, <1>2, <1>3, <1>4, <1>5, <1>6 DEF AdapterNext, Handlers

LEMMA ReconcilingKept ==
    ASSUME AdapterTypeOK, ReconcilingIsClosed, AdapterNext
    PROVE  ReconcilingIsClosed'
<1>1. CASE \E c \in Calls : HangsUp(c) \/ EndedByController(c) \/ \E i \in Ids : Ring(c, i)
  BY <1>1 DEF HangsUp, EndedByController, Ring, intake, ReconcilingIsClosed
<1>2. CASE Connected \/ Disconnected
  BY <1>2 DEF Connected, Disconnected, ReconcilingIsClosed
<1>3. CASE TakeConnected
  BY <1>3, IdleTask DEF TakeConnected, Next1, ReconcilingIsClosed
<1>4. CASE TakeJoin \/ TakeEnd
  BY <1>4, IdleTask DEF TakeJoin, TakeEnd, Idle, ReconcilingIsClosed
<1>5. CASE Resolved \/ JoinAnswered \/ EndAnswered
  BY <1>5, IdleTask, ResumedTask DEF Resolved, JoinAnswered, EndAnswered, ReconcilingIsClosed,
     AdapterTypeOK, Task
<1>6. CASE Snapshot \/ Reconciled \/ \E c \in Calls : Purge(c)
  BY <1>6, IdleTask DEF Snapshot, Reconciled, Purge, intake, ReconcilingIsClosed, AdapterTypeOK, Task
<1>7. CASE Reopen \/ \E c \in Calls : AdmitFresh(c)
  BY <1>7 DEF Reopen, AdmitFresh, ReconcilingIsClosed, AdapterTypeOK, Task
<1>. QED
  BY <1>1, <1>2, <1>3, <1>4, <1>5, <1>6, <1>7 DEF AdapterNext, Handlers

-----------------------------------------------------------------------------
(***************************************************************************)
(* Departures and arrivals reach the controller.                           *)
(***************************************************************************)
\* Steps that leave queue, numbers and connection alone leave what is to come.
Still == UNCHANGED <<queue, leg, number, link, listening, epoch>>

LEMMA StillComing ==
    ASSUME Still, NEW c \in Calls
    PROVE  /\ \A n : EndIsComing(c, n)' <=> EndIsComing(c, n)
           /\ JoinIsComing(c)' <=> JoinIsComing(c)
           /\ Cut' <=> Cut
           /\ Departed(c)' <=> Departed(c)
           /\ \A n : Joins(n, c)' <=> Joins(n, c)
           /\ \A n : Reconnects(n)' <=> Reconnects(n)
<1>1. /\ \A n : Joins(n, c)' <=> Joins(n, c)
      /\ \A n : Reconnects(n)' <=> Reconnects(n)
      /\ \A n : Ends(n, c)' <=> Ends(n, c)
      /\ Cut' <=> Cut
  BY DEF Still, Joins, Reconnects, Ends, Cut
<1>2. Departed(c)' <=> Departed(c)
  BY DEF Still, Departed, Reused
<1>3. \A n : EndIsComing(c, n)' <=> EndIsComing(c, n)
  BY <1>1 DEF Still, EndIsComing
<1>4. JoinIsComing(c)' <=> JoinIsComing(c)
  BY <1>1 DEF Still, JoinIsComing
<1>. QED
  BY <1>1, <1>2, <1>3, <1>4

LEMMA PbxDepartures ==
    ASSUME AdapterInv,
           \/ \E c \in Calls : HangsUp(c) \/ EndedByController(c) \/ \E i \in Ids : Ring(c, i)
           \/ Connected \/ Disconnected
    PROVE  DeparturesArrive'
<1>0. AdapterTypeOK /\ Tracking /\ DeparturesArrive
  BY DEF AdapterInv, Tracking
<1>1. ASSUME NEW c \in Calls, NEW i \in Ids, Ring(c, i) PROVE DeparturesArrive'
  <2>1. /\ leg[c] = "none" /\ leg' = [leg EXCEPT ![c] = "up"] /\ number' = [number EXCEPT ![c] = i]
        /\ UNCHANGED <<task, served, accepting, epoch, listening, link>>
        /\ queue' \in {queue, queue \o <<JoinOf(c)>>} /\ i # None /\ number[c] = None
    BY <1>0, <1>1, AdapterAssumption DEF Ring, Heard, intake, control, Tracking, NumbersAreGiven
  <2>2. ASSUME NEW d \in Calls, Departed(d)' PROVE d # c /\ Departed(d) /\ number'[d] = number[d]
    BY <1>0, <2>1, <2>2 DEF Departed, Reused, AdapterTypeOK, Tracking, NumbersAreGiven
  <2>3. CASE queue' = queue
    <3>1. ASSUME NEW d \in Calls, Departed(d)', NEW n
          PROVE  (EndIsComing(d, n)' <=> EndIsComing(d, n)) /\ (Joins(n, d)' <=> Joins(n, d))
      BY <2>1, <2>2, <2>3, <3>1 DEF EndIsComing, Cut, Reconnects, Ends, Joins
    <3>. QED BY <1>0, <2>1, <2>2, <2>3, <3>1 DEF DeparturesArrive, Taken, Ending, Closed
  <2>4. CASE queue' = queue \o <<JoinOf(c)>>
    <3>1. /\ Len(queue) \in Nat /\ Len(queue') = Len(queue) + 1
          /\ queue'[Len(queue) + 1] = JoinOf(c)
      BY <1>0, <2>4, QueueIsTyped, Enqueued
    <3>2. ASSUME NEW d \in Calls, Departed(d)'
          PROVE  /\ \A n \in 0..Len(queue) : EndIsComing(d, n) => EndIsComing(d, n)'
                 /\ \A n \in 1..Len(queue) : Joins(n, d)' <=> Joins(n, d)
      BY <1>0, <2>1, <2>2, <2>4, <3>2, QueueIsTyped, AddingKeeps
    <3>3. ASSUME NEW d \in Calls, Departed(d)', NEW n \in 1..Len(queue'), Joins(n, d)'
          PROVE  n \in 1..Len(queue)
      BY <2>2, <3>1, <3>3 DEF Joins, JoinOf
    <3>4. 0 \in 0..Len(queue) /\ \A n \in 1..Len(queue) : n \in 0..Len(queue)
      BY <3>1
    <3>. QED BY <1>0, <2>1, <2>2, <3>2, <3>3, <3>4 DEF DeparturesArrive, Taken, Ending, Closed
  <2>. QED BY <2>1, <2>3, <2>4
<1>2. ASSUME NEW c \in Calls, HangsUp(c) PROVE DeparturesArrive'
  <2>1. /\ leg[c] = "up" /\ leg' = [leg EXCEPT ![c] = "gone"]
        /\ UNCHANGED <<number, task, served, accepting, epoch, listening, link>>
        /\ queue' = IF ~Cut THEN queue \o <<[op |-> "end", id |-> number[c]]>> ELSE queue
        /\ number[c] \in Ids
    BY <1>0, <1>2 DEF HangsUp, Heard, Cut, intake, control, Tracking, NumbersAreGiven, AdapterTypeOK
  <2>2. ASSUME NEW d \in Calls, d # c, Departed(d)' PROVE Departed(d)
    BY <1>0, <2>1, <2>2 DEF Departed, Reused, AdapterTypeOK
  <2>3. CASE Cut
    <3>1. Cut' /\ queue' = queue
      BY <2>1, <2>3 DEF Cut
    <3>. QED BY <3>1 DEF EndIsComing, DeparturesArrive
  <2>4. CASE ~Cut
    <3>0. queue' = queue \o <<[op |-> "end", id |-> number[c]]>>
      BY <2>1, <2>4
    <3>1. /\ Len(queue) \in Nat /\ Len(queue') = Len(queue) + 1
          /\ queue'[Len(queue) + 1] = [op |-> "end", id |-> number[c]]
      BY <1>0, <2>1, <3>0, QueueIsTyped, Enqueued
    <3>2. ASSUME NEW d \in Calls
          PROVE  /\ \A n \in 0..Len(queue) : EndIsComing(d, n) => EndIsComing(d, n)'
                 /\ \A n \in 1..Len(queue) : Joins(n, d)' <=> Joins(n, d)
      BY <1>0, <2>1, <3>0, QueueIsTyped, AddingKeeps
    <3>3. ASSUME NEW d \in Calls, NEW n \in 1..Len(queue'), Joins(n, d)'
          PROVE  n \in 1..Len(queue)
      BY <3>1, <3>3 DEF Joins
    <3>4. ASSUME NEW n \in 0..Len(queue) PROVE EndIsComing(c, n)'
      <4>1. PICK m \in 1..Len(queue') : m > n /\ queue'[m] = [op |-> "end", id |-> number[c]]
        BY <3>1
      <4>2. Ends(m, c)'
        BY <2>1, <4>1 DEF Ends
      <4>. QED BY <4>1, <4>2 DEF EndIsComing
    <3>5. 0 \in 0..Len(queue) /\ \A n \in 1..Len(queue) : n \in 0..Len(queue)
      BY <3>1
    <3>. QED BY <1>0, <2>1, <2>2, <3>2, <3>3, <3>4, <3>5 DEF DeparturesArrive, Taken, Ending, Closed
  <2>. QED BY <2>3, <2>4
<1>3. ASSUME NEW c \in Calls, EndedByController(c) PROVE DeparturesArrive'
  <2>1. /\ Still /\ UNCHANGED <<task, accepting>>
        /\ \A d \in Calls : served'[d] = "active" => served[d] = "active"
    BY <1>0, <1>3 DEF EndedByController, Still, pbx, intake, AdapterTypeOK
  <2>2. /\ Len(queue') = Len(queue)
        /\ \A d \in Calls : /\ Taken(d)' <=> Taken(d)
                            /\ Ending(d)' <=> Ending(d)
        /\ Closed' <=> Closed
    BY <2>1 DEF Still, Taken, Ending, Closed
  <2>3. ASSUME NEW d \in Calls
        PROVE  /\ \A n : EndIsComing(d, n)' <=> EndIsComing(d, n)
               /\ \A n : Joins(n, d)' <=> Joins(n, d)
               /\ Departed(d)' <=> Departed(d)
    BY <2>1, StillComing
  <2>. QED BY <1>0, <2>1, <2>2, <2>3 DEF DeparturesArrive
<1>4. CASE Connected
  <2>1. UNCHANGED <<leg, number, task, served, accepting, listening>>
    BY <1>4, ConnectedEffect DEF control
  <2>2. \A d \in Calls : Departed(d)' <=> Departed(d)
    BY <2>1 DEF Departed, Reused
  <2>3. CASE ~listening
    <3>1. Cut' /\ queue' = queue
      BY <1>4, <2>1, <2>3, ConnectedEffect DEF Cut
    <3>. QED BY <3>1 DEF EndIsComing, DeparturesArrive
  <2>4. CASE listening
    <3>1. PICK order \in [1..Cardinality(Up) -> Up] :
             queue' = queue \o Announcement(order) /\ Announcement(order) \in Seq(Event)
      BY <1>0, <1>4, <2>4, ConnectedQueue
    <3> DEFINE a == Announcement(order)
    <3>2. /\ Len(queue) \in Nat /\ Len(a) \in Nat /\ Len(queue') = Len(queue) + Len(a)
          /\ \A n \in 1..Len(queue) : queue'[n] = queue[n]
          /\ \A n \in 1..Len(a) : queue'[Len(queue) + n] = a[n]
      BY <1>0, <3>1, Enqueued
    <3>3. /\ Len(a) \in Nat /\ Len(a) >= 1
          /\ a[1] = [op |-> "connected", epoch |-> epoch + 1, first |-> ~everConnected]
          /\ \A n \in 1..Len(a) : a[n].op = "join" => a[n].call \in Up
      BY <1>0, AnnouncedIsJoin
    <3> HIDE DEF a
    <3>4. ASSUME NEW d \in Calls, Departed(d), NEW n \in 1..Len(queue'), Joins(n, d)'
          PROVE  n \in 1..Len(queue) /\ Joins(n, d)
      <4>1. CASE n \in 1..Len(queue)
        BY <3>2, <3>4, <4>1 DEF Joins
      <4>2. CASE n \notin 1..Len(queue)
        <5>1. n - Len(queue) \in 1..Len(a) /\ queue'[n] = a[n - Len(queue)]
          BY <3>2, <4>2
        <5>. QED BY <3>3, <3>4, <5>1 DEF Joins, Departed, Up
      <4>. QED BY <4>1, <4>2
    <3>5. CASE everConnected
      <4>1. PICK m \in 1..Len(queue') : m = Len(queue) + 1 /\ queue'[m] = a[1]
        BY <3>2, <3>3
      <4>2. Reconnects(m)'
        <5>1. epoch' = epoch + 1
          BY <1>4, <2>4, ConnectedEffect
        <5>2. a[1].op = "connected" /\ a[1].epoch = epoch + 1
          BY <3>3
        <5>3. ~a[1].first
          <6>1. a[1].first = ~everConnected
            BY <3>3
          <6>. QED BY <3>5, <6>1
        <5>. QED BY <4>1, <5>1, <5>2, <5>3 DEF Reconnects
      <4>3. ASSUME NEW d \in Calls, NEW n \in 0..Len(queue) PROVE EndIsComing(d, n)'
        <5>1. m > n
          BY <3>2, <4>1
        <5>. QED BY <4>2, <5>1 DEF EndIsComing
      <4>4. 0 \in 0..Len(queue) /\ \A n \in 1..Len(queue) : n \in 0..Len(queue)
        BY <3>2
      <4>. QED BY <2>1, <2>2, <3>4, <4>3, <4>4 DEF DeparturesArrive
    <3>6. CASE ~everConnected
      <4>1. Fresh /\ queue = <<>>
        BY <3>6 DEF AdapterInv, FirstConnectsFirst
      <4>2. \A d \in Calls : served'[d] # "active" /\ ~Taken(d)' /\ d \notin task'.fresh
        BY <2>1, <4>1, IdleTask DEF Fresh, Taken
      <4>3. \A d \in Calls, n \in 1..Len(queue') : Departed(d) => ~Joins(n, d)'
        BY <3>4, <4>1
      <4>. QED BY <2>2, <4>2, <4>3 DEF DeparturesArrive
    <3>. QED BY <3>5, <3>6
  <2>. QED BY <2>3, <2>4
<1>5. CASE Disconnected
  <2>1. Cut'
    BY <1>5 DEF Disconnected, Cut
  <2>. QED BY <2>1 DEF EndIsComing, DeparturesArrive
<1>. QED
  BY <1>1, <1>2, <1>3, <1>4, <1>5

LEMMA HandlerDepartures ==
    ASSUME AdapterInv, Handlers
    PROVE  DeparturesArrive'
<1>0. AdapterTypeOK /\ Tracking /\ DeparturesArrive /\ ReconcilingIsClosed /\ FirstConnectsFirst
  BY DEF AdapterInv, Tracking
\* an operation is taken
<1>1. ASSUME NEW op, Next1(op), UNCHANGED <<leg, number, link, listening, epoch, served>>,
             task'.at # "purge", task'.fresh = {},
             \A c \in Calls : Taken(c)' => Joins(1, c),
             \A c \in Calls : Departed(c) /\ served[c] = "active" =>
                /\ Ends(1, c) => Ending(c)'
                /\ Reconnects(1) \/ ~accepting => ~accepting'
      PROVE  DeparturesArrive'
  <2>1. \A c \in Calls : Departed(c)' <=> Departed(c)
    BY <1>1 DEF Departed, Reused
  <2>2. task = Idle /\ Len(queue) >= 1 /\ Len(queue) \in Nat /\ Len(queue') = Len(queue) - 1
    BY <1>0, <1>1, Dequeued
  <2>3. \A n \in 1..Len(queue') : n + 1 \in 1..Len(queue)
    BY <2>2
  <2>4. 1 \in 1..Len(queue)
    BY <2>2
  <2>5. ASSUME NEW c \in Calls, Departed(c)
        PROVE  /\ \A n \in 1..Len(queue') : EndIsComing(c, n + 1) => EndIsComing(c, n)'
               /\ EndIsComing(c, 1) => EndIsComing(c, 0)'
               /\ EndIsComing(c, 0) => EndIsComing(c, 0)' \/ Reconnects(1) \/ Ends(1, c)
               /\ \A n \in 1..Len(queue') : Joins(n, c)' => Joins(n + 1, c)
    BY <1>0, <1>1, TakingKeeps
  <2>6. ASSUME NEW c \in Calls, Departed(c), served[c] = "active"
        PROVE  EndIsComing(c, 0)' \/ Ending(c)' \/ Closed'
    <3>1. EndIsComing(c, 0) \/ ~accepting
      BY <1>0, <2>2, <2>6, IdleTask DEF DeparturesArrive, Ending, Closed
    <3>. QED BY <1>1, <2>5, <2>6, <3>1 DEF Closed
  <2>7. ASSUME NEW c \in Calls, Departed(c), Taken(c)' PROVE EndIsComing(c, 0)'
    BY <1>0, <1>1, <2>4, <2>5, <2>7 DEF DeparturesArrive
  <2>8. ASSUME NEW c \in Calls, Departed(c), NEW n \in 1..Len(queue'), Joins(n, c)'
        PROVE  EndIsComing(c, n)'
    BY <1>0, <2>3, <2>5, <2>8 DEF DeparturesArrive
  <2>. QED BY <1>1, <2>1, <2>6, <2>7, <2>8 DEF DeparturesArrive
<1>2. CASE TakeConnected
  <2>1. Next1("connected") /\ UNCHANGED <<leg, number, link, listening, epoch, served>>
    BY <1>2 DEF TakeConnected, pbx, control
  <2>2. task = Idle /\ Head(queue) = queue[1] /\ queue[1].op = "connected" /\ Len(queue) >= 1
        /\ Len(queue) \in Nat
    BY <1>0, <2>1, Dequeued
  <2>3. task' = Idle \/ task' = [Idle EXCEPT !.at = "snapshot", !.reconciling = TRUE]
    BY <1>2, <2>2 DEF TakeConnected
  <2>4. task'.at \in {"idle", "snapshot"} /\ task'.fresh = {}
    BY <2>3, IdleTask, StartedTask
  <2>5. ASSUME NEW c \in Calls, served[c] = "active" PROVE ~queue[1].first
    BY <1>0, <2>2, <2>5 DEF FirstConnectsFirst, Fresh
  <2>6. ASSUME NEW c \in Calls, served[c] = "active", Reconnects(1) \/ ~accepting
        PROVE  ~accepting'
    BY <1>2, <2>2, <2>5, <2>6 DEF TakeConnected, OpensAtOnce, Reconnects
  <2>7. \A c \in Calls : ~Taken(c)' /\ ~Ends(1, c)
    BY <2>2, <2>4 DEF Taken, Ends
  <2>. QED BY <1>1, <2>1, <2>4, <2>6, <2>7
<1>3. CASE TakeJoin
  <2>1. Next1("join") /\ UNCHANGED <<leg, number, link, listening, epoch, served, accepting>>
    BY <1>3 DEF TakeJoin, pbx, control, intake
  <2>2. task = Idle /\ Head(queue) = queue[1] /\ queue[1].op = "join"
    BY <1>0, <2>1, Dequeued
  <2>3. task' = Idle \/ task' = [Idle EXCEPT !.at = "resolve", !.call = queue[1].call]
    BY <1>3, <2>2 DEF TakeJoin
  <2>4. task'.at \in {"idle", "resolve"} /\ task'.fresh = {}
        /\ (task'.at = "resolve" => task'.call = queue[1].call)
    BY <2>3, IdleTask, StartedTask
  <2>5. \A c \in Calls : ~Reconnects(1) /\ ~Ends(1, c) /\ (Taken(c)' => Joins(1, c))
    BY <2>2, <2>4 DEF Taken, Ends, Reconnects, Joins
  <2>. QED BY <1>1, <2>1, <2>4, <2>5
<1>4. CASE TakeEnd
  <2>1. Next1("end") /\ UNCHANGED <<leg, number, link, listening, epoch, served, accepting>>
    BY <1>4 DEF TakeEnd, pbx, control, intake
  <2>2. task = Idle /\ Head(queue) = queue[1] /\ queue[1].op = "end"
    BY <1>0, <2>1, Dequeued
  <2> DEFINE i == queue[1].id
  <2>3. task' = IF byId[i] = None THEN Idle
                ELSE [Idle EXCEPT !.at = "end", !.call = byId[i], !.id = i]
    BY <1>4, <2>2 DEF TakeEnd
  <2> HIDE DEF i
  <2>4. /\ task'.fresh = {} /\ task'.at \in {"idle", "end"}
        /\ byId[i] # None => task'.at = "end" /\ task'.call = byId[i]
    <3>1. CASE byId[i] = None
      BY <2>3, <3>1, IdleTask
    <3>2. CASE byId[i] # None
      BY <2>3, <3>2 DEF Idle
    <3>. QED BY <3>1, <3>2
  <2>5. ASSUME NEW c \in Calls, Departed(c), served[c] = "active", Ends(1, c) PROVE Ending(c)'
    <3>1. number[c] = i
      BY <2>5 DEF Ends, i
    <3>2. byId[number[c]] = c
      BY <1>0, <2>5 DEF Tracking, ServedIsTracked, Departed
    <3>3. c # None
      BY AdapterAssumption
    <3>. QED BY <2>4, <3>1, <3>2, <3>3 DEF Ending
  <2>6. ~Reconnects(1) /\ \A c \in Calls : ~Taken(c)'
    BY <2>2, <2>4 DEF Taken, Reconnects
  <2>. QED BY <1>1, <2>1, <2>4, <2>5, <2>6
\* a step of the operation under way
<1>5. ASSUME Still,
             \A c \in Calls : Taken(c)' \/ c \in task'.fresh => ~Departed(c) \/ Taken(c) \/ c \in task.fresh,
             \A c \in Calls : Departed(c) /\ served'[c] = "active" =>
                \/ Taken(c)
                \/ /\ served[c] = "active" /\ ~Ending(c)
                   /\ \/ ~(task.at = "purge" /\ c \in task.stale)
                      \/ task'.at = "purge" /\ c \in task'.stale
                      \/ Closed'
                   /\ Closed => Closed' \/ (task'.at = "purge" /\ c \in task'.stale)
      PROVE  DeparturesArrive'
  <2>1. ASSUME NEW c \in Calls
        PROVE  /\ \A n : EndIsComing(c, n)' <=> EndIsComing(c, n)
               /\ \A n : Joins(n, c)' <=> Joins(n, c)
               /\ Departed(c)' <=> Departed(c)
    BY <1>5, StillComing
  <2>2. Len(queue') = Len(queue)
    BY <1>5 DEF Still
  <2>3. ASSUME NEW c \in Calls, Departed(c), served'[c] = "active"
        PROVE  EndIsComing(c, 0) \/ (task'.at = "purge" /\ c \in task'.stale) \/ Closed'
    BY <1>0, <1>5, <2>3 DEF DeparturesArrive
  <2>4. ASSUME NEW c \in Calls, Departed(c), Taken(c)' \/ c \in task'.fresh
        PROVE  EndIsComing(c, 0)
    BY <1>0, <1>5, <2>4 DEF DeparturesArrive
  <2>. QED BY <1>0, <2>1, <2>2, <2>3, <2>4 DEF DeparturesArrive
<1>6. CASE Resolved
  <2>1. /\ Still /\ served' = served /\ accepting' = accepting /\ task.at = "resolve"
        /\ task' = Resumed \/ task' = [task EXCEPT !.at = "join"]
    BY <1>6 DEF Resolved, Still, pbx, intake
  <2>2. /\ task'.at \in {"idle", "admit", "join"} /\ task'.fresh \subseteq task.fresh
        /\ task'.at = "join" => task'.call = task.call
    BY <1>0, <2>1, ResumedTask DEF AdapterTypeOK, Task
  <2>. QED BY <1>5, <2>1, <2>2 DEF Taken, Ending, Closed
<1>7. CASE JoinAnswered
  <2>1. /\ Still /\ accepting' = accepting /\ task.at = "join" /\ task' = Resumed
        /\ \A c \in Calls : c # task.call => served'[c] = served[c]
    BY <1>0, <1>7 DEF JoinAnswered, Still, pbx, intake, AdapterTypeOK
  <2>2. task'.at \in {"idle", "admit"} /\ task'.fresh \subseteq task.fresh
    BY <1>0, <2>1, ResumedTask
  <2>. QED BY <1>5, <2>1, <2>2 DEF Taken, Ending, Closed
<1>8. CASE EndAnswered
  <2>1. /\ Still /\ accepting' = accepting /\ task.at = "end" /\ task' = Idle
        /\ \A c \in Calls : c # task.call => served'[c] = served[c]
        /\ \A c \in Calls : c = task.call => served'[c] # "active"
    BY <1>0, <1>8 DEF EndAnswered, EndOutcome, Still, pbx, intake, AdapterTypeOK
  <2>. QED BY <1>5, <2>1, IdleTask DEF Taken, Ending, Closed
<1>9. CASE Snapshot
  <2>1. /\ Still /\ UNCHANGED <<accepting, served>> /\ task.at = "snapshot" /\ ~accepting
        /\ \/ task' = Idle
           \/ task'.at = "purge" /\ task'.stale = GoneFromPbx /\ task'.fresh = Up
    BY <1>0, <1>9 DEF Snapshot, Still, pbx, intake, control, AdapterTypeOK, Task, ReconcilingIsClosed
  <2>2. \A c \in Calls : Departed(c) => c \notin Up
    BY DEF Departed, Up
  <2>3. ASSUME NEW c \in Calls, Departed(c), served[c] = "active" PROVE c \in GoneFromPbx
    <3>1. number[c] \in Ids
      BY <1>0, <2>3, ServedHasNumber
    <3>2. byCall[c] = number[c]
      BY <1>0, <2>3 DEF Tracking, ServedIsTracked, Departed
    <3>. QED BY <2>2, <2>3, <3>1, <3>2, AdapterAssumption DEF GoneFromPbx
  <2>. QED BY <1>5, <2>1, <2>2, <2>3, IdleTask DEF Taken, Ending, Closed
<1>10. ASSUME NEW d \in Calls, Purge(d) PROVE DeparturesArrive'
  <2>1. /\ Still /\ UNCHANGED accepting /\ task.at = "purge" /\ ~accepting
        /\ \/ task' = Idle
           \/ task'.at = "purge" /\ task'.stale = task.stale \ {d} /\ task'.fresh = task.fresh
        /\ \A c \in Calls : c # d => served'[c] = served[c]
        /\ served'[d] # "active"
    BY <1>0, <1>10 DEF Purge, EndOutcome, Still, pbx, intake, AdapterTypeOK, Task, ReconcilingIsClosed
  <2>. QED BY <1>5, <2>1, IdleTask DEF Taken, Ending, Closed
<1>11. CASE Reopen
  <2>1. /\ Still /\ UNCHANGED served /\ task.at = "purge" /\ task.stale = {}
        /\ task'.at = "admit" /\ task'.fresh = task.fresh
    BY <1>0, <1>11 DEF Reopen, Still, pbx, control, AdapterTypeOK, Task
  <2>. QED BY <1>5, <2>1 DEF Taken, Ending, Closed
<1>12. ASSUME NEW d \in Calls, AdmitFresh(d) PROVE DeparturesArrive'
  <2>1. /\ Still /\ UNCHANGED <<served, accepting>> /\ task.at = "admit" /\ d \in task.fresh
        /\ task'.fresh \subseteq task.fresh /\ task'.at \in {"admit", "resolve"}
        /\ task'.at = "resolve" => task'.call = d
    BY <1>0, <1>12 DEF AdmitFresh, Still, pbx, intake, control, AdapterTypeOK, Task
  <2>. QED BY <1>5, <2>1 DEF Taken, Ending, Closed
<1>13. CASE Reconciled
  <2>1. Still /\ UNCHANGED <<served, accepting>> /\ task.at = "admit" /\ task' = Idle
    BY <1>13 DEF Reconciled, Still, pbx, intake, control
  <2>. QED BY <1>5, <2>1, IdleTask DEF Taken, Ending, Closed
<1>. QED
  BY <1>2, <1>3, <1>4, <1>6, <1>7, <1>8, <1>9, <1>10, <1>11, <1>12, <1>13 DEF Handlers

LEMMA EpochsKept ==
    ASSUME AdapterTypeOK, Tracking, EpochsArePast, AdapterNext
    PROVE  EpochsArePast'
<1>0. epoch \in Nat /\ \A q : Heard(q) \in {queue, queue \o q}
  BY DEF AdapterTypeOK, Heard
<1>1. ASSUME NEW e \in Event, e.op # "connected", queue' = queue \o <<e>>, epoch' = epoch
      PROVE  EpochsArePast'
  <2>1. <<e>> \in Seq(Event) /\ Len(<<e>>) = 1 /\ <<e>>[1] = e
    OBVIOUS
  <2>2. /\ Len(queue) \in Nat /\ Len(queue') = Len(queue) + 1
        /\ \A n \in 1..Len(queue) : queue'[n] = queue[n]
        /\ queue'[Len(queue) + 1] = e
    BY <1>1, <2>1, Enqueued
  <2>3. \A n \in 1..Len(queue') : n \in 1..Len(queue) \/ n = Len(queue) + 1
    BY <2>2
  <2>. QED BY <1>1, <2>2, <2>3 DEF EpochsArePast
<1>2. CASE \E c \in Calls : HangsUp(c) \/ EndedByController(c) \/ \E i \in Ids : Ring(c, i)
  <2>1. PICK c \in Calls : HangsUp(c) \/ EndedByController(c) \/ \E i \in Ids : Ring(c, i)
    BY <1>2
  <2>2. /\ epoch' = epoch
        /\ \/ queue' = queue
           \/ queue' = queue \o <<JoinOf(c)>>
           \/ queue' = queue \o <<[op |-> "end", id |-> number[c]]>> /\ number[c] \in Ids
    BY <1>0, <2>1 DEF HangsUp, EndedByController, Ring, intake, Tracking, NumbersAreGiven, AdapterTypeOK
  <2>3. /\ JoinOf(c) \in Event /\ JoinOf(c).op # "connected"
        /\ \A i \in Ids : /\ [op |-> "end", id |-> i] \in Event
                          /\ [op |-> "end", id |-> i].op # "connected"
    BY DEF JoinOf, Event
  <2>4. queue' = queue /\ epoch' = epoch => EpochsArePast'
    BY DEF EpochsArePast
  <2>. QED BY <1>1, <2>2, <2>3, <2>4
<1>3. CASE Connected
  <2>1. CASE ~listening
    BY <1>3, <2>1, ConnectedEffect DEF EpochsArePast
  <2>2. CASE listening
    <3>1. PICK order \in [1..Cardinality(Up) -> Up] :
             queue' = queue \o Announcement(order) /\ Announcement(order) \in Seq(Event)
      BY <1>3, <2>2, ConnectedQueue
    <3> DEFINE a == Announcement(order)
    <3>2. /\ Len(queue) \in Nat /\ Len(a) \in Nat /\ Len(queue') = Len(queue) + Len(a)
          /\ \A n \in 1..Len(queue) : queue'[n] = queue[n]
          /\ \A n \in 1..Len(a) : queue'[Len(queue) + n] = a[n]
      BY <3>1, Enqueued
    <3>3. /\ Len(a) >= 1
          /\ a[1] = [op |-> "connected", epoch |-> epoch + 1, first |-> ~everConnected]
          /\ \A n \in 2..Len(a) : a[n].op = "join"
      BY AnnouncedIsJoin
    <3> HIDE DEF a
    <3>4. a[1].epoch = epoch + 1 /\ epoch' = epoch + 1
      BY <1>3, <2>2, <3>3, ConnectedEffect
    <3>5. ASSUME NEW n \in 1..Len(queue'), queue'[n].op = "connected" PROVE queue'[n].epoch <= epoch'
      <4>1. CASE n \in 1..Len(queue)
        <5>1. queue[n] \in Event
          BY <4>1 DEF AdapterTypeOK
        <5>. QED BY <1>0, <3>2, <3>4, <3>5, <4>1, <5>1, EventKinds DEF EpochsArePast
      <4>2. CASE n \notin 1..Len(queue)
        <5>1. n - Len(queue) \in 1..Len(a) /\ queue'[n] = a[n - Len(queue)]
          BY <3>2, <4>2
        <5>2. n - Len(queue) = 1
          BY <3>3, <3>5, <5>1
        <5>. QED BY <1>0, <3>4, <5>1, <5>2
      <4>. QED BY <4>1, <4>2
    <3>. QED BY <3>5 DEF EpochsArePast
  <2>. QED BY <2>1, <2>2
<1>4. CASE Disconnected
  <2>1. queue' = queue /\ epoch' \in {epoch, epoch + 1}
    BY <1>4 DEF Disconnected
  <2>2. \A n \in 1..Len(queue) : queue[n] \in Event
    BY DEF AdapterTypeOK
  <2>. QED BY <1>0, <2>1, <2>2, EventKinds DEF EpochsArePast
<1>5. CASE TakeConnected \/ TakeJoin \/ TakeEnd
  <2>1. PICK op : Next1(op) /\ epoch' = epoch
    BY <1>5 DEF TakeConnected, TakeJoin, TakeEnd, intake
  <2>2. /\ Len(queue) \in Nat /\ Len(queue) >= 1 /\ Len(queue') = Len(queue) - 1
        /\ \A n \in 1..Len(queue') : queue'[n] = queue[n + 1]
    BY <2>1, Dequeued
  <2>3. \A n \in 1..Len(queue') : n + 1 \in 1..Len(queue)
    BY <2>2
  <2>. QED BY <2>1, <2>2, <2>3 DEF EpochsArePast
<1>6. CASE \/ Resolved \/ JoinAnswered \/ EndAnswered \/ Snapshot \/ Reopen \/ Reconciled
           \/ \E c \in Calls : Purge(c) \/ AdmitFresh(c)
  <2>1. UNCHANGED <<queue, epoch>>
    BY <1>6 DEF Resolved, JoinAnswered, EndAnswered, Snapshot, Reopen, Reconciled, Purge,
                AdmitFresh, intake
  <2>. QED BY <2>1 DEF EpochsArePast
<1>. QED
  BY <1>2, <1>3, <1>4, <1>5, <1>6 DEF AdapterNext, Handlers

LEMMA SnapshotKept ==
    ASSUME AdapterTypeOK, SnapshotInHand, AdapterNext
    PROVE  SnapshotInHand'
<1>1. CASE task' = task \/ task' = Idle
  BY <1>1, IdleTask DEF SnapshotInHand
<1>2. CASE TakeConnected \/ TakeJoin \/ TakeEnd
  <2>1. \/ task' \in {task, Idle}
        \/ task' = [Idle EXCEPT !.at = "snapshot", !.reconciling = TRUE]
        \/ \E c : task' = [Idle EXCEPT !.at = "resolve", !.call = c]
        \/ \E c, i : task' = [Idle EXCEPT !.at = "end", !.call = c, !.id = i]
    BY <1>2 DEF TakeConnected, TakeJoin, TakeEnd
  <2>. QED BY <1>1, <2>1 DEF SnapshotInHand, Idle
<1>3. CASE Resolved \/ JoinAnswered
  <2>1. task.at \in {"resolve", "join"} /\ (task' = Resumed \/ task' = [task EXCEPT !.at = "join"])
    BY <1>3 DEF Resolved, JoinAnswered
  <2>2. CASE task.reconciling
    BY <2>1, <2>2 DEF Resumed, SnapshotInHand, AdapterTypeOK, Task
  <2>3. CASE ~task.reconciling
    BY <1>1, <2>1, <2>3 DEF Resumed, SnapshotInHand, AdapterTypeOK, Task
  <2>. QED BY <2>2, <2>3
<1>4. CASE Snapshot \/ Reopen \/ \E c \in Calls : Purge(c) \/ AdmitFresh(c)
  <2>1. task.at \in {"snapshot", "purge", "admit"}
        /\ \/ task' = Idle
           \/ /\ task'.at \in {"purge", "admit", "resolve"} /\ task'.reconciling = task.reconciling
              /\ task'.fresh \subseteq task.fresh \/ task.at = "snapshot"
    <3>1. CASE Snapshot
      BY <3>1 DEF Snapshot, AdapterTypeOK, Task
    <3>2. CASE Reopen
      BY <3>2 DEF Reopen, AdapterTypeOK, Task
    <3>3. ASSUME NEW c \in Calls, Purge(c)
          PROVE  /\ task.at = "purge"
                 /\ task' = Idle \/ task' = [task EXCEPT !.stale = @ \ {c}]
      BY <3>3 DEF Purge
    <3>4. ASSUME NEW c \in Calls, AdmitFresh(c)
          PROVE  /\ task.at = "admit" /\ task'.at \in {"admit", "resolve"}
                 /\ task'.reconciling = task.reconciling /\ task'.fresh \subseteq task.fresh
      BY <3>4 DEF AdmitFresh, AdapterTypeOK, Task
    <3>. QED BY <1>4, <3>1, <3>2, <3>3, <3>4 DEF AdapterTypeOK, Task
  <2>. QED BY <1>1, <2>1 DEF SnapshotInHand
<1>5. CASE EndAnswered \/ Reconciled
  BY <1>1, <1>5 DEF EndAnswered, Reconciled
<1>6. CASE \/ \E c \in Calls : HangsUp(c) \/ EndedByController(c) \/ \E i \in Ids : Ring(c, i)
           \/ Connected \/ Disconnected
  BY <1>1, <1>6 DEF HangsUp, EndedByController, Ring, Connected, Disconnected
<1>. QED
  BY <1>2, <1>3, <1>4, <1>5, <1>6 DEF AdapterNext, Handlers

LEMMA PbxArrivals ==
    ASSUME AdapterInv,
           \/ \E c \in Calls : HangsUp(c) \/ EndedByController(c) \/ \E i \in Ids : Ring(c, i)
           \/ Connected \/ Disconnected
    PROVE  ArrivalsArrive'
<1>0. AdapterTypeOK /\ Tracking /\ ArrivalsArrive
  BY DEF AdapterInv, Tracking
\* an event is heard or not
<1>1. ASSUME NEW c \in Calls, NEW e \in Event, e.op # "connected",
             UNCHANGED <<task, served, turnedAway, accepting, epoch, listening, link>>,
             queue' = IF ~Cut THEN queue \o <<e>> ELSE queue,
             \A d \in Calls : Overlooked(d)' =>
                \/ number'[d] = number[d] /\ Overlooked(d)
                \/ e.op = "join" /\ e.call = d
      PROVE  ArrivalsArrive'
  <2>1. CASE Cut
    BY <1>1, <2>1 DEF ArrivalsArrive, Cut
  <2>2. CASE ~Cut
    <3>1. /\ Len(queue) \in Nat /\ Len(queue') = Len(queue) + 1
          /\ \A n \in 1..Len(queue) : queue'[n] = queue[n]
          /\ queue'[Len(queue) + 1] = e
      <4>1. <<e>> \in Seq(Event) /\ Len(<<e>>) = 1 /\ <<e>>[1] = e
        OBVIOUS
      <4>. QED BY <1>0, <1>1, <2>2, <4>1, Enqueued
    <3>2. \A n \in 1..Len(queue') : n \in 1..Len(queue) \/ n = Len(queue) + 1
      BY <3>1
    <3>3. ASSUME NEW d \in Calls, e.op = "join", e.call = d PROVE JoinIsComing(d)'
      <4>1. Len(queue) + 1 \in 1..Len(queue')
        BY <3>1
      <4>. QED BY <3>1, <3>3, <4>1 DEF JoinIsComing, Joins
    <3>4. ASSUME NEW d \in Calls, number'[d] = number[d]
          PROVE  /\ JoinIsComing(d) => JoinIsComing(d)'
                 /\ \A n \in 1..Len(queue) : Reconnects(n)' <=> Reconnects(n)
      <4>1. <<e>> \in Seq(Event)
        OBVIOUS
      <4>. QED BY <1>0, <1>1, <2>2, <3>4, <4>1, AddingKeeps
    <3>5. (\A d \in Calls : Taken(d)' <=> Taken(d)) /\ (Closed' <=> Closed)
          /\ \A n \in 1..Len(queue) : n \in 1..Len(queue')
      BY <1>1, <3>1 DEF Taken, Closed
    <3>. QED BY <1>0, <1>1, <2>2, <3>1, <3>2, <3>3, <3>4, <3>5 DEF ArrivalsArrive
  <2>. QED BY <2>1, <2>2
<1>2. ASSUME NEW c \in Calls, NEW i \in Ids, Ring(c, i) PROVE ArrivalsArrive'
  <2>1. JoinOf(c) \in Event /\ JoinOf(c).op = "join" /\ JoinOf(c).call = c
    BY DEF JoinOf, Event
  <2>2. /\ leg' = [leg EXCEPT ![c] = "up"] /\ number' = [number EXCEPT ![c] = i]
        /\ UNCHANGED <<task, served, turnedAway, accepting, epoch, listening, link>>
        /\ queue' = IF ~Cut THEN queue \o <<JoinOf(c)>> ELSE queue
    BY <1>2 DEF Ring, Heard, Cut, intake, control
  <2>3. ASSUME NEW d \in Calls, d # c, Overlooked(d)' PROVE number'[d] = number[d] /\ Overlooked(d)
    BY <1>0, <2>2, <2>3 DEF Overlooked, AdapterTypeOK
  <2>. QED BY <1>1, <2>1, <2>2, <2>3
<1>3. ASSUME NEW c \in Calls, HangsUp(c) PROVE ArrivalsArrive'
  <2> DEFINE e == [op |-> "end", id |-> number[c]]
  <2>1. /\ leg[c] = "up" /\ leg' = [leg EXCEPT ![c] = "gone"]
        /\ UNCHANGED <<number, task, served, turnedAway, accepting, epoch, listening, link>>
        /\ queue' = IF ~Cut THEN queue \o <<e>> ELSE queue
        /\ number[c] \in Ids
    BY <1>0, <1>3 DEF HangsUp, Heard, Cut, intake, control, Tracking, NumbersAreGiven, AdapterTypeOK
  <2>2. e \in Event /\ e.op # "connected"
    BY <2>1 DEF Event
  <2>3. ASSUME NEW d \in Calls, Overlooked(d)' PROVE number'[d] = number[d] /\ Overlooked(d)
    BY <1>0, <2>1, <2>3 DEF Overlooked, AdapterTypeOK
  <2> HIDE DEF e
  <2>. QED BY <1>1, <2>1, <2>2, <2>3
<1>4. ASSUME NEW c \in Calls, EndedByController(c) PROVE ArrivalsArrive'
  <2>1. /\ Still /\ UNCHANGED <<task, accepting, turnedAway>>
        /\ \A d \in Calls : served'[d] = "unknown" => served[d] = "unknown"
    BY <1>0, <1>4 DEF EndedByController, Still, pbx, intake, AdapterTypeOK
  <2>2. /\ Len(queue') = Len(queue) /\ queue' = queue /\ epoch' = epoch
        /\ \A d \in Calls : (Taken(d)' <=> Taken(d)) /\ (Overlooked(d)' => Overlooked(d))
        /\ Closed' <=> Closed
    BY <2>1 DEF Still, Taken, Closed, Overlooked
  <2>3. ASSUME NEW d \in Calls
        PROVE  /\ JoinIsComing(d)' <=> JoinIsComing(d)
               /\ \A n : Reconnects(n)' <=> Reconnects(n)
               /\ Cut' <=> Cut
    BY <2>1, StillComing
  <2>. QED BY <1>0, <2>1, <2>2, <2>3 DEF ArrivalsArrive
<1>5. CASE Connected
  <2>1. UNCHANGED <<leg, number, task, served, turnedAway, accepting, listening>>
    BY <1>5, ConnectedEffect DEF control
  <2>2. CASE ~listening
    <3>1. Cut'
      BY <2>1, <2>2 DEF Cut
    <3>. QED BY <3>1 DEF ArrivalsArrive
  <2>3. CASE listening
    <3>1. PICK order \in [1..Cardinality(Up) -> Up] :
             /\ {order[n] : n \in 1..Cardinality(Up)} = Up
             /\ queue' = queue \o Announcement(order) /\ Announcement(order) \in Seq(Event)
      BY <1>0, <1>5, <2>3, ConnectedQueue
    <3> DEFINE a == Announcement(order)
    <3>2. /\ Len(queue) \in Nat /\ Len(a) \in Nat /\ Len(queue') = Len(queue) + Len(a)
          /\ \A n \in 1..Len(queue) : queue'[n] = queue[n]
          /\ \A n \in 1..Len(a) : queue'[Len(queue) + n] = a[n]
      BY <1>0, <3>1, Enqueued
    <3>3. /\ Len(a) \in Nat /\ Len(a) >= 1
          /\ a[1] = [op |-> "connected", epoch |-> epoch + 1, first |-> ~everConnected]
          /\ \A n \in 2..Len(a) : a[n].op = "join"
          /\ ~everConnected => \A c \in Up : \E n \in 2..Len(a) : a[n].op = "join" /\ a[n].call = c
      <4>1. /\ Len(a) \in Nat /\ Len(a) >= 1
            /\ a[1] = [op |-> "connected", epoch |-> epoch + 1, first |-> ~everConnected]
            /\ \A n \in 2..Len(a) : a[n].op = "join"
        BY <1>0, AnnouncedIsJoin
      <4>2. ASSUME ~everConnected, NEW c \in Up
            PROVE  \E n \in 2..Len(a) : a[n].op = "join" /\ a[n].call = c
        <5>1. \E n \in 1..Cardinality(Up) : order[n] = c
          BY <3>1
        <5>2. PICK m \in 1..Cardinality(Up) : order[m] = c
          BY <5>1
        <5>3. \E n \in 2..Len(a) : a[n] = JoinOf(c)
          BY <1>0, <4>2, <5>2, AnnouncedToAll
        <5>. QED BY <5>3 DEF JoinOf
      <4>. QED BY <4>1, <4>2
    <3> HIDE DEF a
    <3>4. epoch' = epoch + 1 /\ epoch \in Nat
      BY <1>0, <1>5, <2>3, ConnectedEffect DEF AdapterTypeOK
    <3>5. CASE everConnected
      <4>1. PICK m \in 1..Len(queue') : m = Len(queue) + 1 /\ queue'[m] = a[1]
        BY <3>2, <3>3
      <4>2. a[1].op = "connected" /\ a[1].epoch = epoch + 1
        BY <3>3
      <4>3. ~a[1].first
        <5>1. a[1].first = ~everConnected
          BY <3>3
        <5>. QED BY <3>5, <5>1
      <4>4. Reconnects(m)'
        BY <3>4, <4>1, <4>2, <4>3 DEF Reconnects
      <4>5. ASSUME NEW n \in 1..Len(queue'), queue'[n].op = "connected", queue'[n].epoch = epoch'
            PROVE  ~queue'[n].first
        <5>1. CASE n \in 1..Len(queue)
          <6>1. queue[n].epoch <= epoch /\ queue[n].epoch \in Nat
            <7>1. queue[n] \in Event
              BY <1>0, <5>1 DEF AdapterTypeOK
            <7>. QED BY <3>2, <4>5, <5>1, <7>1, EventKinds DEF AdapterInv, EpochsArePast
          <6>. QED BY <3>2, <3>4, <4>5, <5>1, <6>1
        <5>2. CASE n \notin 1..Len(queue)
          <6>1. n - Len(queue) \in 1..Len(a) /\ queue'[n] = a[n - Len(queue)]
            BY <3>2, <5>2
          <6>2. n - Len(queue) = 1
            BY <3>3, <4>5, <6>1
          <6>. QED BY <4>3, <6>1, <6>2
        <5>. QED BY <5>1, <5>2
      <4>. QED BY <4>4, <4>5 DEF ArrivalsArrive
    <3>6. CASE ~everConnected
      <4>1. queue = <<>>
        BY <3>6 DEF AdapterInv, FirstConnectsFirst
      <4>2. ASSUME NEW c \in Calls, Overlooked(c)' PROVE JoinIsComing(c)'
        <5>1. c \in Up
          BY <2>1, <4>2 DEF Overlooked, Up
        <5>2. PICK n \in 2..Len(a) : a[n].op = "join" /\ a[n].call = c
          BY <3>3, <3>6, <5>1
        <5>3. n \in 1..Len(queue') /\ queue'[n] = a[n]
          BY <3>2, <4>1, <5>2
        <5>. QED BY <5>2, <5>3 DEF JoinIsComing, Joins
      <4>. QED BY <4>2 DEF ArrivalsArrive
    <3>. QED BY <3>5, <3>6
  <2>. QED BY <2>2, <2>3
<1>6. CASE Disconnected
  <2>1. Cut'
    BY <1>6 DEF Disconnected, Cut
  <2>. QED BY <2>1 DEF ArrivalsArrive
<1>. QED
  BY <1>2, <1>3, <1>4, <1>5, <1>6

LEMMA HandlerArrivals ==
    ASSUME AdapterInv, Handlers
    PROVE  ArrivalsArrive'
<1>0. /\ AdapterTypeOK /\ Tracking /\ ArrivalsArrive /\ ReconcilingIsClosed /\ FirstConnectsFirst
      /\ SnapshotInHand
  BY DEF AdapterInv, Tracking
\* an operation is taken
<1>1. ASSUME NEW op, Next1(op),
             UNCHANGED <<leg, number, link, listening, epoch, served, turnedAway>>,
             \A c \in Calls : Overlooked(c) =>
                /\ Joins(1, c) => Taken(c)' \/ Closed'
                /\ Reconnects(1) => Closed'
                /\ ~accepting => Closed' \/ Cut \/ (JoinIsComing(c) /\ ~Joins(1, c))
      PROVE  ArrivalsArrive'
  <2>1. task = Idle /\ Len(queue) >= 1 /\ Len(queue) \in Nat /\ Len(queue') = Len(queue) - 1
        /\ \A n \in 1..Len(queue') : queue'[n] = queue[n + 1]
    BY <1>0, <1>1, Dequeued
  <2>2. \A n \in 1..Len(queue') : n + 1 \in 1..Len(queue) /\ n + 1 # 1
    BY <2>1
  <2>3. \A n \in 1..Len(queue') : ~(queue'[n].op = "connected" /\ queue'[n].first)
    BY <1>0, <2>1, <2>2 DEF FirstConnectsFirst
  <2>4. ASSUME NEW c \in Calls, Overlooked(c)
        PROVE  \/ Cut' \/ \E n \in 1..Len(queue') : Reconnects(n)'
               \/ JoinIsComing(c)' \/ Taken(c)' \/ Closed'
    <3>1. /\ JoinIsComing(c) => JoinIsComing(c)' \/ Joins(1, c)
          /\ (\E n \in 1..Len(queue) : Reconnects(n))
             => Reconnects(1) \/ \E n \in 1..Len(queue') : Reconnects(n)'
      BY <1>0, <1>1, TakingKeeps
    <3>2. \/ Cut \/ \E n \in 1..Len(queue) : Reconnects(n)
          \/ JoinIsComing(c) \/ ~accepting
      BY <1>0, <2>1, <2>4, IdleTask DEF ArrivalsArrive, Taken, Closed
    <3>3. Cut' <=> Cut
      BY <1>1 DEF Cut
    <3>. QED BY <1>1, <2>4, <3>1, <3>2, <3>3
  <2>5. \A c \in Calls : Overlooked(c)' <=> Overlooked(c)
    BY <1>1 DEF Overlooked
  <2>. QED BY <2>3, <2>4, <2>5 DEF ArrivalsArrive
<1>2. CASE TakeConnected
  <2>1. Next1("connected") /\ UNCHANGED <<leg, number, link, listening, epoch, served, turnedAway>>
    BY <1>2 DEF TakeConnected, pbx, control
  <2>2. task = Idle /\ Head(queue) = queue[1] /\ queue[1].op = "connected" /\ 1 \in 1..Len(queue)
    BY <1>0, <2>1, Dequeued
  <2>3. task' = Idle \/ task' = [Idle EXCEPT !.at = "snapshot", !.reconciling = TRUE]
    BY <1>2, <2>2 DEF TakeConnected
  <2>4. task'.at \in {"idle", "snapshot"}
    BY <2>3, IdleTask, StartedTask
  <2>5. /\ Reconnects(1) => ~accepting'
        /\ ~accepting => ~accepting' \/ (queue[1].epoch = epoch /\ queue[1].first)
    BY <1>2, <2>2 DEF TakeConnected, OpensAtOnce, Reconnects
  <2>6. ASSUME NEW c \in Calls, Overlooked(c), queue[1].epoch = epoch, queue[1].first
        PROVE  Cut \/ JoinIsComing(c)
    BY <1>0, <2>2, <2>6 DEF ArrivalsArrive
  <2>7. \A c \in Calls : ~Joins(1, c)
    BY <2>2 DEF Joins
  <2>. QED BY <1>1, <2>1, <2>4, <2>5, <2>6, <2>7 DEF Closed
<1>3. CASE TakeJoin
  <2>1. Next1("join") /\ UNCHANGED <<leg, number, link, listening, epoch, served, turnedAway, accepting>>
    BY <1>3 DEF TakeJoin, pbx, control, intake
  <2>2. task = Idle /\ Head(queue) = queue[1] /\ queue[1].op = "join"
    BY <1>0, <2>1, Dequeued
  <2>3. task' = IF Admitted(queue[1].call) THEN [Idle EXCEPT !.at = "resolve", !.call = queue[1].call]
                ELSE Idle
    BY <1>3, <2>2 DEF TakeJoin
  <2>4. /\ task'.at \in {"idle", "resolve"}
        /\ Admitted(queue[1].call) => task'.at = "resolve" /\ task'.call = queue[1].call
    <3>1. CASE Admitted(queue[1].call)
      BY <2>3, <3>1 DEF Idle
    <3>2. CASE ~Admitted(queue[1].call)
      BY <2>3, <3>2, IdleTask
    <3>. QED BY <3>1, <3>2
  <2>5. ASSUME NEW c \in Calls, Overlooked(c), Joins(1, c) PROVE Taken(c)' \/ ~accepting'
    <3>1. byCall[c] = None
      BY <1>0, <2>2, <2>5, IdleTask DEF Tracking, TrackedIsKnown, Overlooked, Taken
    <3>. QED BY <2>1, <2>4, <2>5, <3>1 DEF Admitted, Joins, Taken
  <2>6. ~Reconnects(1)
    BY <2>2 DEF Reconnects
  <2>. QED BY <1>1, <2>1, <2>4, <2>5, <2>6 DEF Closed
<1>4. CASE TakeEnd
  <2>1. Next1("end") /\ UNCHANGED <<leg, number, link, listening, epoch, served, turnedAway, accepting>>
    BY <1>4 DEF TakeEnd, pbx, control, intake
  <2>2. queue[1].op = "end"
    BY <1>0, <2>1, Dequeued
  <2>3. task' = Idle \/ \E c, i : task' = [Idle EXCEPT !.at = "end", !.call = c, !.id = i]
    BY <1>4 DEF TakeEnd
  <2>4. task'.at \in {"idle", "end"}
    BY <2>3, IdleTask, StartedTask
  <2>5. ~Reconnects(1) /\ \A c \in Calls : ~Joins(1, c)
    BY <2>2 DEF Reconnects, Joins
  <2>. QED BY <1>1, <2>1, <2>4, <2>5 DEF Closed
\* a step of the operation under way
<1>5. ASSUME Still,
             \A c \in Calls : Overlooked(c)' =>
                /\ Overlooked(c)
                /\ Taken(c) \/ c \in task.fresh => Taken(c)' \/ c \in task'.fresh \/ Closed'
                /\ Closed => Closed' \/ c \in task'.fresh
      PROVE  ArrivalsArrive'
  <2>1. ASSUME NEW c \in Calls
        PROVE  /\ JoinIsComing(c)' <=> JoinIsComing(c)
               /\ \A n : Reconnects(n)' <=> Reconnects(n)
               /\ Cut' <=> Cut
    BY <1>5, StillComing
  <2>2. Len(queue') = Len(queue) /\ queue' = queue /\ epoch' = epoch
    BY <1>5 DEF Still
  <2>. QED BY <1>0, <1>5, <2>1, <2>2 DEF ArrivalsArrive
<1>6. CASE Resolved
  <2>1. /\ Still /\ served' = served /\ accepting' = accepting /\ task.at = "resolve"
        /\ \/ task' = Resumed /\ turnedAway' = turnedAway \cup {task.call}
           \/ task' = [task EXCEPT !.at = "join"] /\ turnedAway' = turnedAway
    BY <1>6 DEF Resolved, Still, pbx, intake
  <2>2. task.fresh = Resumed.fresh /\ Resumed.at # "purge"
    BY <1>0, ResumedTask DEF SnapshotInHand
  <2>3. ASSUME NEW c \in Calls, Overlooked(c)'
        PROVE  Overlooked(c) /\ (Taken(c) => Taken(c)') /\ task'.fresh = task.fresh /\ task'.at # "purge"
    <3>1. CASE task' = Resumed /\ turnedAway' = turnedAway \cup {task.call}
      BY <2>1, <2>2, <2>3, <3>1 DEF Overlooked, Taken, Still
    <3>2. CASE task' = [task EXCEPT !.at = "join"] /\ turnedAway' = turnedAway
      BY <1>0, <2>1, <2>3, <3>2 DEF Overlooked, Taken, Still, AdapterTypeOK, Task
    <3>. QED BY <2>1, <3>1, <3>2
  <2>. QED BY <1>5, <2>1, <2>3 DEF Closed
<1>7. CASE JoinAnswered
  <2>1. /\ Still /\ accepting' = accepting /\ task.at = "join" /\ task' = Resumed
        /\ \A c \in Calls : c # task.call => served'[c] = served[c]
        /\ turnedAway \subseteq turnedAway'
        /\ task.call \in Calls =>
              task.call \in turnedAway' \/ served'[task.call] = "active"
    BY <1>0, <1>7 DEF JoinAnswered, Still, pbx, intake, AdapterTypeOK
  <2>2. task.fresh = Resumed.fresh /\ Resumed.at # "purge"
    BY <1>0, ResumedTask DEF SnapshotInHand
  <2>3. ASSUME NEW c \in Calls, Overlooked(c)' PROVE Overlooked(c) /\ ~Taken(c)
    BY <2>1, <2>3 DEF Overlooked, Taken, Still
  <2>. QED BY <1>5, <2>1, <2>2, <2>3 DEF Closed
<1>8. CASE EndAnswered
  <2>1. /\ Still /\ UNCHANGED <<accepting, turnedAway>> /\ task.at = "end" /\ task' = Idle
        /\ \A c \in Calls : served'[c] = "unknown" => served[c] = "unknown"
    BY <1>0, <1>8 DEF EndAnswered, EndOutcome, Still, pbx, intake, AdapterTypeOK
  <2>2. ASSUME NEW c \in Calls PROVE ~Taken(c) /\ c \notin task.fresh /\ (Overlooked(c)' => Overlooked(c))
    BY <1>0, <2>1 DEF Overlooked, Taken, Still, SnapshotInHand
  <2>. QED BY <1>5, <2>1, <2>2, IdleTask DEF Closed
<1>9. CASE Snapshot
  <2>1. /\ Still /\ UNCHANGED <<accepting, served, turnedAway>> /\ task.at = "snapshot" /\ ~accepting
        /\ \/ task' = Idle
           \/ task'.at = "purge" /\ task'.fresh = Up
    BY <1>0, <1>9 DEF Snapshot, Still, pbx, intake, control, AdapterTypeOK, Task, ReconcilingIsClosed
  <2>2. ASSUME NEW c \in Calls, Overlooked(c)' PROVE Overlooked(c) /\ c \in Up
    BY <2>1, <2>2 DEF Overlooked, Still, Up
  <2>. QED BY <1>5, <2>1, <2>2, IdleTask DEF Closed
<1>10. ASSUME NEW d \in Calls, Purge(d) PROVE ArrivalsArrive'
  <2>1. /\ Still /\ UNCHANGED <<accepting, turnedAway>> /\ task.at = "purge" /\ ~accepting
        /\ task' = Idle \/ task'.fresh = task.fresh
        /\ \A c \in Calls : served'[c] = "unknown" => served[c] = "unknown"
    BY <1>0, <1>10 DEF Purge, EndOutcome, Still, pbx, intake, AdapterTypeOK, Task, ReconcilingIsClosed
  <2>2. ASSUME NEW c \in Calls PROVE ~Taken(c) /\ ~Closed /\ (Overlooked(c)' => Overlooked(c))
    BY <2>1 DEF Overlooked, Taken, Still, Closed
  <2>. QED BY <1>5, <2>1, <2>2, IdleTask DEF Closed
<1>11. CASE Reopen
  <2>1. /\ Still /\ UNCHANGED <<served, turnedAway>> /\ task.at = "purge" /\ task'.fresh = task.fresh
    BY <1>0, <1>11 DEF Reopen, Still, pbx, control, AdapterTypeOK, Task
  <2>2. ASSUME NEW c \in Calls PROVE ~Taken(c) /\ ~Closed /\ (Overlooked(c)' => Overlooked(c))
    BY <2>1 DEF Overlooked, Taken, Still, Closed
  <2>. QED BY <1>5, <2>1, <2>2
<1>12. ASSUME NEW d \in Calls, AdmitFresh(d) PROVE ArrivalsArrive'
  <2>1. /\ Still /\ UNCHANGED <<served, turnedAway, accepting>> /\ task.at = "admit"
        /\ task'.fresh = task.fresh \ {d} /\ task'.at \in {"admit", "resolve"}
        /\ Admitted(d) => task'.at = "resolve" /\ task'.call = d
    BY <1>0, <1>12 DEF AdmitFresh, Still, pbx, intake, control, AdapterTypeOK, Task
  <2>2. ASSUME NEW c \in Calls, Overlooked(c)'
        PROVE  Overlooked(c) /\ ~Taken(c) /\ byCall[c] = None
    BY <1>0, <2>1, <2>2 DEF Overlooked, Taken, Still, Tracking, TrackedIsKnown
  <2>3. ASSUME Overlooked(d)' PROVE Taken(d)' \/ Closed'
    BY <2>1, <2>2, <2>3 DEF Admitted, Taken, Closed
  <2>. QED BY <1>5, <2>1, <2>2, <2>3 DEF Closed
<1>13. CASE Reconciled
  <2>1. /\ Still /\ UNCHANGED <<served, turnedAway, accepting>> /\ task.at = "admit"
        /\ task.fresh = {} /\ task' = Idle
    BY <1>13 DEF Reconciled, Still, pbx, intake, control
  <2>2. ASSUME NEW c \in Calls PROVE ~Taken(c) /\ (Overlooked(c)' => Overlooked(c))
    BY <2>1 DEF Overlooked, Taken, Still
  <2>. QED BY <1>5, <2>1, <2>2, IdleTask DEF Closed
<1>. QED
  BY <1>2, <1>3, <1>4, <1>6, <1>7, <1>8, <1>9, <1>10, <1>11, <1>12, <1>13 DEF Handlers

LEMMA AdapterKept == ASSUME AdapterInv, AdapterNext PROVE AdapterInv'
<1>1. AdapterTypeOK /\ Tracking
  BY DEF AdapterInv, Tracking
<1>2. AdapterTypeOK' /\ Tracking'
  BY <1>1, TypeKept, TrackingKept DEF Tracking
<1>3. FirstConnectsFirst' /\ EpochsArePast' /\ SnapshotInHand' /\ ReconcilingIsClosed'
  BY <1>1, FirstKept, EpochsKept, SnapshotKept, ReconcilingKept DEF AdapterInv
<1>4. DeparturesArrive' /\ ArrivalsArrive'
  BY PbxDepartures, HandlerDepartures, PbxArrivals, HandlerArrivals DEF AdapterNext
<1>. QED
  BY <1>2, <1>3, <1>4 DEF AdapterInv, Tracking

-----------------------------------------------------------------------------
(***************************************************************************)
(* The owner of the adapter.                                               *)
(***************************************************************************)
\* What its steps do to the adapter: they may cut the intake off and end calls.
OwnersPart ==
    /\ UNCHANGED <<leg, number, drops, queue, task, byCall, byId, epoch, everConnected, turnedAway>>
    /\ link' \in {"off", "down", "up"} /\ listening' \in BOOLEAN /\ stopping' \in BOOLEAN
    /\ (link' = link /\ listening' = listening) \/ Cut'
    /\ accepting' \in {accepting, FALSE}
    /\ served' \in [Calls -> {"unknown", "active", "stuck", "closed"}]
    /\ \A c \in Calls : /\ served'[c] = "unknown" <=> served[c] = "unknown"
                        /\ served'[c] = "active" => served[c] = "active"

LEMMA OwnersPartKeeps == ASSUME AdapterInv, OwnersPart PROVE AdapterInv'
<1>0. AdapterTypeOK /\ accepting \in BOOLEAN
  BY DEF AdapterInv, AdapterTypeOK
<1>1. AdapterTypeOK'
  BY <1>0 DEF AdapterTypeOK, OwnersPart
<1>2. NumbersAreGiven' /\ TaskIsOfACall' /\ TrackedIsKnown' /\ ServedIsTracked'
  BY DEF AdapterInv, NumbersAreGiven, TaskIsOfACall, TrackedIsKnown, ServedIsTracked, OwnersPart,
         Taken, Reused
<1>3. FirstConnectsFirst'
  <2>1. Fresh' <=> Fresh
    BY DEF OwnersPart, Fresh
  <2>2. listening' /\ link' = "up" => listening /\ link = "up"
    BY DEF OwnersPart, Cut
  <2>. QED BY <2>1, <2>2 DEF AdapterInv, FirstConnectsFirst, OwnersPart
<1>4. EpochsArePast' /\ SnapshotInHand'
  BY DEF AdapterInv, EpochsArePast, SnapshotInHand, OwnersPart
<1>5. (~accepting => ~accepting') /\ (Closed => Closed') /\ ReconcilingIsClosed'
  <2>1. task' = task /\ (~accepting => ~accepting')
    <3>1. CASE accepting' = accepting
      BY <3>1 DEF OwnersPart
    <3>2. CASE accepting' = FALSE
      BY <3>2 DEF OwnersPart
    <3>. QED BY <3>1, <3>2 DEF OwnersPart
  <2>. QED BY <2>1 DEF AdapterInv, ReconcilingIsClosed, Closed
<1>6. Len(queue') = Len(queue)
  BY DEF OwnersPart
<1>7. ASSUME NEW c \in Calls
      PROVE  /\ Departed(c)' <=> Departed(c)
             /\ Overlooked(c)' <=> Overlooked(c)
             /\ Taken(c)' <=> Taken(c)
             /\ Ending(c)' <=> Ending(c)
             /\ \A n : Joins(n, c)' <=> Joins(n, c)
             /\ \A n : Reconnects(n)' <=> Reconnects(n)
             /\ \A n : Ends(n, c)' <=> Ends(n, c)
  BY DEF OwnersPart, Departed, Reused, Overlooked, Taken, Ending, Joins, Reconnects, Ends
<1>8. ASSUME NEW c \in Calls
      PROVE  /\ Cut => Cut'
             /\ \A n : EndIsComing(c, n) => EndIsComing(c, n)'
             /\ JoinIsComing(c)' <=> JoinIsComing(c)
  <2>1. Cut => Cut'
    BY DEF OwnersPart, Cut
  <2>. QED BY <1>6, <1>7, <2>1 DEF EndIsComing, JoinIsComing
<1>9. DeparturesArrive'
  <2>1. UNCHANGED task /\ \A c \in Calls : served'[c] = "active" => served[c] = "active"
    BY DEF OwnersPart
  <2>. QED BY <1>5, <1>6, <1>7, <1>8, <2>1 DEF AdapterInv, DeparturesArrive
<1>10. ArrivalsArrive'
  <2>1. UNCHANGED <<task, queue, epoch>>
    BY DEF OwnersPart
  <2>. QED BY <1>5, <1>6, <1>7, <1>8, <2>1 DEF AdapterInv, ArrivalsArrive
<1>. QED
  BY <1>1, <1>2, <1>3, <1>4, <1>5, <1>9, <1>10 DEF AdapterInv

OwnerNext ==
    \/ StartTenant \/ Acquire \/ Connects \/ ConnectFails
    \/ Drained \/ Disconnect \/ ReleaseLease \/ Shutdown
    \/ Expire \/ Watchdog

LEMMA DrainIsOwners == ASSUME AdapterInv, Drain PROVE OwnersPart
BY DEF Drain, OwnersPart, pbx, intake, tracked, AdapterInv, AdapterTypeOK, Cut

LEMMA UnchangedIsOwners == ASSUME AdapterInv, UNCHANGED adapterVars PROVE OwnersPart
BY DEF adapterVars, OwnersPart, pbx, intake, tracked, control, AdapterInv, AdapterTypeOK, Cut

LEMMA OwnerSteps == ASSUME RuntimeInv, OwnerNext PROVE OwnersPart
<1>0. AdapterInv /\ AdapterTypeOK
  BY DEF RuntimeInv, AdapterInv
<1>1. CASE StartTenant \/ Connects \/ ReleaseLease \/ Expire
  BY <1>0, <1>1, UnchangedIsOwners DEF StartTenant, Connects, ReleaseLease, Expire
<1>2. CASE ConnectFails \/ Shutdown \/ Watchdog
  BY <1>0, <1>2, DrainIsOwners, UnchangedIsOwners DEF ConnectFails, Shutdown, Watchdog
<1>3. CASE Acquire
  <2>1. CASE UNCHANGED adapterVars
    BY <1>0, <2>1, UnchangedIsOwners
  <2>2. CASE /\ link' = "down" /\ Listen
             /\ UNCHANGED <<leg, number, drops, queue, task, tracked, control>>
    BY <1>0, <2>2 DEF Listen, OwnersPart, tracked, control, AdapterTypeOK, Cut
  <2>. QED BY <1>3, <2>1, <2>2 DEF Acquire
<1>4. CASE Drained
  <2>1. PICK left \in SUBSET Held :
           /\ served' = [c \in Calls |-> IF c \in left THEN "stuck"
                                         ELSE IF c \in Held THEN "closed" ELSE served[c]]
           /\ Unlisten \/ UNCHANGED intake
    BY <1>4 DEF Drained
  <2>2. /\ served' \in [Calls -> {"unknown", "active", "stuck", "closed"}]
        /\ \A c \in Calls : /\ served'[c] = "unknown" <=> served[c] = "unknown"
                            /\ served'[c] = "active" => served[c] = "active"
    BY <1>0, <2>1 DEF Held, AdapterTypeOK
  <2>3. UNCHANGED <<pbx, queue, task, tracked, stopping, turnedAway>>
    BY <1>4 DEF Drained
  <2>. QED BY <1>0, <2>1, <2>2, <2>3
           DEF Unlisten, OwnersPart, pbx, intake, tracked, AdapterTypeOK, Cut
<1>5. CASE Disconnect
  <2>1. /\ link' \in {link, "off"}
        /\ UNCHANGED <<leg, number, drops, intake, queue, task, tracked, control>>
    BY <1>5 DEF Disconnect
  <2>. QED BY <1>0, <2>1 DEF OwnersPart, intake, tracked, control, AdapterTypeOK, Cut
<1>. QED
  BY <1>1, <1>2, <1>3, <1>4, <1>5 DEF OwnerNext

LEMMA OwnerTypes ==
    ASSUME RuntimeInv, OwnerNext
    PROVE  RuntimeTypeOK' /\ StepsFollowStates'
<1>. USE DEF RuntimeInv, RuntimeTypeOK, StepsFollowStates
<1>0. AdapterTypeOK'
  BY OwnerSteps, OwnersPartKeeps DEF AdapterInv
<1>1. /\ {expired, armed, stopping} \subseteq BOOLEAN
      /\ UNCHANGED everConnected
  BY OwnerSteps DEF AdapterTypeOK, OwnersPart
<1>2. CASE StartTenant
  BY <1>0, <1>2 DEF StartTenant, adapterVars, pbx, intake, control, Untouched, Starting
<1>3. CASE Acquire
  <2>1. UNCHANGED stopping
    BY <1>3 DEF Acquire, adapterVars, control
  <2>2. CASE UNCHANGED adapterVars /\ broker' = "failed" /\ step' = "none" /\ UNCHANGED <<runtime, lease>>
    <3>1. UNCHANGED <<link, listening, everConnected>>
      BY <2>2 DEF adapterVars, pbx, intake
    <3>. QED BY <1>0, <1>3, <2>1, <2>2, <3>1 DEF Acquire, Untouched, Starting
  <2>3. CASE lease' = "held" /\ runtime' = "starting" /\ step' = "connect" /\ UNCHANGED broker
    BY <1>0, <1>3, <2>1, <2>3 DEF Acquire, Untouched, Starting
  <2>. QED BY <1>3, <2>2, <2>3 DEF Acquire
<1>4. CASE Connects
  BY <1>0, <1>4 DEF Connects, adapterVars, control, Untouched, Starting
<1>5. CASE ConnectFails
  BY <1>0, <1>5 DEF ConnectFails, Drain, Untouched, Starting
<1>6. CASE Drained
  <2>1. step = "drain" /\ UNCHANGED <<stopping, lease, expired, armed>>
        /\ \/ step' = "disconnect" /\ UNCHANGED <<broker, runtime>>
           \/ Incomplete
    BY <1>6 DEF Drained
  <2>. QED BY <1>0, <2>1 DEF Incomplete, Untouched, Starting
<1>7. CASE Disconnect
  <2>1. step = "disconnect" /\ UNCHANGED <<stopping, lease, expired, armed>>
        /\ \/ step' = "release" /\ UNCHANGED broker
              /\ runtime' = IF Starting THEN "failed" ELSE "stopped"
           \/ Incomplete
    BY <1>7 DEF Disconnect, control
  <2>. QED BY <1>0, <2>1 DEF Incomplete, Untouched, Starting
<1>8. CASE ReleaseLease
  <2>1. UNCHANGED <<stopping, link, listening>>
    BY <1>8 DEF ReleaseLease, adapterVars, control, pbx, intake
  <2>2. armed' \in BOOLEAN /\ (armed' => lease' = "held")
    BY <1>1, <1>8 DEF ReleaseLease, StaysArmed
  <2>. QED BY <1>0, <1>8, <2>1, <2>2 DEF ReleaseLease, Untouched, Starting
<1>9. CASE Shutdown
  <2>1. CASE runtime \in {"running", "draining"} /\ broker' = "stopping" /\ Drain
    BY <1>0, <1>9, <2>1 DEF Shutdown, Drain, Untouched, Starting
  <2>2. CASE /\ runtime \in {"none", "stopped", "abandoned"} /\ UNCHANGED adapterVars
             /\ IF lease = "held" THEN broker' = "stopping" /\ step' = "release"
                ELSE broker' = "stopped" /\ UNCHANGED step
    <3>1. UNCHANGED <<link, listening, stopping>>
      BY <2>2 DEF adapterVars, pbx, intake, control
    <3>. QED BY <1>0, <1>1, <1>9, <2>2, <3>1 DEF Shutdown, Untouched, Starting
  <2>. QED BY <1>9, <2>1, <2>2 DEF Shutdown
<1>10. CASE Expire
  BY <1>0, <1>10 DEF Expire, adapterVars, pbx, intake, control, Untouched, Starting
<1>11. CASE Watchdog
  <2>1. CASE broker = "running" /\ broker' = "stopping" /\ Drain
    BY <1>0, <1>11, <2>1 DEF Watchdog, Drain, Untouched, Starting
  <2>2. CASE UNCHANGED <<adapterVars, broker, step>>
    <3>1. UNCHANGED <<link, listening, stopping>>
      BY <2>2 DEF adapterVars, pbx, intake, control
    <3>. QED BY <1>0, <1>1, <1>11, <2>2, <3>1 DEF Watchdog, Untouched, Starting
  <2>. QED BY <1>11, <2>1, <2>2 DEF Watchdog
<1>. QED
  BY <1>2, <1>3, <1>4, <1>5, <1>6, <1>7, <1>8, <1>9, <1>10, <1>11 DEF OwnerNext

\* The adapter's steps leave its owner alone, and do not reopen what has drained.
LEMMA AdapterSteps ==
    ASSUME RuntimeInv, Adapter
    PROVE  RuntimeTypeOK' /\ StepsFollowStates' /\ DrainedIsSealed'
<1>. USE DEF RuntimeInv
<1>0. AdapterInv /\ AdapterTypeOK /\ AdapterTypeOK' /\ AdapterNext /\ UNCHANGED owner
  BY AdapterKept DEF Adapter, AdapterInv
<1>1. stopping' = stopping /\ (Untouched => UNCHANGED <<link, listening, everConnected>>)
  <2>1. CASE \E c \in Calls : HangsUp(c) \/ EndedByController(c) \/ \E i \in Ids : Ring(c, i)
    BY <2>1 DEF HangsUp, EndedByController, Ring, intake, control, pbx
  <2>2. CASE Connected \/ Disconnected
    BY <2>2, ConnectedEffect DEF Disconnected, control, Untouched
  <2>3. CASE Handlers
    BY <2>3 DEF Handlers, TakeConnected, TakeJoin, TakeEnd, Resolved, JoinAnswered, EndAnswered,
       Snapshot, Reopen, Reconciled, Purge, AdmitFresh, pbx, intake, control
  <2>. QED BY <1>0, <2>1, <2>2, <2>3 DEF AdapterNext
<1>2. RuntimeTypeOK'
  BY <1>0 DEF RuntimeTypeOK, owner
<1>3. StepsFollowStates'
  BY <1>0, <1>1 DEF StepsFollowStates, Untouched, Starting, owner
<1>4. ASSUME Sealed PROVE Sealed'
  <2>1. \A c \in Calls : served[c] \notin {"active", "stuck"}
    BY <1>4 DEF Sealed, Held
  <2>2. task'.at # "join" /\ \A c \in Calls : served'[c] \notin {"active", "stuck"}
    <3>1. CASE \/ \E c \in Calls : HangsUp(c) \/ EndedByController(c) \/ \E i \in Ids : Ring(c, i)
               \/ Connected \/ Disconnected
      BY <1>4, <2>1, <3>1, ConnectedEffect DEF HangsUp, EndedByController, Ring, Disconnected, control, Sealed
    <3>2. CASE TakeConnected \/ TakeJoin \/ TakeEnd
      <4>1. /\ served' = served
            /\ \/ task' \in {task, Idle}
               \/ task' = [Idle EXCEPT !.at = "snapshot", !.reconciling = TRUE]
               \/ \E c : task' = [Idle EXCEPT !.at = "resolve", !.call = c]
               \/ \E c, i : task' = [Idle EXCEPT !.at = "end", !.call = c, !.id = i]
        BY <3>2 DEF TakeConnected, TakeJoin, TakeEnd, control
      <4>2. task'.at # "join"
        BY <1>4, <4>1, IdleTask, StartedTask DEF Sealed
      <4>. QED BY <2>1, <4>1, <4>2
    <3>3. CASE Resolved
      <4>1. served' = served /\ task' = Resumed
        BY <1>4, <3>3 DEF Resolved, Sealed
      <4>. QED BY <1>0, <2>1, <4>1, ResumedTask
    <3>4. CASE JoinAnswered
      BY <1>4, <3>4 DEF JoinAnswered, Sealed
    <3>5. CASE EndAnswered \/ \E c \in Calls : Purge(c)
      <4>1. /\ task' = Idle \/ (task.at = "purge" /\ \E c : task' = [task EXCEPT !.stale = @ \ {c}])
            /\ \E c \in Calls : \E s \in EndOutcome(c) : served' = [served EXCEPT ![c] = s]
        BY <1>0, <3>5 DEF EndAnswered, Purge, AdapterInv, TaskIsOfACall
      <4>2. \A c \in Calls : served'[c] \notin {"active", "stuck"}
        BY <1>0, <2>1, <4>1 DEF EndOutcome, AdapterTypeOK
      <4>. QED BY <1>0, <4>1, <4>2, IdleTask DEF AdapterTypeOK, Task
    <3>6. CASE Snapshot \/ Reopen \/ Reconciled \/ \E c \in Calls : AdmitFresh(c)
      BY <1>0, <2>1, <3>6, IdleTask
         DEF Snapshot, Reopen, Reconciled, AdmitFresh, control, AdapterTypeOK, Task
    <3>. QED BY <1>0, <3>1, <3>2, <3>3, <3>4, <3>5, <3>6 DEF AdapterNext, Handlers
  <2>. QED BY <1>1, <1>4, <2>2 DEF Sealed, Held
<1>5. DrainedIsSealed'
  BY <1>0, <1>4 DEF DrainedIsSealed, owner
<1>. QED
  BY <1>2, <1>3, <1>5

\* No step of the owner's makes a call its own after the drain.
LEMMA OwnerSeals == ASSUME RuntimeInv, OwnerNext PROVE DrainedIsSealed'
<1>. USE DEF RuntimeInv
<1>1. ASSUME Sealed, UNCHANGED <<task, served>>, stopping' \in {TRUE, stopping} PROVE Sealed'
  BY <1>1 DEF Sealed, Held
<1>2. UNCHANGED adapterVars => UNCHANGED <<task, served, stopping>>
  BY DEF adapterVars, control
<1>3. CASE StartTenant \/ Connects \/ Expire
  BY <1>1, <1>2, <1>3 DEF StartTenant, Connects, Expire, DrainedIsSealed, StepsFollowStates
<1>4. CASE Acquire
  <2>1. lease = "none" /\ runtime = "none"
    BY <1>4 DEF Acquire, StepsFollowStates, Untouched
  <2>. QED BY <1>4, <2>1 DEF Acquire, DrainedIsSealed
<1>5. CASE ConnectFails \/ Shutdown \/ Watchdog
  <2>1. /\ UNCHANGED <<task, served, runtime, lease>> /\ stopping' \in {TRUE, stopping}
        /\ step' \in {step, "drain", "release"}
    BY <1>2, <1>5 DEF ConnectFails, Shutdown, Watchdog, Drain
  <2>. QED BY <1>1, <2>1 DEF DrainedIsSealed
<1>6. CASE Drained
  <2>1. step = "drain" /\ task.at # "join" /\ UNCHANGED <<task, stopping, lease>> /\ stopping
        /\ runtime \in {"starting", "running", "draining"}
    BY <1>6 DEF Drained, StepsFollowStates
  <2>2. PICK left \in SUBSET Held :
           /\ served' = [c \in Calls |-> IF c \in left THEN "stuck"
                                         ELSE IF c \in Held THEN "closed" ELSE served[c]]
           /\ left = {} \/ Incomplete
    BY <1>6 DEF Drained
  <2>3. CASE left = {}
    <3>1. \A c \in Calls : served'[c] \notin {"active", "stuck"}
      BY <2>2, <2>3 DEF Held
    <3>. QED BY <2>1, <3>1 DEF DrainedIsSealed, Sealed, Held
  <2>4. CASE Incomplete
    BY <2>4 DEF Incomplete, DrainedIsSealed
  <2>. QED BY <2>2, <2>3, <2>4
<1>7. CASE Disconnect
  BY <1>1, <1>7 DEF Disconnect, Incomplete, DrainedIsSealed, control
<1>8. CASE ReleaseLease
  <2>1. UNCHANGED <<task, served, stopping>>
    BY <1>2, <1>8 DEF ReleaseLease
  <2>2. lease # "none" /\ step' = "none" /\ step = "release"
    BY <1>8 DEF ReleaseLease, StepsFollowStates, Untouched
  <2>3. CASE Starting
    BY <1>1, <1>8, <2>1, <2>2, <2>3 DEF ReleaseLease, DrainedIsSealed, StepsFollowStates
  <2>4. CASE ~Starting
    BY <1>1, <1>8, <2>1, <2>2, <2>4 DEF ReleaseLease, DrainedIsSealed, StepsFollowStates
  <2>. QED BY <2>3, <2>4
<1>. QED
  BY <1>3, <1>4, <1>5, <1>6, <1>7, <1>8 DEF OwnerNext

-----------------------------------------------------------------------------
(***************************************************************************)
(* The invariant and what follows from it.                                 *)
(***************************************************************************)
LEMMA RuntimeStarts == RuntimeInit => RuntimeInv
<1>1. RuntimeInit => AdapterTypeOK /\ RuntimeTypeOK
  <2>1. <<>> \in Seq(Event) /\ Idle \in Task /\ MaxDrops \in Nat
    BY AdapterAssumption, QueueIsTyped, IdleTask
  <2>2. AdapterInit => AdapterTypeOK
    <3>1. AdapterInit => everConnected \in BOOLEAN /\ accepting \in BOOLEAN
                         /\ listening \in BOOLEAN /\ stopping \in BOOLEAN
      BY DEF AdapterInit
    <3>2. AdapterInit => queue \in Seq(Event) /\ task \in Task /\ drops \in 0..MaxDrops /\ epoch \in Nat
      BY <2>1 DEF AdapterInit
    <3>3. AdapterInit => /\ leg \in [Calls -> {"none", "up", "gone"}]
                         /\ number \in [Calls -> Ids \cup {None}]
                         /\ link \in {"off", "down", "up"}
                         /\ byCall \in [Calls -> Ids \cup {None}]
                         /\ byId \in [Ids -> Calls \cup {None}]
                         /\ served \in [Calls -> {"unknown", "active", "stuck", "closed"}]
                         /\ turnedAway \subseteq Calls
      BY DEF AdapterInit
    <3>. QED BY <3>1, <3>2, <3>3 DEF AdapterTypeOK
  <2>. QED BY <2>2 DEF RuntimeInit, RuntimeTypeOK
<1>2. RuntimeInit => NumbersAreGiven /\ TaskIsOfACall /\ TrackedIsKnown /\ ServedIsTracked
  BY IdleTask DEF RuntimeInit, AdapterInit, NumbersAreGiven, TaskIsOfACall, TrackedIsKnown,
     ServedIsTracked, Taken
<1>3. RuntimeInit => /\ FirstConnectsFirst /\ EpochsArePast /\ SnapshotInHand /\ ReconcilingIsClosed
                     /\ DeparturesArrive /\ ArrivalsArrive
  BY IdleTask DEF RuntimeInit, AdapterInit, FirstConnectsFirst, EpochsArePast, SnapshotInHand,
     ReconcilingIsClosed, DeparturesArrive, ArrivalsArrive, Fresh, Departed, Overlooked
<1>4. RuntimeInit => StepsFollowStates /\ DrainedIsSealed
  BY DEF RuntimeInit, AdapterInit, StepsFollowStates, DrainedIsSealed, Untouched
<1>. QED
  BY <1>1, <1>2, <1>3, <1>4 DEF RuntimeInv, AdapterInv

LEMMA RuntimeStep == RuntimeInv /\ [RuntimeNext]_runtimeVars => RuntimeInv'
<1>. SUFFICES ASSUME RuntimeInv, [RuntimeNext]_runtimeVars PROVE RuntimeInv'
  OBVIOUS
<1>1. CASE Adapter
  <2>1. AdapterInv'
    BY <1>1, AdapterKept DEF RuntimeInv, Adapter
  <2>. QED BY <1>1, <2>1, AdapterSteps DEF RuntimeInv
<1>2. CASE OwnerNext
  <2>1. AdapterInv'
    BY <1>2, OwnerSteps, OwnersPartKeeps DEF RuntimeInv
  <2>. QED BY <1>2, <2>1, OwnerTypes, OwnerSeals DEF RuntimeInv
<1>3. CASE UNCHANGED runtimeVars
  <2>1. UNCHANGED adapterVars /\ UNCHANGED owner
    BY <1>3 DEF runtimeVars
  <2>2. AdapterInv'
    BY <2>1, UnchangedIsOwners, OwnersPartKeeps DEF RuntimeInv
  <2>3. UNCHANGED <<link, listening, everConnected, stopping, task, served>>
    BY <2>1 DEF adapterVars, pbx, intake, control
  <2>4. RuntimeTypeOK'
    BY <2>1, <2>2 DEF RuntimeInv, RuntimeTypeOK, AdapterInv, owner
  <2>5. StepsFollowStates' /\ DrainedIsSealed'
    BY <2>1, <2>3 DEF RuntimeInv, StepsFollowStates, DrainedIsSealed, Untouched, Sealed, Held,
       Starting, owner
  <2>. QED BY <2>2, <2>4, <2>5 DEF RuntimeInv
<1>. QED
  BY <1>1, <1>2, <1>3 DEF RuntimeNext, OwnerNext

\* The invariant of the runtime and its adapter.
LEMMA RuntimeInvariance == RuntimeSpec => []RuntimeInv
BY RuntimeStarts, RuntimeStep, PTL DEF RuntimeSpec

(***************************************************************************)
(* Types: whatever the PBX sends and whichever await of start() or         *)
(* shutdown() fails, the adapter's maps hold calls and numbers, the queue  *)
(* holds operations, and the watchdog runs only for a lease that is held   *)
(* (EventAdapter.AdapterTypeOK and the runtime's states).                  *)
(***************************************************************************)
THEOREM RuntimeTypes == RuntimeSpec => []RuntimeTypeOK
<1>1. RuntimeInv => RuntimeTypeOK
  BY DEF RuntimeInv
<1>. QED
  BY <1>1, RuntimeInvariance, PTL

(***************************************************************************)
(* A call the controller serves is in both of the adapter's maps, unless   *)
(* its participant number is another's too (#onParticipantConnected,       *)
(* #onParticipantDisconnected).                                            *)
(***************************************************************************)
THEOREM ServedCallsAreTracked == RuntimeSpec => []ServedIsTracked
<1>1. RuntimeInv => ServedIsTracked
  BY DEF RuntimeInv, AdapterInv
<1>. QED
  BY <1>1, RuntimeInvariance, PTL

(***************************************************************************)
(* With the intake open and every event handled, the controller serves     *)
(* nobody who has left and overlooks nobody who is there, however often    *)
(* the connection was lost and whatever was lost with it                   *)
(* (#reconcileAfterReconnect).                                             *)
(***************************************************************************)
THEOREM IntakeAgreesWithPbx == RuntimeSpec => []IntakeIsTrue
<1>1. ASSUME RuntimeInv, IntakeIsOpen
      PROVE  /\ Len(queue) = 0 /\ ~Cut /\ ~Closed /\ task.fresh = {} /\ task.at = "idle"
             /\ \A c \in Calls : ~Taken(c) /\ ~Ending(c)
  <2>1. listening /\ link = "up" /\ accepting /\ queue = <<>> /\ task = Idle
    BY <1>1 DEF IntakeIsOpen
  <2>. QED BY <2>1, IdleTask DEF Cut, Closed, Taken, Ending
<1>2. ASSUME RuntimeInv PROVE OpenIntakeIsCurrent
  <2>1. SUFFICES ASSUME IntakeIsOpen, NEW c \in Calls, served[c] = "active"
                 PROVE  leg[c] = "up" \/ Reused(c)
    BY DEF OpenIntakeIsCurrent
  <2>2. leg[c] \in {"none", "up", "gone"} /\ leg[c] # "none"
    BY <1>2, <2>1 DEF RuntimeInv, AdapterInv, AdapterTypeOK, NumbersAreGiven
  <2>3. ~Departed(c)
    BY <1>1, <1>2, <2>1 DEF RuntimeInv, AdapterInv, DeparturesArrive, EndIsComing
  <2>. QED BY <2>2, <2>3 DEF Departed
<1>3. ASSUME RuntimeInv PROVE EveryCallerIsOffered
  <2>1. SUFFICES ASSUME IntakeIsOpen, NEW c \in Calls, leg[c] = "up"
                 PROVE  served[c] # "unknown" \/ c \in turnedAway
    BY DEF EveryCallerIsOffered, Up
  <2>2. ~Overlooked(c)
    BY <1>1, <1>3, <2>1 DEF RuntimeInv, AdapterInv, ArrivalsArrive, JoinIsComing
  <2>. QED BY <2>1, <2>2 DEF Overlooked
<1>4. RuntimeInv => IntakeIsTrue
  BY <1>2, <1>3 DEF IntakeIsTrue
<1>. QED
  BY <1>4, RuntimeInvariance, PTL

(***************************************************************************)
(* The lease is not given back while the controller has a call, active or  *)
(* stuck, save after a failed start whose drain was not complete           *)
(* (broker-bound-tenant-runtime.mjs:71): whichever of the broker, the PBX  *)
(* and the drain fails, and however often shutdown is called again.        *)
(***************************************************************************)
THEOREM LeaseOutlivesCalls == RuntimeSpec => []LeaseCoversCalls
<1>1. ASSUME RuntimeInv, lease = "none" PROVE Held = {}
  BY <1>1 DEF RuntimeInv, AdapterInv, StepsFollowStates, Untouched, FirstConnectsFirst, Fresh, Held
<1>2. ASSUME RuntimeInv, lease = "released" PROVE Held = {} \/ runtime = "abandoned"
  <2>1. runtime \in {"none", "stopped", "abandoned"}
    BY <1>2 DEF RuntimeInv, RuntimeTypeOK, StepsFollowStates
  <2>. QED BY <1>2, <2>1 DEF RuntimeInv, DrainedIsSealed, Sealed
<1>3. RuntimeInv => LeaseCoversCalls
  BY <1>1, <1>2 DEF LeaseCoversCalls, RuntimeInv, RuntimeTypeOK
<1>. QED
  BY <1>3, RuntimeInvariance, PTL
=============================================================================
