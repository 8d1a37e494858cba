----------------------------- MODULE ServiceProofs -----------------------------
(***************************************************************************)
(* The broker's calendar reads, the voice agent, and the pages that hold a *)
(* voice session or show a status: for each an inductive invariant, and    *)
(* together the invariants of MCServices, for every value of its constants.*)
(***************************************************************************)
EXTENDS MCServices, SequenceTheorems, TLAPS

-----------------------------------------------------------------------------
(***************************************************************************)
(* The calendar reads.  A load that no write has crossed runs while no     *)
(* answered write is on its way, so what it stores is not older than what  *)
(* a caller was told, nor than a write whose answer was lost and that a    *)
(* caller may be told of later; what is cached before a write is answered  *)
(* is emptied first.                                                       *)
(***************************************************************************)
WritesArePast == \A w \in Writers : write[w].value <= calendar

\* a value with all that was told, and all that may be told without a mark
Complete(value) ==
    told <= value /\ \A w \in Writers : write[w].lost => write[w].value <= value

\* the load that holds the synchronisation lock waits for it
HolderWaits == sync.holder \in Keys \ {"loop"} => load[sync.holder].at = "sync"

LoadIsClear(k) == load[k].at # "none" /\ ~load[k].crossed => ~Writing

LoadIsNew(k) == load[k].at = "done" /\ ~load[k].crossed => Complete(load[k].value)

EntryIsNew(k) ==
    entry[k].at = "held" /\ ~entry[k].crossed =>
        /\ Complete(entry[k].value)
        /\ \A w \in Writers : write[w].at = "emptied" => write[w].lost

MirrorIsNew == Usable /\ ~mirror.crossed => Complete(mirror.value)

UnknownIsLost == \A w \in Writers : write[w].at = "unknown" => write[w].lost

ReadsInv ==
    /\ ReadsTypeOK /\ WritesArePast /\ UnknownIsLost /\ HolderWaits /\ MirrorIsNew
    /\ \A k \in Keys : LoadIsClear(k) /\ LoadIsNew(k) /\ EntryIsNew(k)

LEMMA ReadsInitial == ReadsInit => ReadsInv
<1>. SUFFICES ASSUME ReadsInit PROVE ReadsInv
  OBVIOUS
<1>. USE ReadsAssumption DEF ReadsInit, Contents, NoEntry, NoSync, NoWrite
<1>1. ReadsTypeOK
  <2>1. 0 \in Contents /\ 0 \in 0..calendar
    OBVIOUS
  <2>2. /\ write \in [Writers -> [at : {"idle", "unknown", "written", "emptied"},
                                  value : Contents, lost : BOOLEAN]]
        /\ entry \in [Keys -> [at : {"none", "held"}, value : Contents, crossed : BOOLEAN]]
        /\ load \in [Keys -> [at : {"none", "mirror", "sync", "again", "live", "done"},
                              value : Contents, crossed : BOOLEAN]]
    BY <2>1
  <2>3. sync \in [holder : Keys \cup {"loop", Nobody},
                  at : {"none", "locked", "chosen", "paging", "read"},
                  token : {"none", "good", "gone"}, value : Contents]
    BY <2>1
  <2>4. mirror \in [status : {"none", "pending", "syncing", "ready", "failed", "full"},
                    fresh : BOOLEAN, token : {"none", "good", "gone"}, value : Contents,
                    crossed : BOOLEAN]
    BY <2>1
  <2>5. readFaults \in 0..MaxFaults
    OBVIOUS
  <2>6. known \in BOOLEAN
    OBVIOUS
  <2>. QED
    BY <2>1, <2>2, <2>3, <2>4, <2>5, <2>6 DEF ReadsTypeOK
<1>. QED
  BY <1>1 DEF ReadsInv, WritesArePast, UnknownIsLost, HolderWaits, LoadIsClear, LoadIsNew,
     EntryIsNew, MirrorIsNew, Usable

-----------------------------------------------------------------------------
(***************************************************************************)
(* Types.                                                                  *)
(***************************************************************************)
LoadState == [at : {"none", "mirror", "sync", "again", "live", "done"},
              value : Contents, crossed : BOOLEAN]

WriteState == [at : {"idle", "unknown", "written", "emptied"}, value : Contents, lost : BOOLEAN]

LEMMA WriteKeepsType ==
    ASSUME ReadsTypeOK, NEW w \in Writers, NEW at \in {"idle", "unknown", "written", "emptied"},
           NEW lost \in BOOLEAN
    PROVE  /\ [write[w] EXCEPT !.at = at, !.lost = lost] \in WriteState
           /\ [write EXCEPT ![w].at = at, ![w].lost = lost] \in [Writers -> WriteState]
<1>1. write \in [Writers -> WriteState] /\ write[w] \in WriteState
  BY DEF ReadsTypeOK, WriteState
<1>2. ASSUME NEW r \in WriteState
      PROVE  [r EXCEPT !.at = at, !.lost = lost] \in WriteState
  BY DEF WriteState
<1>3. [write[w] EXCEPT !.at = at, !.lost = lost] \in WriteState
  BY <1>1, <1>2
<1>4. [write EXCEPT ![w].at = at, ![w].lost = lost]
         = [write EXCEPT ![w] = [write[w] EXCEPT !.at = at, !.lost = lost]]
  BY <1>1 DEF WriteState
<1>. QED
  BY <1>1, <1>3, <1>4

LEMMA LoadKeepsType ==
    ASSUME ReadsTypeOK, NEW k \in Keys, NEW value \in Contents, NEW crossed \in BOOLEAN,
           Loaded(k, value, crossed)
    PROVE  load' \in [Keys -> LoadState]
<1>1. load \in [Keys -> LoadState] /\ load[k].crossed \in BOOLEAN
  BY DEF ReadsTypeOK, LoadState
<1>2. (load[k].crossed \/ crossed) \in BOOLEAN
  OBVIOUS
<1>3. ASSUME NEW c \in BOOLEAN
      PROVE  [load EXCEPT ![k].at = "done", ![k].value = value, ![k].crossed = c]
                \in [Keys -> LoadState]
  BY <1>1 DEF LoadState
<1>. QED
  BY <1>2, <1>3 DEF Loaded

LEMMA SyncedKeepsType ==
    ASSUME ReadsTypeOK, NEW ok \in BOOLEAN, Synced(ok)
    PROVE  load' \in [Keys -> LoadState] /\ sync' = NoSync
<1>1. load \in [Keys -> LoadState]
  BY DEF ReadsTypeOK, LoadState
<1>2. ASSUME NEW h, NEW at \in {"again", "live"}
      PROVE  [load EXCEPT ![h].at = at] \in [Keys -> LoadState]
  BY <1>1 DEF LoadState
<1>. QED
  BY <1>1, <1>2 DEF Synced

LEMMA ReadsTypes == ReadsInv /\ ReadsNext => ReadsTypeOK'
<1>. SUFFICES ASSUME ReadsInv, ReadsNext PROVE ReadsTypeOK'
  OBVIOUS
<1>0. ReadsTypeOK /\ WritesArePast
  BY DEF ReadsInv
<1>a. load \in [Keys -> LoadState] /\ (Writing \in BOOLEAN) /\ 0 \in Contents
  BY <1>0, ReadsAssumption DEF ReadsTypeOK, LoadState, Writing, Contents
<1>b. NoSync \in [holder : Keys \cup {"loop", Nobody},
                  at : {"none", "locked", "chosen", "paging", "read"},
                  token : {"none", "good", "gone"}, value : Contents]
  BY <1>a DEF NoSync
<1>c. NoEntry \in LoadState /\ [k \in Keys |-> NoEntry] \in [Keys -> LoadState]
  BY <1>a DEF NoEntry, LoadState
<1>d. Fault => readFaults' \in 0..MaxFaults
  BY <1>0, ReadsAssumption DEF Fault, ReadsTypeOK
<1>e. [k \in Keys |-> [load[k] EXCEPT !.crossed = load[k].at # "none"]] \in [Keys -> LoadState]
  <2>1. \A k \in Keys : (load[k].at # "none") \in BOOLEAN
    OBVIOUS
  <2>2. ASSUME NEW k \in Keys, NEW c \in BOOLEAN
        PROVE  [load[k] EXCEPT !.crossed = c] \in LoadState
    BY <1>a DEF LoadState
  <2>. QED
    BY <2>1, <2>2
<1>f. ASSUME NEW w \in Writers, TellCaller(w)
      PROVE  write' \in [Writers -> [at : {"idle", "unknown", "written", "emptied"},
                                     value : Contents, lost : BOOLEAN]]
  BY <1>0, <1>f, WriteKeepsType DEF TellCaller, WriteState
<1>1. ASSUME NEW w \in Writers, GoogleWrites(w) PROVE ReadsTypeOK'
  <2>1. calendar' \in Contents /\ told \in 0..calendar'
    BY <1>0, <1>1, ReadsAssumption DEF GoogleWrites, ReadsTypeOK, Contents
  <2>2. load' \in [Keys -> LoadState]
    BY <1>1, <1>e DEF GoogleWrites
  <2>. QED
    BY <1>0, <1>1, <2>1, <2>2 DEF GoogleWrites, ReadsTypeOK, LoadState
<1>2. ASSUME NEW w \in Writers, InvalidateCompany(w) PROVE ReadsTypeOK'
  BY <1>0, <1>2, <1>a DEF InvalidateCompany, ReadsTypeOK, NoEntry
<1>13. ASSUME NEW w \in Writers, AnswerLost(w) PROVE ReadsTypeOK'
  <2>1. calendar' \in Contents /\ told \in 0..calendar' /\ calendar + 1 \in Contents
    BY <1>0, <1>13, ReadsAssumption DEF AnswerLost, ReadsTypeOK, Contents
  <2>2. load' \in [Keys -> LoadState]
    BY <1>13, <1>e DEF AnswerLost
  <2>3. entry' \in [Keys -> [at : {"none", "held"}, value : Contents, crossed : BOOLEAN]]
    <3>1. \A k \in Keys : (entry[k].at # "none") \in BOOLEAN
      OBVIOUS
    <3>2. ASSUME NEW k \in Keys, NEW c \in BOOLEAN
          PROVE  [entry[k] EXCEPT !.crossed = c]
                    \in [at : {"none", "held"}, value : Contents, crossed : BOOLEAN]
      BY <1>0 DEF ReadsTypeOK
    <3>. QED
      BY <1>13, <3>1, <3>2 DEF AnswerLost
  <2>4. mirror' \in [status : {"none", "pending", "syncing", "ready", "failed", "full"},
                     fresh : BOOLEAN, token : {"none", "good", "gone"}, value : Contents,
                     crossed : BOOLEAN]
    BY <1>0, <1>13 DEF AnswerLost, ReadsTypeOK
  <2>5. write' \in [Writers -> [at : {"idle", "unknown", "written", "emptied"},
                                value : Contents, lost : BOOLEAN]]
    BY <1>0, <1>13, <2>1 DEF AnswerLost, ReadsTypeOK
  <2>6. readFaults' \in 0..MaxFaults /\ UNCHANGED <<told, sync, known>>
    BY <1>13, <1>d DEF AnswerLost
  <2>. QED
    BY <1>0, <2>1, <2>2, <2>3, <2>4, <2>5, <2>6 DEF ReadsTypeOK, LoadState
<1>14. ASSUME NEW w \in Writers, Repeated(w) PROVE ReadsTypeOK'
  BY <1>0, <1>14 DEF Repeated, ReadsTypeOK
<1>15. ASSUME NEW w \in Writers, BookStatus(w) PROVE ReadsTypeOK'
  <2>1. told' \in 0..calendar
    BY <1>0, <1>15 DEF BookStatus, TellCaller, ReadsTypeOK, WritesArePast, Contents
  <2>2. write' \in [Writers -> [at : {"idle", "unknown", "written", "emptied"},
                                value : Contents, lost : BOOLEAN]]
    BY <1>15, <1>f DEF BookStatus
  <2>3. UNCHANGED <<calendar, entry, load, sync, mirror, known, readFaults>>
    BY <1>15 DEF BookStatus
  <2>. QED
    BY <1>0, <2>1, <2>2, <2>3 DEF ReadsTypeOK
<1>3. ASSUME NEW w \in Writers, MarkStale(w) \/ MarkFails(w) PROVE ReadsTypeOK'
  <2>1. told' \in 0..calendar /\ UNCHANGED calendar
    BY <1>0, <1>3 DEF MarkStale, MarkFails, TellCaller, ReadsTypeOK, WritesArePast, Contents
  <2>2. readFaults' \in 0..MaxFaults
    BY <1>0, <1>3, <1>d DEF MarkStale, MarkFails, ReadsTypeOK
  <2>3. write' \in [Writers -> [at : {"idle", "unknown", "written", "emptied"},
                                value : Contents, lost : BOOLEAN]]
    BY <1>3, <1>f DEF MarkStale, MarkFails
  <2>4. mirror' \in [status : {"none", "pending", "syncing", "ready", "failed", "full"},
                     fresh : BOOLEAN, token : {"none", "good", "gone"}, value : Contents,
                     crossed : BOOLEAN]
    BY <1>0, <1>3 DEF MarkStale, MarkFails, ReadsTypeOK
  <2>5. UNCHANGED <<calendar, load, entry, sync, known>>
    BY <1>3 DEF MarkStale, MarkFails
  <2>. QED
    BY <1>0, <2>1, <2>2, <2>3, <2>4, <2>5 DEF ReadsTypeOK
<1>4. ASSUME NEW k \in Keys, Miss(k) PROVE ReadsTypeOK'
  <2>1. ASSUME NEW c \in BOOLEAN
        PROVE  [load EXCEPT ![k] = [at |-> "mirror", value |-> 0, crossed |-> c]]
                  \in [Keys -> LoadState]
    BY <1>a DEF LoadState
  <2>2. load' \in [Keys -> LoadState]
    BY <1>4, <1>a, <2>1 DEF Miss
  <2>. QED
    BY <1>0, <1>4, <2>2 DEF Miss, ReadsTypeOK, LoadState
<1>5. ASSUME NEW k \in Keys, ReadMirror(k) \/ ReadLive(k) PROVE ReadsTypeOK'
  <2>1. load' \in [Keys -> LoadState]
    <3>1. CASE \E value \in Contents, crossed \in BOOLEAN : Loaded(k, value, crossed)
      BY <1>0, <3>1, LoadKeepsType
    <3>2. CASE \E at \in {"sync", "live"} : load' = [load EXCEPT ![k].at = at]
      BY <1>a, <3>2 DEF LoadState
    <3>3. /\ calendar \in Contents /\ mirror.value \in Contents
          /\ mirror.crossed \in BOOLEAN /\ FALSE \in BOOLEAN
      BY <1>0 DEF ReadsTypeOK
    <3>. QED
      BY <1>5, <3>1, <3>2, <3>3 DEF ReadMirror, ReadLive
  <2>2. UNCHANGED <<calendar, told, write, entry, mirror, sync, known, readFaults>>
    BY <1>5 DEF ReadMirror, ReadLive
  <2>. QED
    BY <1>0, <2>1, <2>2 DEF ReadsTypeOK, LoadState
<1>6. ASSUME NEW k \in Keys, MirrorUnavailable(k) \/ LiveFails(k) PROVE ReadsTypeOK'
  <2>1. load' \in [Keys -> LoadState]
    <3>1. [load EXCEPT ![k].at = "live"] \in [Keys -> LoadState]
      BY <1>a DEF LoadState
    <3>2. [load EXCEPT ![k] = NoEntry] \in [Keys -> LoadState]
      BY <1>a, <1>c
    <3>. QED
      BY <1>6, <3>1, <3>2 DEF MirrorUnavailable, LiveFails
  <2>. QED
    BY <1>0, <1>6, <1>d, <2>1 DEF MirrorUnavailable, LiveFails, ReadsTypeOK, LoadState
<1>7. ASSUME NEW k \in Keys, StoreResult(k) \/ EntryExpires(k) PROVE ReadsTypeOK'
  <2>. DEFINE EntryState == [at : {"none", "held"}, value : Contents, crossed : BOOLEAN]
  <2>1. entry' \in [Keys -> EntryState]
    <3>1. entry \in [Keys -> EntryState] /\ NoEntry \in EntryState
      BY <1>0, <1>a DEF ReadsTypeOK, NoEntry
    <3>2. [load[k] EXCEPT !.at = "held"] \in EntryState
      BY <1>a DEF LoadState
    <3>. QED
      BY <1>7, <3>1, <3>2 DEF StoreResult, EntryExpires
  <2>2. load' \in [Keys -> LoadState]
    BY <1>7, <1>a, <1>c DEF StoreResult, EntryExpires
  <2>. QED
    BY <1>0, <1>7, <2>1, <2>2 DEF StoreResult, EntryExpires, ReadsTypeOK, LoadState
<1>8. ASSUME NEW h \in Keys \cup {"loop"}, TakeLock(h) PROVE ReadsTypeOK'
  <2>1. /\ UNCHANGED <<calendar, told, write, entry, load, mirror, known, readFaults>>
        /\ sync' = [NoSync EXCEPT !.holder = h, !.at = "locked"]
    BY <1>8 DEF TakeLock
  <2>2. [NoSync EXCEPT !.holder = h, !.at = "locked"] \in
           [holder : Keys \cup {"loop", Nobody},
            at : {"none", "locked", "chosen", "paging", "read"},
            token : {"none", "good", "gone"}, value : Contents]
    BY <1>b, <1>8
  <2>. QED
    BY <1>0, <2>1, <2>2 DEF ReadsTypeOK
<1>9. ASSUME \/ AlreadyReady \/ TokenGone \/ CommitSync \/ SyncFails \/ SyncThrows
      PROVE  ReadsTypeOK'
  <2>1. PICK ok \in BOOLEAN : Synced(ok)
    BY <1>9 DEF AlreadyReady, TokenGone, CommitSync, SyncFails, SyncThrows
  <2>2. load' \in [Keys -> LoadState] /\ sync' = NoSync
    BY <1>0, <2>1, SyncedKeepsType
  <2>3. readFaults' \in 0..MaxFaults
    BY <1>0, <1>9, <1>d
       DEF AlreadyReady, TokenGone, CommitSync, SyncFails, SyncThrows, ReadsTypeOK
  <2>4. mirror' \in [status : {"none", "pending", "syncing", "ready", "failed", "full"},
                     fresh : BOOLEAN, token : {"none", "good", "gone"}, value : Contents,
                     crossed : BOOLEAN]
    <3>1. CASE CommitSync
      <4>1. (sync.value < calendar) \in BOOLEAN /\ sync.value \in Contents
        BY <1>0 DEF ReadsTypeOK
      <4>. QED
        BY <3>1, <4>1 DEF CommitSync
    <3>2. CASE ~CommitSync
      <4>1. ASSUME AlreadyReady \/ SyncThrows PROVE UNCHANGED mirror
        BY <4>1 DEF AlreadyReady, SyncThrows
      <4>2. ASSUME TokenGone \/ SyncFails
            PROVE  mirror' \in [status : {"none", "pending", "syncing", "ready", "failed", "full"},
                                fresh : BOOLEAN, token : {"none", "good", "gone"},
                                value : Contents, crossed : BOOLEAN]
        BY <1>0, <4>2 DEF TokenGone, MarkTokenGone, SyncFails, ReadsTypeOK
      <4>. QED
        BY <1>0, <1>9, <3>2, <4>1, <4>2 DEF ReadsTypeOK
    <3>. QED
      BY <3>1, <3>2
  <2>5. UNCHANGED <<calendar, told, write, entry, known>>
    BY <1>9 DEF AlreadyReady, TokenGone, CommitSync, SyncFails, SyncThrows
  <2>. QED
    BY <1>0, <1>b, <2>2, <2>3, <2>4, <2>5 DEF ReadsTypeOK, LoadState
<1>10. ASSUME ChooseToken \/ MarkStarted \/ ReadPages PROVE ReadsTypeOK'
  <2>1. ChooseToken => ReadsTypeOK'
    BY <1>0 DEF ChooseToken, ReadsTypeOK
  <2>2. MarkStarted => ReadsTypeOK'
    BY <1>0 DEF MarkStarted, ReadsTypeOK
  <2>3. ReadPages => ReadsTypeOK'
    BY <1>0 DEF ReadPages, ReadsTypeOK
  <2>. QED
    BY <1>10, <2>1, <2>2, <2>3
<1>11. ASSUME MirrorAges \/ CompanyForgotten \/ SyncTokenExpires PROVE ReadsTypeOK'
  <2>1. MirrorAges => ReadsTypeOK'
    BY <1>0, <1>d DEF MirrorAges, ReadsTypeOK
  <2>2. CompanyForgotten => ReadsTypeOK'
    BY <1>0, <1>d DEF CompanyForgotten, ReadsTypeOK
  <2>3. SyncTokenExpires => ReadsTypeOK'
    BY <1>0, <1>d DEF SyncTokenExpires, ReadsTypeOK
  <2>. QED
    BY <1>11, <2>1, <2>2, <2>3
<1>12. ASSUME BrokerRestarts PROVE ReadsTypeOK'
  <2>1. ASSUME NEW c \in BOOLEAN
        PROVE  [mirror EXCEPT !.crossed = c] \in
                    [status : {"none", "pending", "syncing", "ready", "failed", "full"},
                     fresh : BOOLEAN, token : {"none", "good", "gone"}, value : Contents,
                     crossed : BOOLEAN]
    BY <1>0 DEF ReadsTypeOK
  <2>2. (mirror.crossed \/ Writing) \in BOOLEAN
    OBVIOUS
  <2>3. mirror' \in [status : {"none", "pending", "syncing", "ready", "failed", "full"},
                     fresh : BOOLEAN, token : {"none", "good", "gone"}, value : Contents,
                     crossed : BOOLEAN]
    BY <1>12, <2>1, <2>2 DEF BrokerRestarts
  <2>4. write' \in [Writers -> [at : {"idle", "unknown", "written", "emptied"},
                                value : Contents, lost : BOOLEAN]]
    <3>1. ASSUME NEW w \in Writers
          PROVE  /\ write[w] \in WriteState
                 /\ [write[w] EXCEPT !.at = "unknown", !.lost = TRUE] \in WriteState
      BY <1>0, WriteKeepsType DEF ReadsTypeOK, WriteState
    <3>2. \A w \in Writers : write'[w] \in WriteState
      BY <1>12, <3>1 DEF BrokerRestarts
    <3>. QED
      BY <1>12, <3>2 DEF BrokerRestarts, WriteState
  <2>. QED
    BY <1>0, <1>12, <1>a, <1>b, <1>d, <2>3, <2>4 DEF BrokerRestarts, ReadsTypeOK, NoEntry
<1>. QED
  BY <1>1, <1>2, <1>3, <1>4, <1>5, <1>6, <1>7, <1>8, <1>9, <1>10, <1>11, <1>12,
     <1>13, <1>14, <1>15
     DEF ReadsNext, Synchronise

-----------------------------------------------------------------------------
(***************************************************************************)
(* A write on its way keeps its mark on every load there is.               *)
(***************************************************************************)
LEMMA CompleteStep ==
    ASSUME ReadsInv, NEW w \in Writers,
           \/ GoogleWrites(w) \/ InvalidateCompany(w) \/ Repeated(w) \/ BookStatus(w)
           \/ /\ MarkStale(w) \/ MarkFails(w)
              /\ write[w].lost,
           NEW value \in Nat, Complete(value)
    PROVE  Complete(value)'
<1>0. ReadsTypeOK /\ UnknownIsLost
  BY DEF ReadsInv
<1>1. \A v \in Writers \ {w} : write'[v] = write[v]
  BY <1>0 DEF GoogleWrites, InvalidateCompany, Repeated, BookStatus, MarkStale, MarkFails,
              TellCaller, ReadsTypeOK
<1>2. told' <= value
  BY <1>0 DEF GoogleWrites, InvalidateCompany, Repeated, BookStatus, MarkStale, MarkFails,
              TellCaller, UnknownIsLost, Complete
<1>3. write'[w].lost => write[w].lost /\ write'[w].value = write[w].value
  BY <1>0 DEF GoogleWrites, InvalidateCompany, Repeated, BookStatus, MarkStale, MarkFails,
              TellCaller, ReadsTypeOK
<1>. QED
  BY <1>1, <1>2, <1>3 DEF Complete

LEMMA WritesStep ==
    ASSUME ReadsInv, ReadsTypeOK', NEW w \in Writers,
           \/ GoogleWrites(w) \/ InvalidateCompany(w) \/ MarkStale(w) \/ MarkFails(w)
           \/ Repeated(w) \/ BookStatus(w)
    PROVE  ReadsInv'
<1>0. ReadsTypeOK /\ UnknownIsLost
  BY DEF ReadsInv
<1>. USE DEF GoogleWrites, InvalidateCompany, MarkStale, MarkFails, Repeated, BookStatus
<1>1. WritesArePast' /\ UnknownIsLost'
  <2>1. WritesArePast'
    <3>1. \A v \in Writers : write'[v].value \in {write[v].value, calendar'}
      BY <1>0 DEF ReadsTypeOK, TellCaller
    <3>2. \A v \in Writers : write[v].value <= calendar /\ write[v].value \in Nat
      BY <1>0, ReadsAssumption DEF ReadsInv, WritesArePast, ReadsTypeOK, Contents
    <3>3. calendar \in Nat /\ calendar' \in {calendar, calendar + 1}
      BY <1>0, ReadsAssumption DEF ReadsTypeOK, Contents
    <3>. QED
      BY <3>1, <3>2, <3>3 DEF WritesArePast
  <2>2. \A v \in Writers : write'[v].at = "unknown" => write'[v] = write[v]
    BY <1>0 DEF ReadsTypeOK, TellCaller
  <2>. QED
    BY <1>0, <2>1, <2>2 DEF UnknownIsLost
<1>2. \A k \in Keys : load'[k].at = load[k].at /\ load'[k].value = load[k].value
  BY <1>0 DEF ReadsTypeOK
<1>3. HolderWaits'
  BY <1>2 DEF ReadsInv, HolderWaits
<1>4. \A k \in Keys : load'[k].at # "none" /\ ~load'[k].crossed =>
                         load[k].at # "none" /\ ~load[k].crossed /\ ~Writing /\ ~Writing'
  <2>1. CASE GoogleWrites(w)
    BY <1>0, <2>1 DEF ReadsTypeOK
  <2>2. CASE ~GoogleWrites(w)
    <3>1. UNCHANGED load
      BY <2>2
    <3>2. \A v \in Writers : write'[v].at \in {"written", "emptied"} /\ ~write'[v].lost =>
             write[v].at \in {"written", "emptied"} /\ ~write[v].lost
      BY <1>0, <2>2 DEF TellCaller, ReadsTypeOK, UnknownIsLost
    <3>. QED
      BY <3>1, <3>2 DEF ReadsInv, LoadIsClear, Writing
  <2>. QED
    BY <2>1, <2>2
<1>5. \A v \in Writers : write[v].at = "emptied" /\ ~write[v].lost => Writing
  BY DEF Writing
<1>n. \A k \in Keys : load[k].value \in Nat /\ entry[k].value \in Nat
  BY <1>0, ReadsAssumption DEF ReadsTypeOK, Contents
<1>6. \A k \in Keys : LoadIsClear(k)' /\ LoadIsNew(k)'
  <2>. SUFFICES ASSUME NEW k \in Keys PROVE LoadIsClear(k)' /\ LoadIsNew(k)'
    OBVIOUS
  <2>1. LoadIsClear(k)'
    BY <1>4 DEF LoadIsClear
  <2>2. ASSUME load'[k].at = "done", ~load'[k].crossed PROVE Complete(load[k].value)'
    <3>1. Complete(load[k].value) /\ ~Writing
      BY <1>2, <1>4, <2>2 DEF ReadsInv, LoadIsNew
    <3>2. MarkStale(w) \/ MarkFails(w) => write[w].lost
      BY <1>5, <3>1
    <3>3. load'[k].value = load[k].value
      BY <1>2
    <3>4. \A value \in Nat : Complete(value) => Complete(value)'
      BY <3>2, CompleteStep
    <3>. QED
      BY <1>n, <3>1, <3>3, <3>4 DEF Complete
  <2>. QED
    BY <1>2, <2>1, <2>2 DEF LoadIsNew, Complete
<1>7. \A k \in Keys : EntryIsNew(k)'
  <2>. SUFFICES ASSUME NEW k \in Keys PROVE EntryIsNew(k)'
    OBVIOUS
  <2>1. CASE InvalidateCompany(w)
    BY <2>1 DEF EntryIsNew, NoEntry
  <2>2. CASE ~InvalidateCompany(w)
    <3>1. UNCHANGED entry
      BY <2>2
    <3>2. \A v \in Writers : write'[v].at = "emptied" => write'[v] = write[v]
      BY <1>0, <2>2 DEF TellCaller, ReadsTypeOK
    <3>3. ASSUME entry[k].at = "held", ~entry[k].crossed PROVE Complete(entry[k].value)'
      <4>1. Complete(entry[k].value) /\ (MarkStale(w) \/ MarkFails(w) => write[w].lost)
        BY <3>3 DEF ReadsInv, EntryIsNew
      <4>2. \A value \in Nat : Complete(value) => Complete(value)'
        BY <2>2, <4>1, CompleteStep
      <4>. QED
        BY <1>n, <3>1, <4>1, <4>2 DEF Complete
    <3>. QED
      BY <3>1, <3>2, <3>3 DEF EntryIsNew, ReadsInv, Complete
  <2>. QED
    BY <2>1, <2>2
<1>8. MirrorIsNew'
  <2>1. CASE ~MarkStale(w) /\ ~MarkFails(w)
    <3>1. UNCHANGED mirror
      BY <2>1
    <3>2. \A value \in Nat : Complete(value) => Complete(value)'
      BY <2>1, CompleteStep
    <3>3. mirror.value \in Nat
      BY <1>0, ReadsAssumption DEF ReadsTypeOK, Contents
    <3>. QED
      BY <3>1, <3>2, <3>3 DEF MirrorIsNew, Usable, ReadsInv, Complete
  <2>2. CASE MarkStale(w)
    BY <1>0, <2>2 DEF MirrorIsNew, Usable, ReadsTypeOK
  <2>3. CASE MarkFails(w)
    BY <1>0, <2>3 DEF MirrorIsNew, Usable, ReadsTypeOK
  <2>. QED
    BY <2>1, <2>2, <2>3
<1>. QED
  BY <1>1, <1>3, <1>6, <1>7, <1>8 DEF ReadsInv

(***************************************************************************)
(* A write whose answer is lost marks all that was read before it.         *)
(***************************************************************************)
LEMMA LostStep ==
    ASSUME ReadsInv, ReadsTypeOK', NEW w \in Writers, AnswerLost(w)
    PROVE  ReadsInv'
<1>0. ReadsTypeOK
  BY DEF ReadsInv
<1>1. WritesArePast' /\ UnknownIsLost'
  BY <1>0 DEF ReadsInv, ReadsTypeOK, Contents, WritesArePast, UnknownIsLost, AnswerLost
<1>2. \A k \in Keys : /\ load'[k].at = load[k].at
                      /\ load'[k].at # "none" => load'[k].crossed
                      /\ entry'[k].at # "none" => entry'[k].crossed
  <2>1. ASSUME NEW k \in Keys, NEW c \in BOOLEAN
        PROVE  /\ [load[k] EXCEPT !.crossed = c].at = load[k].at
               /\ [load[k] EXCEPT !.crossed = c].crossed = c
               /\ [entry[k] EXCEPT !.crossed = c].at = entry[k].at
               /\ [entry[k] EXCEPT !.crossed = c].crossed = c
    BY <1>0 DEF ReadsTypeOK
  <2>2. \A k \in Keys : /\ load'[k] = [load[k] EXCEPT !.crossed = (load[k].at # "none")]
                        /\ entry'[k] = [entry[k] EXCEPT !.crossed = (entry[k].at # "none")]
    BY DEF AnswerLost
  <2>3. \A k \in Keys : (load[k].at # "none") \in BOOLEAN /\ (entry[k].at # "none") \in BOOLEAN
    OBVIOUS
  <2>. QED
    BY <2>1, <2>2, <2>3
<1>3. mirror'.crossed
  BY <1>0 DEF AnswerLost, ReadsTypeOK
<1>4. HolderWaits'
  BY <1>2 DEF ReadsInv, HolderWaits, AnswerLost
<1>. QED
  BY <1>1, <1>2, <1>3, <1>4
     DEF ReadsInv, MirrorIsNew, LoadIsClear, LoadIsNew, EntryIsNew

(***************************************************************************)
(* What a load comes to without a write.                                   *)
(***************************************************************************)
LEMMA LoadsStep ==
    ASSUME ReadsInv, ReadsTypeOK', NEW k \in Keys,
           \/ Miss(k) \/ ReadMirror(k) \/ MirrorUnavailable(k)
           \/ ReadLive(k) \/ LiveFails(k) \/ StoreResult(k) \/ EntryExpires(k)
    PROVE  ReadsInv'
<1>0. ReadsTypeOK
  BY DEF ReadsInv
<1>1. WritesArePast' /\ UnknownIsLost' /\ MirrorIsNew'
  BY DEF Miss, ReadMirror, MirrorUnavailable, ReadLive, LiveFails, StoreResult, EntryExpires,
         ReadsInv, WritesArePast, UnknownIsLost, MirrorIsNew, Usable, Complete
<1>2. UNCHANGED <<calendar, told, write, sync, mirror>> /\ (Writing' <=> Writing)
  BY DEF Miss, ReadMirror, MirrorUnavailable, ReadLive, LiveFails, StoreResult, EntryExpires,
         Writing
<1>3. /\ \A j \in Keys \ {k} : load'[j] = load[j] /\ entry'[j] = entry[j]
      /\ load[k].at = "sync" => load'[k] = load[k]
  BY <1>0 DEF ReadsTypeOK, Loaded,
     Miss, ReadMirror, MirrorUnavailable, ReadLive, LiveFails, StoreResult, EntryExpires
<1>4. HolderWaits'
  BY <1>2, <1>3 DEF HolderWaits, ReadsInv
<1>5. ASSUME NEW j \in Keys \ {k}
      PROVE  LoadIsClear(j)' /\ LoadIsNew(j)' /\ EntryIsNew(j)'
  BY <1>2, <1>3, <1>5 DEF LoadIsClear, LoadIsNew, EntryIsNew, ReadsInv, Complete
<1>6. LoadIsClear(k)'
  <2>1. CASE Miss(k)
    <3>1. load'[k].crossed = Writing
      BY <1>0, <2>1 DEF Miss, ReadsTypeOK
    <3>. QED
      BY <3>1, <1>2 DEF LoadIsClear
  <2>2. CASE ~Miss(k)
    <3>1. load'[k].at # "none" /\ ~load'[k].crossed =>
             load[k].at # "none" /\ ~load[k].crossed
      BY <1>0, <2>2 DEF ReadsTypeOK, Loaded, NoEntry,
         ReadMirror, MirrorUnavailable, ReadLive, LiveFails, StoreResult, EntryExpires
    <3>. QED
      BY <1>2, <3>1 DEF LoadIsClear, ReadsInv
  <2>. QED
    BY <2>1, <2>2
<1>7. LoadIsNew(k)'
  <2>1. CASE ReadMirror(k) /\ Usable
    BY <1>0, <1>2, <2>1 DEF ReadMirror, Loaded, LoadIsNew, ReadsInv, MirrorIsNew, ReadsTypeOK,
                            Complete
  <2>2. CASE ReadLive(k)
    <3>1. Complete(calendar)
      BY <1>0 DEF Complete, ReadsInv, WritesArePast, ReadsTypeOK
    <3>2. load'[k].value = calendar
      BY <1>0, <2>2 DEF ReadLive, Loaded, ReadsTypeOK
    <3>. QED
      BY <1>2, <3>1, <3>2 DEF LoadIsNew, Complete
  <2>3. CASE ~ReadLive(k) /\ ~(ReadMirror(k) /\ Usable)
    <3>1. load'[k].at = "done" => load'[k] = load[k]
      BY <1>0, <2>3 DEF ReadsTypeOK, NoEntry,
         Miss, ReadMirror, MirrorUnavailable, LiveFails, StoreResult, EntryExpires
    <3>. QED
      BY <1>2, <3>1 DEF LoadIsNew, ReadsInv, Complete
  <2>. QED
    BY <2>1, <2>2, <2>3
<1>8. EntryIsNew(k)'
  <2>1. CASE StoreResult(k)
    <3>1. /\ load[k].at = "done" /\ entry'[k].value = load[k].value
          /\ entry'[k].crossed = load[k].crossed
      BY <1>0, <2>1 DEF StoreResult, ReadsTypeOK
    <3>2. \A w \in Writers : write[w].at = "emptied" /\ ~write[w].lost => Writing
      BY DEF Writing
    <3>. QED
      BY <1>2, <3>1, <3>2 DEF EntryIsNew, ReadsInv, LoadIsClear, LoadIsNew, Complete
  <2>2. CASE EntryExpires(k)
    BY <1>0, <2>2 DEF EntryExpires, ReadsTypeOK, EntryIsNew, NoEntry
  <2>3. CASE ~StoreResult(k) /\ ~EntryExpires(k)
    <3>1. UNCHANGED entry
      BY <2>3 DEF Miss, ReadMirror, MirrorUnavailable, ReadLive, LiveFails
    <3>. QED
      BY <1>2, <3>1 DEF EntryIsNew, ReadsInv, Complete
  <2>. QED
    BY <2>1, <2>2, <2>3
<1>. QED
  BY <1>1, <1>4, <1>5, <1>6, <1>7, <1>8 DEF ReadsInv

(***************************************************************************)
(* The synchronisation, and what happens to the mirror by itself.          *)
(***************************************************************************)
LEMMA MirrorStep ==
    ASSUME ReadsInv, ReadsTypeOK',
           \/ \E h \in Keys \cup {"loop"} : TakeLock(h)
           \/ Synchronise \/ SyncFails \/ SyncThrows
           \/ MirrorAges \/ CompanyForgotten \/ SyncTokenExpires
    PROVE  ReadsInv'
<1>0. ReadsTypeOK
  BY DEF ReadsInv
<1>1. UNCHANGED <<calendar, told, write, entry>>
  BY DEF TakeLock, Synchronise, AlreadyReady, ChooseToken, MarkStarted, ReadPages, TokenGone,
         CommitSync, SyncFails, SyncThrows, MirrorAges, CompanyForgotten, SyncTokenExpires
<1>2. (Writing' <=> Writing) /\ WritesArePast' /\ UnknownIsLost'
  BY <1>1 DEF Writing, WritesArePast, UnknownIsLost, ReadsInv
<1>3. \A k \in Keys : \/ load'[k] = load[k]
                      \/ /\ sync.holder = k /\ k # "loop"
                         /\ load'[k].at \in {"again", "live"} /\ load'[k].crossed = load[k].crossed
  <2>1. CASE UNCHANGED load
    BY <2>1
  <2>2. CASE \E ok \in BOOLEAN : Synced(ok)
    BY <1>0, <2>2 DEF Synced, ReadsTypeOK
  <2>. QED
    BY <2>1, <2>2
       DEF TakeLock, Synchronise, AlreadyReady, ChooseToken, MarkStarted, ReadPages, TokenGone,
           CommitSync, SyncFails, SyncThrows, MirrorAges, CompanyForgotten, SyncTokenExpires
<1>4. ASSUME NEW k \in Keys PROVE LoadIsClear(k)' /\ LoadIsNew(k)' /\ EntryIsNew(k)'
  <2>1. load'[k].at # "none" /\ ~load'[k].crossed => load[k].at # "none" /\ ~load[k].crossed
    BY <1>3 DEF ReadsInv, HolderWaits
  <2>2. load'[k].at = "done" => load'[k] = load[k]
    BY <1>3
  <2>. QED
    BY <1>1, <1>2, <2>1, <2>2 DEF LoadIsClear, LoadIsNew, EntryIsNew, ReadsInv, Complete
<1>5. HolderWaits'
  <2>1. CASE \E h \in Keys \cup {"loop"} : TakeLock(h)
    <3>1. PICK h \in Keys \cup {"loop"} : TakeLock(h)
      BY <2>1
    <3>2. sync'.holder = h /\ UNCHANGED load /\ (h # "loop" => load[h].at = "sync")
      BY <3>1 DEF TakeLock, NoSync
    <3>. QED
      BY <3>2 DEF HolderWaits
  <2>2. CASE sync' = NoSync
    BY <2>2, ReadsAssumption DEF HolderWaits, NoSync
  <2>3. CASE sync'.holder = sync.holder /\ UNCHANGED load
    BY <2>3 DEF HolderWaits, ReadsInv
  <2>4. CASE ChooseToken \/ MarkStarted \/ ReadPages
    <3>1. sync'.holder = sync.holder
      <4>1. ChooseToken => sync'.holder = sync.holder
        BY <1>0 DEF ChooseToken, ReadsTypeOK
      <4>2. MarkStarted => sync'.holder = sync.holder
        BY <1>0 DEF MarkStarted, ReadsTypeOK
      <4>3. ReadPages => sync'.holder = sync.holder
        BY <1>0 DEF ReadPages, ReadsTypeOK
      <4>. QED
        BY <2>4, <4>1, <4>2, <4>3
    <3>2. UNCHANGED load
      BY <2>4 DEF ChooseToken, MarkStarted, ReadPages
    <3>. QED
      BY <2>3, <3>1, <3>2
  <2>5. CASE AlreadyReady \/ TokenGone \/ CommitSync \/ SyncFails \/ SyncThrows
    BY <2>2, <2>5 DEF AlreadyReady, TokenGone, CommitSync, SyncFails, SyncThrows, Synced
  <2>6. CASE MirrorAges \/ CompanyForgotten \/ SyncTokenExpires
    BY <2>3, <2>6 DEF MirrorAges, CompanyForgotten, SyncTokenExpires
  <2>. QED
    BY <2>1, <2>4, <2>5, <2>6 DEF Synchronise
<1>6. MirrorIsNew'
  <2>1. CASE CommitSync
    <3>1. told <= calendar /\ calendar \in Nat /\ sync.value \in Nat /\ told \in Nat
      BY <1>0, ReadsAssumption DEF ReadsTypeOK, Contents
    <3>2. mirror'.value = sync.value /\ (sync.value < calendar => mirror'.crossed)
      BY <2>1 DEF CommitSync
    <3>3. ~mirror'.crossed => calendar <= sync.value
      BY <3>1, <3>2
    <3>4. \A w \in Writers : write[w].value <= calendar /\ write[w].value \in Nat
      BY <1>0, ReadsAssumption DEF ReadsInv, WritesArePast, ReadsTypeOK, Contents
    <3>. QED
      BY <1>1, <3>1, <3>2, <3>3, <3>4 DEF MirrorIsNew, Complete
  <2>2. CASE ~CommitSync
    <3>1. \/ UNCHANGED mirror
          \/ mirror'.status # "ready"
          \/ ~mirror'.fresh
          \/ SyncTokenExpires
      <4>1. (\/ \E h \in Keys \cup {"loop"} : TakeLock(h)
             \/ AlreadyReady \/ ChooseToken \/ ReadPages \/ SyncThrows \/ CompanyForgotten)
               => UNCHANGED mirror
        BY DEF TakeLock, AlreadyReady, ChooseToken, ReadPages, SyncThrows, CompanyForgotten
      <4>2. MarkStarted => mirror'.status # "ready"
        BY <1>0 DEF MarkStarted, ReadsTypeOK
      <4>3. TokenGone => mirror'.status # "ready"
        BY <1>0 DEF TokenGone, MarkTokenGone, ReadsTypeOK
      <4>4. SyncFails => mirror'.status # "ready"
        BY <1>0 DEF SyncFails, ReadsTypeOK
      <4>5. MirrorAges => ~mirror'.fresh
        BY <1>0 DEF MirrorAges, ReadsTypeOK
      <4>. QED
        BY <2>2, <4>1, <4>2, <4>3, <4>4, <4>5 DEF Synchronise
    <3>2. SyncTokenExpires => /\ mirror'.status = mirror.status /\ mirror'.fresh = mirror.fresh
                              /\ mirror'.value = mirror.value
                              /\ mirror'.crossed = mirror.crossed
      BY <1>0 DEF SyncTokenExpires, ReadsTypeOK
    <3>. QED
      BY <1>1, <3>1, <3>2 DEF MirrorIsNew, Usable, ReadsInv, Complete
  <2>. QED
    BY <2>1, <2>2
<1>. QED
  BY <1>2, <1>4, <1>5, <1>6 DEF ReadsInv

LEMMA RestartStep ==
    ASSUME ReadsInv, ReadsTypeOK', BrokerRestarts
    PROVE  ReadsInv'
<1>0. ReadsTypeOK
  BY DEF ReadsInv
<1>1. /\ \A k \in Keys : load'[k].at = "none" /\ entry'[k].at = "none"
      /\ sync' = NoSync /\ UNCHANGED <<calendar, told>>
  BY DEF BrokerRestarts, NoEntry
<1>3. \A w \in Writers : /\ write'[w].value = write[w].value
                         /\ write'[w].at = "unknown" => write'[w].lost
                         /\ write'[w].lost => write[w].lost \/ write[w].at # "idle"
  <2>. SUFFICES ASSUME NEW w \in Writers
                PROVE  /\ write'[w].value = write[w].value
                       /\ write'[w].at = "unknown" => write'[w].lost
                       /\ write'[w].lost => write[w].lost \/ write[w].at # "idle"
    OBVIOUS
  <2>1. CASE write[w].at = "idle"
    BY <2>1 DEF BrokerRestarts
  <2>2. CASE write[w].at # "idle"
    <3>1. write'[w] = [write[w] EXCEPT !.at = "unknown", !.lost = TRUE]
      BY <2>2 DEF BrokerRestarts
    <3>. QED
      BY <1>0, <2>2, <3>1 DEF ReadsTypeOK
  <2>. QED
    BY <2>1, <2>2
<1>2. MirrorIsNew'
  <2>1. /\ mirror'.status = mirror.status /\ mirror'.fresh = mirror.fresh
        /\ mirror'.value = mirror.value
        /\ ~mirror'.crossed => ~mirror.crossed /\ ~Writing
    BY <1>0 DEF BrokerRestarts, ReadsTypeOK
  <2>2. ~Writing => \A w \in Writers : write[w].at # "idle" => write[w].lost
    BY <1>0 DEF Writing, ReadsTypeOK, ReadsInv, UnknownIsLost
  <2>. QED
    BY <1>1, <1>3, <2>1, <2>2 DEF MirrorIsNew, Usable, ReadsInv, Complete
<1>. QED
  BY <1>0, <1>1, <1>2, <1>3, ReadsAssumption
     DEF ReadsInv, WritesArePast, UnknownIsLost, HolderWaits, NoSync, LoadIsClear, LoadIsNew,
         EntryIsNew

LEMMA ReadsInductive == ReadsInv /\ [ReadsNext]_readVars => ReadsInv'
<1>. SUFFICES ASSUME ReadsInv, [ReadsNext]_readVars PROVE ReadsInv'
  OBVIOUS
<1>1. CASE UNCHANGED readVars
  BY <1>1 DEF readVars, ReadsInv, ReadsTypeOK, WritesArePast, UnknownIsLost, HolderWaits,
     LoadIsClear, LoadIsNew, EntryIsNew, MirrorIsNew, Usable, Writing, Complete
<1>2. CASE ReadsNext
  BY <1>2, ReadsTypes, WritesStep, LostStep, LoadsStep, MirrorStep, RestartStep DEF ReadsNext
<1>. QED
  BY <1>1, <1>2

LEMMA ReadsGive == ReadsInv => WritesAreSeen
<1>. SUFFICES ASSUME ReadsInv PROVE WritesAreSeen
  OBVIOUS
<1>1. told \in Nat /\ mirror.value \in Nat
  BY ReadsAssumption DEF ReadsInv, ReadsTypeOK, Contents
<1>2. ASSUME NEW k \in Keys PROVE entry[k].value \in Nat /\ load[k].value \in Nat
  BY ReadsAssumption DEF ReadsInv, ReadsTypeOK, Contents
<1>. QED
  BY <1>1, <1>2 DEF ReadsInv, LoadIsNew, EntryIsNew, MirrorIsNew, WritesAreSeen, Complete

-----------------------------------------------------------------------------
(***************************************************************************)
(* The voice agent.  What a closed session leaves to the event loop is     *)
(* what it still has to end, and no incident comes after the task that     *)
(* tells the clients it is over.                                           *)
(***************************************************************************)
Final == lifecycle \in {"failed", "ended"} \/ overtaken
EndTasks == {"end: error", "end"}
Holds(tasks, kinds) == \E n \in 1..Len(tasks) : tasks[n] \in kinds

TasksAreFew == Len(todo) <= incidents + (IF voice = "closed" THEN 2 ELSE 0)

StartIsOrdered ==
    /\ voice = "none" => todo = <<>>
    /\ client = "none" => voice = "none" /\ job \in {"asked", "loading", "raised"}
    /\ job \in {"asked", "loading"} => client = "none"
    /\ job \in {"asked", "loading", "announcing"} => voice = "none"
    /\ voice = "closed" /\ job \in {"starting", "readying"} => overtaken

FailedStartIsQuiet ==
    LET failed == job = "raised" /\ client # "none" IN
    /\ job \in {"failing", "stopping"} \/ failed => Final
    /\ job = "stopping" \/ failed => beat = "stopped"
    /\ failed => client = "closed"

MonitorFollows ==
    /\ job # "running" => monitor = "none"
    /\ voice = "closed" => monitor # "running"

CloseEndsAll ==
    voice = "closed" =>
        /\ client = "closed" \/ Holds(todo, {"close client"})
        /\ beat = "stopped" \/ Holds(todo, EndTasks \cup {"stop"})

CloseIsTold ==
    voice = "closed" =>
        \/ \E n \in 1..Len(todo) :
              todo[n] \in EndTasks /\ \A m \in n + 1..Len(todo) : todo[m] \notin Transitions
        \/ Final /\ ~Holds(todo, Transitions)

AgentInv ==
    /\ AgentTypeOK /\ TasksAreFew /\ StartIsOrdered /\ FailedStartIsQuiet
    /\ MonitorFollows /\ CloseEndsAll /\ CloseIsTold

LEMMA AgentParts ==
    ASSUME AgentTypeOK
    PROVE  /\ todo \in Seq(Tasks) /\ Len(todo) \in Nat
           /\ incidents \in Nat /\ incidents <= MaxEvents /\ MaxEvents \in Nat
<1>1. todo \in Seq(Tasks) /\ incidents \in 0..MaxEvents
  BY DEF AgentTypeOK
<1>. QED
  BY <1>1, AgentAssumption

(***************************************************************************)
(* A few tasks more.                                                       *)
(***************************************************************************)
LEMMA OneMore ==
    ASSUME NEW tasks \in Seq(Tasks), NEW a \in Tasks
    PROVE  /\ tasks \o <<a>> \in Seq(Tasks)
           /\ Len(tasks \o <<a>>) = Len(tasks) + 1 /\ Len(tasks) \in Nat
           /\ \A n \in 1..Len(tasks) : (tasks \o <<a>>)[n] = tasks[n]
           /\ (tasks \o <<a>>)[Len(tasks) + 1] = a
<1>1. <<a>> \in Seq(Tasks) /\ Len(<<a>>) = 1 /\ <<a>>[1] = a /\ Len(tasks) \in Nat
  OBVIOUS
<1>2. tasks \o <<a>> \in Seq(Tasks) /\ Len(tasks \o <<a>>) = Len(tasks) + 1
  BY <1>1
<1>. QED
  BY <1>1, <1>2

LEMMA AgentInitial == AgentInit => AgentInv
<1>. SUFFICES ASSUME AgentInit PROVE AgentInv
  OBVIOUS
<1>. USE AgentAssumption DEF AgentInit
<1>1. {snapshot, quiet, idle, leaving, joined, overtaken} \subseteq BOOLEAN
  OBVIOUS
<1>2. todo \in Seq(Tasks) /\ Len(todo) = 0
  OBVIOUS
<1>3. AgentTypeOK
  BY <1>1, <1>2 DEF AgentTypeOK, Transitions
<1>. QED
  BY <1>2, <1>3 DEF AgentInv, TasksAreFew, StartIsOrdered, FailedStartIsQuiet, MonitorFollows,
     CloseEndsAll, CloseIsTold

-----------------------------------------------------------------------------
(***************************************************************************)
(* The entrypoint, the watchdog and the user leave the tasks alone, and    *)
(* the session open or closed as it is.                                    *)
(***************************************************************************)
EntrypointStep ==
    \/ Accept \/ ProfileLoaded \/ ProfileRefused \/ StartVoice \/ VoiceStarted \/ Ready
    \/ VoiceFails \/ StopHeartbeat \/ Raise

WatchStep ==
    \/ FinalTranscript \/ TimePasses \/ WatchdogFires \/ WatchdogStops \/ HangUp
    \/ LeaveRoom \/ LeaveFails

LEMMA WatchSteps == AgentInv /\ WatchStep => AgentInv'
<1>. SUFFICES ASSUME AgentInv, WatchStep PROVE AgentInv'
  OBVIOUS
<1>1. UNCHANGED startVars
  BY DEF WatchStep, FinalTranscript, TimePasses, WatchdogFires, WatchdogStops, HangUp,
         LeaveRoom, LeaveFails
<1>2. /\ quiet' \in BOOLEAN /\ idle' \in BOOLEAN /\ leaving' \in BOOLEAN /\ joined' \in BOOLEAN
      /\ watchdog' \in {"none", "watching", "leaving", "over", "failed"}
  <2>1. /\ quiet \in BOOLEAN /\ idle \in BOOLEAN /\ leaving \in BOOLEAN /\ joined \in BOOLEAN
        /\ watchdog \in {"none", "watching", "leaving", "over", "failed"}
    BY DEF AgentInv, AgentTypeOK
  <2>2. /\ quiet' \in {quiet, TRUE} /\ idle' \in {idle, TRUE, FALSE}
        /\ leaving' \in {leaving, TRUE, FALSE} /\ joined' \in {joined, FALSE}
        /\ watchdog' \in {watchdog, "leaving", "over", "failed"}
    BY DEF WatchStep, FinalTranscript, TimePasses, WatchdogFires, WatchdogStops, HangUp,
           LeaveRoom, LeaveFails
  <2>. QED
    BY <2>1, <2>2
<1>3. AgentTypeOK'
  BY <1>1, <1>2 DEF AgentInv, AgentTypeOK, startVars
<1>. QED
  BY <1>1, <1>3 DEF AgentInv, startVars, TasksAreFew, StartIsOrdered, FailedStartIsQuiet,
     MonitorFollows, CloseEndsAll, CloseIsTold, Final, Holds

LEMMA EntrypointSteps == AgentInv /\ EntrypointStep => AgentInv'
<1>. SUFFICES ASSUME AgentInv, EntrypointStep PROVE AgentInv'
  OBVIOUS
<1>1. /\ UNCHANGED <<snapshot, todo, overtaken, incidents, quiet, idle, leaving>>
      /\ joined' \in {joined, TRUE} /\ voice' \in {voice, "open"}
      /\ watchdog' \in {watchdog, "over", "watching"}
      /\ monitor' \in {monitor, "over", "running"}
      /\ beat' \in {beat, "beating", "stopped"} /\ client' \in {client, "open", "closed"}
      /\ lifecycle' \in {lifecycle, "ready", "failed"}
      /\ job' \in {"loading", "announcing", "starting", "readying", "running",
                   "failing", "stopping", "raised"}
  BY DEF EntrypointStep, Accept, ProfileLoaded, ProfileRefused, StartVoice, VoiceStarted, Ready,
         VoiceFails, StopHeartbeat, Raise, watchVars
<1>2. AgentTypeOK'
  <2>1. joined' \in BOOLEAN
    BY <1>1 DEF AgentInv, AgentTypeOK
  <2>2. {snapshot, quiet, idle, leaving, joined, overtaken}' \subseteq BOOLEAN
    BY <1>1, <2>1 DEF AgentInv, AgentTypeOK
  <2>. QED
    BY <1>1, <2>2 DEF AgentInv, AgentTypeOK, Transitions
<1>3. voice' = "closed" <=> voice = "closed"
  BY <1>1 DEF AgentInv, AgentTypeOK, StartIsOrdered, EntrypointStep, Accept, ProfileLoaded,
         ProfileRefused, StartVoice, VoiceStarted, Ready, VoiceFails, StopHeartbeat, Raise
<1>4. TasksAreFew' /\ StartIsOrdered'
  BY <1>1, <1>3 DEF AgentInv, TasksAreFew, StartIsOrdered, EntrypointStep, Accept,
         ProfileLoaded, ProfileRefused, StartVoice, VoiceStarted, Ready, VoiceFails,
         StopHeartbeat, Raise
<1>5. FailedStartIsQuiet' /\ MonitorFollows'
  BY <1>1, <1>3 DEF AgentInv, FailedStartIsQuiet, MonitorFollows, StartIsOrdered, Final,
         EntrypointStep, Accept, ProfileLoaded, ProfileRefused, StartVoice, VoiceStarted,
         Ready, VoiceFails, StopHeartbeat, Raise
<1>6. CloseEndsAll' /\ CloseIsTold'
  <2>. SUFFICES ASSUME voice = "closed" PROVE CloseEndsAll' /\ CloseIsTold'
    BY <1>3 DEF CloseEndsAll, CloseIsTold
  <2>1. /\ client = "closed" => client' = "closed"
        /\ beat = "stopped" => beat' = "stopped"
        /\ Final => Final'
    BY <1>1 DEF AgentInv, StartIsOrdered, Final, EntrypointStep, Accept,
         ProfileLoaded, ProfileRefused, StartVoice, VoiceStarted, Ready, VoiceFails,
         StopHeartbeat, Raise
  <2>. QED
    BY <1>1, <2>1 DEF AgentInv, CloseEndsAll, CloseIsTold, Holds
<1>. QED
  BY <1>2, <1>4, <1>5, <1>6 DEF AgentInv

-----------------------------------------------------------------------------
(***************************************************************************)
(* The handlers of the session's events.                                   *)
(***************************************************************************)
LEMMA IncidentSteps ==
    ASSUME AgentInv, NEW shown \in Transitions, ErrorOrRecovery(shown)
    PROVE  AgentInv'
<1>. USE AgentAssumption
<1>0. /\ todo \in Seq(Tasks) /\ incidents \in Nat /\ shown \in Tasks
  BY AgentParts DEF AgentInv, Tasks
<1>1. /\ voice = "open" /\ incidents' = incidents + 1 /\ incidents < MaxEvents
      /\ todo' = Append(todo, shown)
      /\ UNCHANGED <<job, snapshot, voice, lifecycle, beat, client, monitor, overtaken, watchVars>>
  BY DEF ErrorOrRecovery
<1>2. todo' \in Seq(Tasks) /\ Len(todo') = Len(todo) + 1 /\ Len(todo) \in Nat
  BY <1>0, <1>1
<1>3. TasksAreFew' /\ Len(todo') <= MaxEvents + 3 /\ incidents' \in 0..MaxEvents
  BY <1>0, <1>1, <1>2 DEF AgentInv, TasksAreFew
<1>4. AgentTypeOK'
  BY <1>1, <1>2, <1>3 DEF AgentInv, AgentTypeOK, watchVars
<1>. QED
  BY <1>1, <1>3, <1>4 DEF AgentInv, StartIsOrdered, FailedStartIsQuiet, MonitorFollows,
     CloseEndsAll, CloseIsTold, Final

LEMMA TwoMore ==
    ASSUME NEW tasks \in Seq(Tasks), NEW a \in Tasks, NEW b \in Tasks
    PROVE  \E more \in Seq(Tasks) :
              /\ more = tasks \o <<a, b>> /\ Len(more) = Len(tasks) + 2
              /\ more[Len(tasks) + 1] = a /\ more[Len(tasks) + 2] = b
<1>. DEFINE two == <<a, b>>
<1>1. /\ two \in Seq(Tasks) /\ Len(two) = 2 /\ two[1] = a /\ two[2] = b
      /\ Len(tasks) \in Nat
  OBVIOUS
<1>. HIDE DEF two
<1>2. /\ tasks \o two \in Seq(Tasks) /\ Len(tasks \o two) = Len(tasks) + Len(two)
      /\ \A i \in 1..Len(tasks) + Len(two) :
            (tasks \o two)[i] = IF i <= Len(tasks) THEN tasks[i] ELSE two[i - Len(tasks)]
  BY <1>1, ConcatProperties
<1>3. /\ Len(tasks) + 1 \in 1..Len(tasks) + Len(two) /\ ~(Len(tasks) + 1 <= Len(tasks))
      /\ Len(tasks) + 2 \in 1..Len(tasks) + Len(two) /\ ~(Len(tasks) + 2 <= Len(tasks))
      /\ Len(tasks) + 1 - Len(tasks) = 1 /\ Len(tasks) + 2 - Len(tasks) = 2
  BY <1>1
<1>4. (tasks \o two)[Len(tasks) + 1] = a /\ (tasks \o two)[Len(tasks) + 2] = b
  BY <1>1, <1>2, <1>3
<1>. QED
  BY <1>1, <1>2, <1>4 DEF two

LEMMA CloseAppends ==
    ASSUME AgentTypeOK, NEW reason \in EndTasks, SessionCloses(reason)
    PROVE  /\ todo' \in Seq(Tasks) /\ Len(todo') = Len(todo) + 2
           /\ todo'[Len(todo) + 1] = "close client" /\ todo'[Len(todo) + 2] = reason
<1>1. reason \in Tasks /\ "close client" \in Tasks /\ todo \in Seq(Tasks)
  BY AgentParts DEF Tasks, EndTasks
<1>2. todo' = todo \o <<"close client", reason>>
  BY DEF SessionCloses, ClosingTasks
<1>3. PICK more \in Seq(Tasks) :
         /\ more = todo \o <<"close client", reason>> /\ Len(more) = Len(todo) + 2
         /\ more[Len(todo) + 1] = "close client" /\ more[Len(todo) + 2] = reason
  <2>1. \A a \in Tasks, b \in Tasks :
           \E more \in Seq(Tasks) :
              /\ more = todo \o <<a, b>> /\ Len(more) = Len(todo) + 2
              /\ more[Len(todo) + 1] = a /\ more[Len(todo) + 2] = b
    <3>1. todo \in Seq(Tasks)
      BY <1>1
    <3>. QED
      BY <3>1, TwoMore, Zenon
  <2>2. \A b \in Tasks :
           \E more \in Seq(Tasks) :
              /\ more = todo \o <<"close client", b>> /\ Len(more) = Len(todo) + 2
              /\ more[Len(todo) + 1] = "close client" /\ more[Len(todo) + 2] = b
    <3>1. "close client" \in Tasks
      BY <1>1
    <3>. QED
      BY <3>1, <2>1, Zenon
  <2>3. reason \in Tasks
    BY <1>1
  <2>. QED
    BY <2>2, <2>3, Zenon
<1>4. todo' = more
  BY <1>2, <1>3, Zenon
<1>. QED
  BY <1>3, <1>4, Zenon

LEMMA CloseSteps ==
    ASSUME AgentInv, NEW reason \in EndTasks, SessionCloses(reason)
    PROVE  AgentInv'
<1>. USE AgentAssumption
<1>0. /\ todo \in Seq(Tasks) /\ reason \in Tasks /\ "close client" \in Tasks
  BY AgentParts DEF AgentInv, Tasks, EndTasks
<1>n. Len(todo) \in Nat /\ incidents \in Nat /\ incidents <= MaxEvents /\ MaxEvents \in Nat
  BY AgentParts DEF AgentInv
<1>a. monitor' \in {"none", "over"}
  BY DEF SessionCloses, AgentInv, AgentTypeOK
<1>1. /\ voice = "open" /\ voice' = "closed"
      /\ todo' = todo \o <<"close client", reason>> /\ quiet' = TRUE
      /\ UNCHANGED <<job, snapshot, lifecycle, beat, client, incidents,
                     watchdog, idle, leaving, joined>>
  BY DEF SessionCloses, ClosingTasks

<1>2. todo' \in Seq(Tasks) /\ Len(todo') = Len(todo) + 2
  BY CloseAppends DEF AgentInv
<1>b. todo'[Len(todo) + 1] = "close client" /\ todo'[Len(todo) + 2] = reason
  BY CloseAppends DEF AgentInv
<1>3. /\ overtaken' \in BOOLEAN
      /\ overtaken => overtaken'
      /\ job \in {"starting", "readying"} => overtaken'
  BY DEF SessionCloses, AgentInv, AgentTypeOK
<1>4. TasksAreFew' /\ Len(todo') <= MaxEvents + 3
  <2>1. Len(todo) <= incidents + (IF voice = "closed" THEN 2 ELSE 0)
    BY DEF AgentInv, TasksAreFew
  <2>2. Len(todo') = Len(todo) + 2 /\ voice = "open" /\ voice' = "closed"
        /\ incidents' = incidents
    BY <1>1, <1>2
  <2>. QED
    BY <1>n, <2>1, <2>2 DEF TasksAreFew
<1>5. AgentTypeOK'
  <2>1. {snapshot, quiet, idle, leaving, joined, overtaken}' \subseteq BOOLEAN
    BY <1>1, <1>3 DEF AgentInv, AgentTypeOK
  <2>2. voice' \in {"none", "open", "closed"}
    BY <1>1
  <2>. QED
    BY <1>1, <1>a, <1>2, <1>4, <2>1, <2>2 DEF AgentInv, AgentTypeOK
<1>6. StartIsOrdered' /\ FailedStartIsQuiet'
  BY <1>1, <1>3 DEF AgentInv, StartIsOrdered, FailedStartIsQuiet, Final
<1>7. MonitorFollows'
  BY <1>1, <1>a DEF AgentInv, MonitorFollows, SessionCloses
<1>8. CloseEndsAll'
  <2>1. Len(todo) + 1 \in 1..Len(todo') /\ Len(todo) + 2 \in 1..Len(todo')
    BY <1>n, <1>2
  <2>. QED
    BY <1>b, <2>1 DEF CloseEndsAll, Holds
<1>9. CloseIsTold'
  <2>1. /\ Len(todo) + 2 \in 1..Len(todo')
        /\ \A m \in Len(todo) + 2 + 1..Len(todo') : FALSE
    BY <1>n, <1>2
  <2>. QED
    BY <1>b, <2>1 DEF CloseIsTold
<1>. QED
  BY <1>4, <1>5, <1>6, <1>7, <1>8, <1>9 DEF AgentInv

-----------------------------------------------------------------------------
(***************************************************************************)
(* The event loop runs the first task: those behind it move up, and the    *)
(* task that ends the session leaves one that stops the heartbeat.         *)
(***************************************************************************)
LEMMA TasksMoveUp ==
    ASSUME AgentTypeOK, RunTask
    PROVE  /\ Len(todo) \in Nat \ {0} /\ todo[1] \in Tasks
           /\ todo' \in Seq(Tasks) /\ Len(todo') \in {Len(todo) - 1, Len(todo)}
           /\ \A n \in 1..Len(todo) - 1 : todo'[n] = todo[n + 1]
           /\ Len(todo') = Len(todo) => todo'[Len(todo)] = "stop"
           /\ Len(todo') = Len(todo) <=> todo[1] \in EndTasks
<1>1. /\ todo \in Seq(Tasks) /\ todo # <<>> /\ Head(todo) = todo[1]
      /\ "stop" \in Tasks
  <2>1. todo \in Seq(Tasks) /\ todo # <<>>
    BY AgentParts DEF RunTask
  <2>2. Head(todo) = todo[1]
    BY <2>1
  <2>3. "stop" \in Tasks
    BY DEF Tasks
  <2>. QED
    BY <2>1, <2>2, <2>3
<1>2. /\ Len(todo) \in Nat \ {0} /\ todo[1] \in Tasks
      /\ Tail(todo) \in Seq(Tasks) /\ Len(Tail(todo)) = Len(todo) - 1
      /\ \A n \in 1..Len(todo) - 1 : Tail(todo)[n] = todo[n + 1]
  BY <1>1
<1>3. CASE todo[1] \in EndTasks
  <2>1. todo' = Tail(todo) \o <<"stop">>
    BY <1>1, <1>3 DEF RunTask, EndTasks
  <2>2. /\ todo' \in Seq(Tasks) /\ Len(todo') = Len(Tail(todo)) + 1
        /\ \A n \in 1..Len(Tail(todo)) : todo'[n] = Tail(todo)[n]
        /\ todo'[Len(Tail(todo)) + 1] = "stop"
    BY <1>1, <1>2, <2>1, OneMore
  <2>3. Len(todo') = Len(todo) /\ Len(Tail(todo)) + 1 = Len(todo)
    BY <1>2, <2>2
  <2>. QED
    BY <1>2, <1>3, <2>2, <2>3
<1>4. CASE todo[1] \notin EndTasks
  <2>1. todo' = Tail(todo) \o <<>>
    BY <1>1, <1>4 DEF RunTask, EndTasks
  <2>2. todo' = Tail(todo)
    BY <1>2, <2>1
  <2>3. Len(todo') = Len(todo) - 1 /\ Len(todo') # Len(todo)
    <3>1. ASSUME NEW n \in Nat \ {0}, NEW m, m = n - 1 PROVE m # n
      BY <3>1
    <3>2. Len(todo') = Len(todo) - 1
      BY <1>2, <2>2, Zenon
    <3>. QED
      BY <1>2, <3>1, <3>2, Zenon
  <2>. QED
    BY <1>2, <1>4, <2>2, <2>3
<1>. QED
  BY <1>3, <1>4

LEMMA RunSteps == AgentInv /\ RunTask => AgentInv'
<1>. SUFFICES ASSUME AgentInv, RunTask PROVE AgentInv'
  OBVIOUS
<1>. USE AgentAssumption
<1>0. AgentTypeOK
  BY DEF AgentInv
<1>. DEFINE task == todo[1]
<1>1. /\ Len(todo) \in Nat \ {0} /\ task \in Tasks
      /\ todo' \in Seq(Tasks) /\ Len(todo') \in {Len(todo) - 1, Len(todo)}
      /\ \A n \in 1..Len(todo) - 1 : todo'[n] = todo[n + 1]
      /\ Len(todo') = Len(todo) => todo'[Len(todo)] = "stop"
      /\ Len(todo') = Len(todo) <=> task \in EndTasks
  BY <1>0, TasksMoveUp
<1>2. /\ lifecycle' = Told(task)
      /\ client' = IF task = "close client" THEN "closed" ELSE client
      /\ beat' = IF task = "stop" THEN "stopped" ELSE beat
      /\ UNCHANGED <<job, snapshot, voice, monitor, incidents, watchVars>>
  <2>1. Head(todo) = task
    BY <1>0, <1>1, AgentParts
  <2>. QED
    BY <2>1 DEF RunTask
<1>3. /\ overtaken' \in BOOLEAN
      /\ overtaken => overtaken'
      /\ task \in Transitions /\ job \in {"failing", "stopping", "raised"} => overtaken'
  <2>1. Head(todo) = task
    BY <1>0, <1>1, AgentParts
  <2>. QED
    BY <2>1 DEF RunTask
<1>4. lifecycle' \in Transitions \cup {"starting", "ready", "ended"}
  BY <1>0, <1>2 DEF Told, AgentTypeOK, Transitions
<1>5. TasksAreFew' /\ Len(todo') <= MaxEvents + 3
  <2>1. voice # "none"
    BY <1>1 DEF AgentInv, StartIsOrdered
  <2>2. Len(todo) <= incidents + 2 /\ incidents \in Nat /\ incidents <= MaxEvents
    BY <1>0, <1>1, AgentParts DEF AgentInv, TasksAreFew
  <2>3. Len(todo') \in Nat /\ Len(todo') <= Len(todo)
    BY <1>1
  <2>4. Len(todo) <= incidents + (IF voice = "closed" THEN 2 ELSE 0)
    BY DEF AgentInv, TasksAreFew
  <2>5. Len(todo) \in Nat
    BY <1>1
  <2>6. Len(todo') <= incidents + (IF voice = "closed" THEN 2 ELSE 0)
    BY <2>2, <2>3, <2>4, <2>5
  <2>7. TasksAreFew'
    BY <1>2, <2>6 DEF TasksAreFew
  <2>. QED
    BY <2>2, <2>3, <2>5, <2>7, AgentAssumption
<1>6. AgentTypeOK'
  <2>1. {snapshot, quiet, idle, leaving, joined, overtaken}' \subseteq BOOLEAN
    BY <1>0, <1>2, <1>3 DEF AgentTypeOK, watchVars
  <2>. QED
    BY <1>0, <1>1, <1>2, <1>4, <1>5, <2>1 DEF AgentTypeOK, watchVars
<1>7. StartIsOrdered'
  <2>1. voice # "none"
    BY <1>1 DEF AgentInv, StartIsOrdered
  <2>. QED
    BY <1>2, <1>3, <2>1 DEF AgentInv, StartIsOrdered
<1>8. task \notin Transitions /\ Final => Final'
  BY <1>1, <1>2, <1>3 DEF Final, Told, Tasks, Transitions
<1>9. FailedStartIsQuiet'
  <2>1. client # "none"
    BY <1>1 DEF AgentInv, StartIsOrdered
  <2>2. job \in {"failing", "stopping", "raised"} => Final'
    BY <1>3, <1>8, <2>1 DEF AgentInv, FailedStartIsQuiet, Final
  <2>. QED
    BY <1>2, <2>1, <2>2 DEF AgentInv, FailedStartIsQuiet
<1>10. MonitorFollows'
  BY <1>2 DEF AgentInv, MonitorFollows
<1>11. ASSUME NEW kinds, NEW n \in 1..Len(todo), todo[n] \in kinds, n # 1
       PROVE  n - 1 \in 1..Len(todo') /\ todo'[n - 1] = todo[n]
  <2>1. n - 1 \in 1..Len(todo) - 1 /\ n - 1 + 1 = n
    BY <1>1, <1>11
  <2>. QED
    BY <1>1, <2>1
<1>12. CloseEndsAll'
  <2>. SUFFICES ASSUME voice = "closed"
                PROVE  /\ client' = "closed" \/ Holds(todo', {"close client"})
                       /\ beat' = "stopped" \/ Holds(todo', EndTasks \cup {"stop"})
    BY <1>2 DEF CloseEndsAll
  <2>1. ASSUME NEW kinds, Holds(todo, kinds), task \notin kinds
        PROVE  Holds(todo', kinds)
    BY <1>11, <2>1 DEF Holds
  <2>2. task \in EndTasks => Holds(todo', EndTasks \cup {"stop"})
    BY <1>1 DEF Holds
  <2>3. client' = "closed" \/ Holds(todo', {"close client"})
    BY <1>2, <2>1 DEF AgentInv, CloseEndsAll
  <2>4. beat' = "stopped" \/ Holds(todo', EndTasks \cup {"stop"})
    BY <1>2, <2>1, <2>2 DEF AgentInv, CloseEndsAll
  <2>. QED
    BY <2>3, <2>4
<1>13. CloseIsTold'
  <2>. SUFFICES ASSUME voice = "closed"
       PROVE  \/ \E n \in 1..Len(todo') :
                    /\ todo'[n] \in EndTasks
                    /\ \A m \in n + 1..Len(todo') : todo'[m] \notin Transitions
              \/ Final' /\ ~Holds(todo', Transitions)
    BY <1>2 DEF CloseIsTold
  <2>1. ASSUME NEW n \in 1..Len(todo),
               \A m \in n + 1..Len(todo) : todo[m] \notin Transitions
        PROVE  \A m \in n..Len(todo') : todo'[m] \notin Transitions
    <3>. SUFFICES ASSUME NEW m \in n..Len(todo') PROVE todo'[m] \notin Transitions
      OBVIOUS
    <3>1. CASE m \in 1..Len(todo) - 1
      <4>1. m + 1 \in n + 1..Len(todo)
        BY <1>1, <3>1
      <4>. QED
        BY <1>1, <2>1, <3>1, <4>1
    <3>2. CASE m \notin 1..Len(todo) - 1
      <4>1. m = Len(todo) /\ Len(todo') = Len(todo)
        BY <1>1, <3>2
      <4>. QED
        BY <1>1, <4>1 DEF Transitions
    <3>. QED
      BY <3>1, <3>2
  <2>2. ASSUME NEW n \in 1..Len(todo), todo[n] \in EndTasks, n # 1,
               \A m \in n + 1..Len(todo) : todo[m] \notin Transitions
        PROVE  \E k \in 1..Len(todo') :
                    /\ todo'[k] \in EndTasks
                    /\ \A m \in k + 1..Len(todo') : todo'[m] \notin Transitions
    <3>1. n - 1 \in 1..Len(todo') /\ todo'[n - 1] = todo[n] /\ n - 1 + 1 = n
      BY <1>11, <2>2
    <3>2. \A m \in n..Len(todo') : todo'[m] \notin Transitions
      BY <2>1, <2>2
    <3>. QED
      BY <2>2, <3>1, <3>2
  <2>3. ASSUME task \in EndTasks, \A m \in 2..Len(todo) : todo[m] \notin Transitions
        PROVE  Final' /\ ~Holds(todo', Transitions)
    <3>1. Final'
      BY <1>2, <2>3 DEF Final, Told, EndTasks, Transitions
    <3>2. 1 \in 1..Len(todo) /\ 1 + 1 = 2
      BY <1>1
    <3>3. \A m \in 1..Len(todo') : todo'[m] \notin Transitions
      BY <2>1, <2>3, <3>2
    <3>. QED
      BY <3>1, <3>3 DEF Holds
  <2>4. ASSUME Final, ~Holds(todo, Transitions)
        PROVE  Final' /\ ~Holds(todo', Transitions)
    <3>1. 1 \in 1..Len(todo) /\ task \notin Transitions
          /\ \A m \in 1 + 1..Len(todo) : todo[m] \notin Transitions
      BY <1>1, <2>4 DEF Holds
    <3>2. \A m \in 1..Len(todo') : todo'[m] \notin Transitions
      BY <2>1, <3>1
    <3>. QED
      BY <1>8, <2>4, <3>1, <3>2 DEF Holds
  <2>5. CloseIsTold
    BY DEF AgentInv
  <2>6. CASE \E n \in 1..Len(todo) :
                todo[n] \in EndTasks /\ \A m \in n + 1..Len(todo) : todo[m] \notin Transitions
    <3>1. PICK n \in 1..Len(todo) :
                todo[n] \in EndTasks /\ \A m \in n + 1..Len(todo) : todo[m] \notin Transitions
      BY <2>6
    <3>2. CASE n = 1
      BY <2>3, <3>1, <3>2
    <3>3. CASE n # 1
      BY <2>2, <3>1, <3>3
    <3>. QED
      BY <3>2, <3>3
  <2>. QED
    BY <2>4, <2>5, <2>6 DEF CloseIsTold
<1>. QED
  BY <1>5, <1>6, <1>7, <1>9, <1>10, <1>12, <1>13 DEF AgentInv

-----------------------------------------------------------------------------
LEMMA AgentInductive == AgentInv /\ [AgentNext]_agentVars => AgentInv'
<1>. SUFFICES ASSUME AgentInv, [AgentNext]_agentVars PROVE AgentInv'
  OBVIOUS
<1>1. CASE UNCHANGED agentVars
  <2>1. AgentTypeOK'
    BY <1>1 DEF agentVars, startVars, watchVars, AgentInv, AgentTypeOK
  <2>. QED
    BY <1>1, <2>1 DEF agentVars, startVars, watchVars, AgentInv, TasksAreFew,
       StartIsOrdered, FailedStartIsQuiet, MonitorFollows, CloseEndsAll, CloseIsTold, Final,
       Holds
<1>2. CASE AgentNext
  BY <1>2, WatchSteps, EntrypointSteps, IncidentSteps, CloseSteps, RunSteps
     DEF AgentNext, AgentSteps, WatchStep, EntrypointStep, EndTasks
<1>. QED
  BY <1>1, <1>2

LEMMA AgentGives == AgentInv => EndedAgentIsQuiet
<1>. SUFFICES ASSUME AgentInv, Over, todo = <<>>, client # "none"
              PROVE  /\ beat = "stopped" /\ client = "closed" /\ monitor # "running"
                     /\ lifecycle \in {"failed", "ended"} \/ overtaken
  BY DEF EndedAgentIsQuiet
<1>1. ~Holds(todo, {"close client"}) /\ ~Holds(todo, EndTasks \cup {"stop"})
  BY DEF Holds
<1>2. \A n \in 1..Len(todo) : FALSE
  OBVIOUS
<1>3. CASE job = "raised"
  BY <1>3 DEF AgentInv, FailedStartIsQuiet, MonitorFollows, Final
<1>4. CASE job = "running" /\ voice = "closed"
  BY <1>1, <1>2, <1>4 DEF AgentInv, MonitorFollows, CloseEndsAll, CloseIsTold, Final
<1>. QED
  BY <1>3, <1>4 DEF Over

-----------------------------------------------------------------------------
(***************************************************************************)
(* The voice page.  What a page holds follows from where it is.            *)
(***************************************************************************)
Shown == {"connected", "recovering", "speaking"}

(***************************************************************************)
(* One page and the lock.  The lock follows the room but for a page left   *)
(* midway; an await of startSession outlives the room that it is for, so   *)
(* only a microphone opened after that is held without a room.             *)
(***************************************************************************)
LockFollowsRoom(p) ==
    /\ webLocks /\ (page[p].room # "none" \/ page[p].flight = "token") =>
          voiceLock = p \/ page[p].midway
    /\ page[p].room = "none" /\ page[p].flight # "token" => voiceLock # p

RoomFollowsFlight(p) ==
    /\ page[p].room # "none" => page[p].flight \notin {"lock", "token"}
    /\ page[p].room = "connecting" => page[p].flight = "connect"
    /\ page[p].room = "none" => /\ ~page[p].timer /\ ~page[p].audio
                                /\ page[p].flight # "publish" => ~page[p].mic

ViewIsTold(p) ==
    /\ page[p].midway => page[p].view = "gone"
    /\ page[p].view = "gone" /\ ~page[p].midway =>
          page[p].room = "none" /\ page[p].flight \notin {"lock", "token"}
    /\ page[p].view = "unopened" =>
          /\ page[p].room = "none" /\ page[p].flight = "idle"
          /\ page[p].status = "disconnected"

StatusIsTold(p) ==
    page[p].view = "mounted" =>
        IF page[p].status \in Shown THEN page[p].room = "live"
        ELSE page[p].room = "live" => page[p].flight # "idle"

PageInv(p) == LockFollowsRoom(p) /\ RoomFollowsFlight(p) /\ ViewIsTold(p) /\ StatusIsTold(p)

SandboxInv == SandboxTypeOK /\ \A p \in Pages : PageInv(p)

LEMMA SandboxInitial == SandboxInit => SandboxInv
BY SandboxAssumption DEF SandboxInit, SandboxInv, SandboxTypeOK, PageState, Fresh, PageInv,
   LockFollowsRoom, RoomFollowsFlight, ViewIsTold, StatusIsTold, Shown

-----------------------------------------------------------------------------
(***************************************************************************)
(* A step of one page: the others keep what they have, the lock too.       *)
(***************************************************************************)
LEMMA OnePageSteps ==
    ASSUME SandboxInv, NEW p \in Pages, NEW state, Becomes(p, state),
           SandboxTypeOK', PageInv(p)',
           \A q \in Pages \ {p} : (voiceLock' = q) <=> (voiceLock = q)
    PROVE  SandboxInv'
<1>1. ASSUME NEW q \in Pages \ {p} PROVE PageInv(q)'
  <2>1. page'[q] = page[q] /\ UNCHANGED webLocks /\ ((voiceLock' = q) <=> (voiceLock = q))
    BY DEF Becomes, SandboxInv, SandboxTypeOK
  <2>2. PageInv(q)
    BY DEF SandboxInv
  <2>. QED
    BY <2>1, <2>2 DEF PageInv, LockFollowsRoom, RoomFollowsFlight, ViewIsTold, StatusIsTold
<1>. QED
  BY <1>1 DEF SandboxInv

(***************************************************************************)
(* Releasing the lock, taking it when it is free and leaving it alone are  *)
(* the same to another page.                                               *)
(***************************************************************************)
LEMMA LockOfOthers ==
    ASSUME SandboxInv, NEW p \in Pages,
           \/ UNCHANGED voiceLock \/ Release(p)
           \/ LockIsFree /\ voiceLock' = p
    PROVE  /\ \A q \in Pages \ {p} : (voiceLock' = q) <=> (voiceLock = q)
           /\ voiceLock' \in Pages \cup {NoPage}
BY SandboxAssumption DEF Release, LockIsFree, SandboxInv, SandboxTypeOK

(***************************************************************************)
(* The state a page comes to is the one a step names.                      *)
(***************************************************************************)
LEMMA Becoming ==
    ASSUME SandboxTypeOK, NEW p \in Pages, NEW state \in PageState, Becomes(p, state),
           voiceLock' \in Pages \cup {NoPage}
    PROVE  page'[p] = state /\ SandboxTypeOK' /\ UNCHANGED webLocks
BY DEF SandboxTypeOK, Becomes

-----------------------------------------------------------------------------
(***************************************************************************)
(* Steps of a page that leave the lock alone.                              *)
(***************************************************************************)
QuietStep(p) == \/ Mount(p) \/ StartSession(p) \/ TokenFetched(p) \/ RoomConnected(p)
                \/ MicrophoneOpened(p) \/ Published(p) \/ AgentSpeaks(p) \/ AudioStops(p)
                \/ AgentFallsSilent(p)
                \/ \E status \in {page[p].status, "recovering", "connected"} :
                      Lifecycle(p, status)

(***************************************************************************)
(* What such a step makes of the page.                                     *)
(***************************************************************************)
QuietChange(s, t) ==
    \/ s.view = "unopened" /\ t = [s EXCEPT !.view = "mounted"]
    \/ /\ s.view = "mounted" /\ s.flight = "idle" /\ s.room = "none"
       /\ t = [s EXCEPT !.flight = "lock", !.status = "connecting"]
    \/ s.flight = "token" /\ t = [s EXCEPT !.flight = "connect", !.room = "connecting"]
    \/ /\ s.flight = "connect" /\ s.room = "connecting"
       /\ t = [s EXCEPT !.flight = "mic", !.room = "live", !.timer = TRUE, !.agent = "alive"]
    \/ s.flight = "mic" /\ t = [s EXCEPT !.flight = "publish", !.mic = TRUE]
    \/ /\ s.flight = "publish" /\ s.room = "live"
       /\ t = [s EXCEPT !.flight = "idle", !.status = "connected"]
    \/ s.room = "live" /\ t = [s EXCEPT !.audio = TRUE, !.status = "speaking"]
    \/ /\ s.room = "live"
       /\ \E agent \in {s.agent, "silent"} : t = [s EXCEPT !.audio = FALSE, !.agent = agent]
    \/ t = [s EXCEPT !.agent = "silent"]
    \/ /\ s.room = "live"
       /\ \E status \in {s.status, "recovering", "connected"} :
             t = [s EXCEPT !.timer = TRUE, !.status = status]

LEMMA QuietSteps ==
    ASSUME SandboxInv, NEW p \in Pages, QuietStep(p)
    PROVE  SandboxInv'
<1>1. PageInv(p) /\ SandboxTypeOK /\ page[p] \in PageState
  BY DEF SandboxInv, SandboxTypeOK
<1>2. UNCHANGED voiceLock
  BY DEF QuietStep, Mount, StartSession, TokenFetched, RoomConnected, MicrophoneOpened,
         Published, AgentSpeaks, AudioStops, AgentFallsSilent, Lifecycle
<1>3. PICK state : Becomes(p, state) /\ QuietChange(page[p], state)
  BY DEF QuietStep, Mount, StartSession, TokenFetched, RoomConnected, MicrophoneOpened,
         Published, AgentSpeaks, AudioStops, AgentFallsSilent, Lifecycle, QuietChange
<1>4. state \in PageState
  <2>. DEFINE s == page[p]
  <2>1. /\ [s EXCEPT !.view = "mounted"] \in PageState
        /\ [s EXCEPT !.flight = "lock", !.status = "connecting"] \in PageState
        /\ [s EXCEPT !.flight = "connect", !.room = "connecting"] \in PageState
    BY <1>1 DEF PageState
  <2>2. [s EXCEPT !.flight = "mic", !.room = "live", !.timer = TRUE, !.agent = "alive"]
            \in PageState
    BY <1>1 DEF PageState
  <2>3. /\ [s EXCEPT !.flight = "publish", !.mic = TRUE] \in PageState
        /\ [s EXCEPT !.flight = "idle", !.status = "connected"] \in PageState
        /\ [s EXCEPT !.audio = TRUE, !.status = "speaking"] \in PageState
    BY <1>1 DEF PageState
  <2>4. /\ \A agent \in {s.agent, "silent"} :
                [s EXCEPT !.audio = FALSE, !.agent = agent] \in PageState
        /\ [s EXCEPT !.agent = "silent"] \in PageState
    BY <1>1 DEF PageState
  <2>5. \A status \in {s.status, "recovering", "connected"} :
           [s EXCEPT !.timer = TRUE, !.status = status] \in PageState
    BY <1>1 DEF PageState
  <2>. QED
    BY <1>3, <2>1, <2>2, <2>3, <2>4, <2>5 DEF QuietChange
<1>5. page'[p] = state /\ SandboxTypeOK' /\ UNCHANGED webLocks
  BY <1>1, <1>2, <1>3, <1>4, Becoming DEF SandboxTypeOK
<1>6. PageInv(p)'
  <2>. DEFINE s == page[p]
  <2>. USE <1>1, <1>2, <1>5 DEF PageState, PageInv, LockFollowsRoom, RoomFollowsFlight,
                                ViewIsTold, StatusIsTold, Shown
  <2>1. CASE s.view = "unopened" /\ state = [s EXCEPT !.view = "mounted"]
    BY <2>1
  <2>2. CASE /\ s.view = "mounted" /\ s.flight = "idle" /\ s.room = "none"
             /\ state = [s EXCEPT !.flight = "lock", !.status = "connecting"]
    BY <2>2
  <2>3. CASE s.flight = "token" /\ state = [s EXCEPT !.flight = "connect", !.room = "connecting"]
    BY <2>3
  <2>4. CASE /\ s.flight = "connect" /\ s.room = "connecting"
             /\ state = [s EXCEPT !.flight = "mic", !.room = "live", !.timer = TRUE,
                                  !.agent = "alive"]
    BY <2>4
  <2>5. CASE s.flight = "mic" /\ state = [s EXCEPT !.flight = "publish", !.mic = TRUE]
    BY <2>5
  <2>6. CASE /\ s.flight = "publish" /\ s.room = "live"
             /\ state = [s EXCEPT !.flight = "idle", !.status = "connected"]
    BY <2>6
  <2>7. CASE s.room = "live" /\ state = [s EXCEPT !.audio = TRUE, !.status = "speaking"]
    BY <2>7
  <2>8. ASSUME s.room = "live", NEW agent \in {s.agent, "silent"},
               state = [s EXCEPT !.audio = FALSE, !.agent = agent]
        PROVE  PageInv(p)'
    BY <2>8
  <2>9. CASE state = [s EXCEPT !.agent = "silent"]
    BY <2>9
  <2>10. ASSUME s.room = "live", NEW status \in {s.status, "recovering", "connected"},
                state = [s EXCEPT !.timer = TRUE, !.status = status]
         PROVE  PageInv(p)'
    BY <2>10
  <2>. QED
    BY <1>3, <2>1, <2>2, <2>3, <2>4, <2>5, <2>6, <2>7, <2>8, <2>9, <2>10 DEF QuietChange
<1>. QED
  BY <1>2, <1>3, <1>5, <1>6, OnePageSteps, LockOfOthers

(***************************************************************************)
(* The answer of the lock.                                                 *)
(***************************************************************************)
LEMMA LockStep ==
    ASSUME SandboxInv, NEW p \in Pages, LockAnswered(p)
    PROVE  SandboxInv'
<1>1. PageInv(p) /\ SandboxTypeOK /\ page[p] \in PageState /\ page[p].flight = "lock"
  BY DEF SandboxInv, SandboxTypeOK, LockAnswered
<1>2. PICK state :
         /\ Becomes(p, state)
         /\ \/ /\ state = [page[p] EXCEPT !.flight = "token"]
               /\ \/ LockIsFree /\ voiceLock' = p
                  \/ ~webLocks /\ UNCHANGED voiceLock
            \/ /\ state = [page[p] EXCEPT !.flight = "idle", !.status = "disconnected"]
               /\ UNCHANGED voiceLock
  BY DEF LockAnswered
<1>3. state \in PageState
  BY <1>1, <1>2 DEF PageState
<1>4. page'[p] = state /\ SandboxTypeOK' /\ UNCHANGED webLocks
  BY <1>1, <1>2, <1>3, Becoming, LockOfOthers DEF SandboxTypeOK
<1>5. PageInv(p)'
  BY <1>1, <1>2, <1>4
     DEF PageState, PageInv, LockFollowsRoom, RoomFollowsFlight, ViewIsTold,
         StatusIsTold, Shown
<1>. QED
  BY <1>2, <1>4, <1>5, OnePageSteps, LockOfOthers

(***************************************************************************)
(* The ways out of a session clear the page and give the lock back.        *)
(***************************************************************************)
ClearingStep(p) == FailVoiceSession(p) \/ RoomDropped(p) \/ StopSession(p)
                     \/ StartFails(p) \/ Unmount(p)

(***************************************************************************)
(* What they make of a page: the await of startSession ends, or there is   *)
(* none that could open a room later but after an unmount.                 *)
(***************************************************************************)
ClearingChange(s, t) ==
    \/ /\ s.room # "none" \/ (s.flight = "idle" /\ s.view = "mounted")
       /\ t = Cleared(s)
    \/ /\ s.flight \in {"token", "connect", "mic", "publish"}
       /\ t = [Cleared(s) EXCEPT !.flight = "idle"]
    \/ /\ s.view = "mounted"
       /\ t = [Cleared(s) EXCEPT !.view = "gone", !.status = s.status,
                                 !.midway = s.flight \in {"lock", "token"}]

LEMMA ClearingSteps ==
    ASSUME SandboxInv, NEW p \in Pages, ClearingStep(p)
    PROVE  SandboxInv'
<1>1. PageInv(p) /\ SandboxTypeOK /\ page[p] \in PageState
  BY DEF SandboxInv, SandboxTypeOK
<1>2. Release(p) /\ voiceLock' # p
  BY <1>1, SandboxAssumption
     DEF ClearingStep, FailVoiceSession, RoomDropped, StopSession, StartFails, Unmount, Release
<1>3. PICK state : Becomes(p, state) /\ ClearingChange(page[p], state)
  BY DEF ClearingStep, FailVoiceSession, RoomDropped, StopSession, StartFails, Unmount,
         ClearingChange
<1>4. state \in PageState
  <2>1. Cleared(page[p]) \in PageState
    BY <1>1 DEF Cleared, PageState
  <2>2. ASSUME NEW m \in BOOLEAN
        PROVE  [Cleared(page[p]) EXCEPT !.view = "gone", !.status = page[p].status,
                                        !.midway = m] \in PageState
    <3>1. ASSUME NEW c \in PageState, NEW status, [c EXCEPT !.status = status] \in PageState
          PROVE  [c EXCEPT !.view = "gone", !.status = status, !.midway = m] \in PageState
      BY <2>2, <3>1 DEF PageState
    <3>2. [Cleared(page[p]) EXCEPT !.status = page[p].status] \in PageState
      BY <1>1, <2>1 DEF PageState
    <3>. QED
      BY <2>1, <3>1, <3>2
  <2>3. [Cleared(page[p]) EXCEPT !.flight = "idle"] \in PageState
    BY <2>1 DEF PageState
  <2>4. (page[p].flight \in {"lock", "token"}) \in BOOLEAN
    OBVIOUS
  <2>. QED
    BY <1>3, <2>1, <2>2, <2>3, <2>4 DEF ClearingChange
<1>5. page'[p] = state /\ SandboxTypeOK' /\ UNCHANGED webLocks
  BY <1>1, <1>2, <1>3, <1>4, Becoming, LockOfOthers
<1>6. state.room = "none" /\ ~state.timer /\ ~state.audio /\ ~state.mic
  BY <1>1, <1>3 DEF ClearingChange, Cleared, PageState
<1>7. LockFollowsRoom(p)' /\ RoomFollowsFlight(p)'
  <2>1. state.flight = "token" => state.midway
    BY <1>1, <1>3 DEF ClearingChange, Cleared, PageState, PageInv, RoomFollowsFlight
  <2>. QED
    BY <1>2, <1>5, <1>6, <2>1 DEF LockFollowsRoom, RoomFollowsFlight
<1>8. ViewIsTold(p)' /\ StatusIsTold(p)'
  <2>1. /\ state.view = "mounted" => state.status = "disconnected"
        /\ state.view \in {page[p].view, "gone"}
        /\ state.flight \in {page[p].flight, "idle"}
    BY <1>1, <1>3 DEF ClearingChange, Cleared, PageState
  <2>2. /\ state.midway => state.view = "gone"
        /\ state.view = "gone" /\ ~state.midway => state.flight \notin {"lock", "token"}
    BY <1>1, <1>3 DEF ClearingChange, Cleared, PageState, PageInv, RoomFollowsFlight, ViewIsTold
  <2>3. state.view = "unopened" => state.flight = "idle" /\ state.status = "disconnected"
    BY <1>1, <1>3 DEF ClearingChange, Cleared, PageState, PageInv, ViewIsTold
  <2>. QED
    BY <1>5, <1>6, <2>1, <2>2, <2>3 DEF ViewIsTold, StatusIsTold, Shown
<1>. QED
  BY <1>2, <1>3, <1>5, <1>7, <1>8, OnePageSteps, LockOfOthers DEF PageInv

-----------------------------------------------------------------------------
LEMMA SandboxInductive == SandboxInv /\ [SandboxNext]_sandboxVars => SandboxInv'
<1>. SUFFICES ASSUME SandboxInv, [SandboxNext]_sandboxVars PROVE SandboxInv'
  OBVIOUS
<1>1. CASE UNCHANGED sandboxVars
  BY <1>1 DEF sandboxVars, SandboxInv, SandboxTypeOK, PageInv, LockFollowsRoom,
              RoomFollowsFlight, ViewIsTold, StatusIsTold
<1>2. ASSUME NEW p \in Pages,
             \/ Mount(p) \/ StartSession(p) \/ StopSession(p) \/ Unmount(p)
             \/ AwaitAnswered(p) \/ RoomEvents(p) \/ HeartbeatRunsOut(p)
      PROVE  QuietStep(p) \/ LockAnswered(p) \/ ClearingStep(p)
  BY <1>2 DEF AwaitAnswered, RoomEvents, AgentEnds, HeartbeatRunsOut, QuietStep,
              ClearingStep
<1>. QED
  BY <1>1, <1>2, QuietSteps, LockStep, ClearingSteps DEF SandboxNext

LEMMA SandboxGives == SandboxInv => OneLiveVoice /\ SandboxHoldsWhatItShows
<1>1. SandboxInv => OneLiveVoice
  BY DEF SandboxInv, PageInv, LockFollowsRoom, OneLiveVoice
<1>2. SandboxInv => NothingIsLeftOpen
  BY DEF SandboxInv, PageInv, LockFollowsRoom, RoomFollowsFlight, ViewIsTold,
         NothingIsLeftOpen
<1>3. SandboxInv => ShownStatusIsTrue
  BY DEF SandboxInv, PageInv, LockFollowsRoom, ViewIsTold, StatusIsTold, Shown,
         ShownStatusIsTrue
<1>. QED
  BY <1>1, <1>2, <1>3 DEF SandboxHoldsWhatItShows

-----------------------------------------------------------------------------
(***************************************************************************)
(* The hook of the LiveKit session.  A room that is open is the one the    *)
(* hook holds, and the other way round; a session asks for its token       *)
(* before it has a room, and publishes its microphone after it joined.     *)
(***************************************************************************)
OpenRoom == {"new", "leaving"} \cup LiveRoom

RoomIsHeld(i) == sessions[i].room \in OpenRoom => Current(i)

HeldIsOpen ==
    hook.room # 0 => hook.current = hook.room /\ sessions[hook.room].room \in OpenRoom

StageOfRoom(i) ==
    /\ sessions[i].at \in {"none", "token"} => sessions[i].room = "none"
    /\ sessions[i].at = "mic" => sessions[i].room # "new"

MediaIsHeld ==
    /\ hook.mic \/ hook.timer =>
          hook.room # 0 /\ sessions[hook.room].room \in LiveRoom \cup {"leaving"}
    /\ hook.status \in InCall => hook.room # 0
    /\ sound.track # "none" => hook.room # 0

LiveInv ==
    /\ LiveTypeOK /\ HeldIsOpen /\ MediaIsHeld /\ MutedOnlyWhileUserSpeaks
    /\ \A i \in Ids : RoomIsHeld(i) /\ StageOfRoom(i)

SessionState == [at : {"none", "token", "connect", "mic", "over"},
                 room : {"none", "new", "live", "reconnecting", "leaving", "closed"}]
HookState == [current : 0..MaxSessions, inFlight : 0..MaxSessions, room : 0..MaxSessions,
              intentional : BOOLEAN, timer : BOOLEAN, mic : BOOLEAN,
              status : InCall \cup {"disconnected", "connecting", "error"}]
SoundState == [track : {"none", "resuming", "ready"}, activating : BOOLEAN,
               gain : {"none", "on", "muted"}, retry : BOOLEAN,
               bot : BOOLEAN, user : BOOLEAN, holding : BOOLEAN]

LEMMA LiveParts ==
    ASSUME LiveTypeOK
    PROVE  /\ sessions \in [Ids -> SessionState] /\ hook \in HookState
           /\ sound \in SoundState /\ (sound.holding => sound.user)
           /\ Ids \subseteq 0..MaxSessions /\ 0 \notin Ids
           /\ \A n \in 0..MaxSessions : n # 0 => n \in Ids
BY LiveKitAssumption DEF LiveTypeOK, SessionState, HookState, SoundState, Ids

LEMMA LiveInitial == LiveInit => LiveInv
<1>. SUFFICES ASSUME LiveInit PROVE LiveInv
  OBVIOUS
<1>. USE LiveKitAssumption DEF LiveInit, NoSound
<1>1. /\ 0 \in 0..MaxSessions
      /\ hook \in HookState
  BY DEF HookState
<1>2. sound \in SoundState /\ ~sound.holding
  BY DEF SoundState
<1>3. sessions \in [Ids -> SessionState] /\ voiceAgent \in {"alive", "silent"}
  BY DEF SessionState
<1>4. unwatched \in BOOLEAN
  OBVIOUS
<1>5. LiveTypeOK
  BY <1>1, <1>2, <1>3, <1>4 DEF LiveTypeOK, SessionState, HookState, SoundState
<1>6. HeldIsOpen /\ MediaIsHeld /\ MutedOnlyWhileUserSpeaks
  BY DEF HeldIsOpen, MediaIsHeld, MutedOnlyWhileUserSpeaks, InCall
<1>7. \A i \in Ids : RoomIsHeld(i) /\ StageOfRoom(i)
  BY DEF RoomIsHeld, StageOfRoom, OpenRoom, LiveRoom
<1>. QED
  BY <1>5, <1>6, <1>7 DEF LiveInv

-----------------------------------------------------------------------------
(***************************************************************************)
(* The ways out of a room: the hook lets go of everything, and closes it.  *)
(***************************************************************************)
LEMMA Dropping ==
    ASSUME LiveInv, NEW status \in {"disconnected", "error"}, NEW intentional \in BOOLEAN,
           Drop(status, intentional), NEW i \in Ids,
           \/ sessions' = [Close(i) EXCEPT ![i].at = "over"]
           \/ sessions' = Close(i)
           \/ UNCHANGED sessions /\ hook.room = 0,
           hook.room # 0 => hook.room = i,
           UNCHANGED <<voiceAgent, unwatched>>
    PROVE  LiveInv'
<1>1. /\ sessions \in [Ids -> SessionState] /\ hook \in HookState
      /\ Ids \subseteq 0..MaxSessions /\ 0 \notin Ids /\ 0 \in 0..MaxSessions
  BY LiveParts, LiveKitAssumption DEF LiveInv
<1>2. /\ hook'.current = 0 /\ hook'.room = 0 /\ ~hook'.timer /\ ~hook'.mic
      /\ hook'.status = status /\ hook' \in HookState
  BY <1>1 DEF Drop, HookState
<1>3. sound' = NoSound /\ NoSound \in SoundState /\ ~NoSound.holding
  BY DEF Drop, NoSound, SoundState
<1>4. /\ sessions' \in [Ids -> SessionState]
      /\ \A j \in Ids \ {i} : sessions'[j] = sessions[j]
      /\ sessions'[i].room \in {"none", "closed", sessions[i].room}
      /\ sessions'[i].at \in {"over", sessions[i].at}
      /\ sessions'[i].room = sessions[i].room \/ sessions[i].room # "none"
      /\ (UNCHANGED sessions /\ hook.room = 0) \/ sessions'[i].room \in {"none", "closed"}
  BY <1>1 DEF Close, SessionState
<1>5. LiveTypeOK'
  BY <1>2, <1>3, <1>4 DEF LiveInv, LiveTypeOK, SessionState, HookState, SoundState
<1>6. HeldIsOpen' /\ MediaIsHeld' /\ MutedOnlyWhileUserSpeaks'
  BY <1>2, <1>3 DEF HeldIsOpen, MediaIsHeld, MutedOnlyWhileUserSpeaks, NoSound, InCall
<1>7. ASSUME NEW j \in Ids PROVE RoomIsHeld(j)' /\ StageOfRoom(j)'
  <2>1. sessions'[j].room \notin OpenRoom
    <3>1. sessions[j].room \in OpenRoom => hook.room = j
      BY DEF LiveInv, RoomIsHeld, Current
    <3>2. CASE UNCHANGED sessions /\ hook.room = 0
      BY <1>1, <3>1, <3>2
    <3>3. CASE j # i
      BY <1>1, <1>4, <3>1, <3>3
    <3>4. CASE j = i /\ sessions'[i].room \in {"none", "closed"}
      BY <3>4 DEF OpenRoom, LiveRoom
    <3>. QED
      BY <1>4, <3>2, <3>3, <3>4
  <2>2. StageOfRoom(j)'
    BY <1>4, <2>1 DEF LiveInv, StageOfRoom, OpenRoom
  <2>. QED
    BY <2>1, <2>2 DEF RoomIsHeld
<1>. QED
  BY <1>5, <1>6, <1>7 DEF LiveInv

-----------------------------------------------------------------------------
(***************************************************************************)
(* The awaits of connect.                                                  *)
(***************************************************************************)
LEMMA ConnectSteps ==
    ASSUME LiveInv, NEW i \in Ids, HookConnect(i)
    PROVE  LiveInv'
<1>1. /\ sessions \in [Ids -> SessionState] /\ hook \in HookState
      /\ Ids \subseteq 0..MaxSessions /\ 0 \notin Ids
  BY LiveParts DEF LiveInv
<1>2. /\ hook.room = 0 /\ hook'.room = 0 /\ hook'.timer = hook.timer /\ hook'.mic = hook.mic
      /\ hook'.status = "connecting" /\ hook' \in HookState /\ UNCHANGED sound
  BY <1>1 DEF HookConnect, HookState
<1>3. /\ sessions' \in [Ids -> SessionState]
      /\ sessions'[i].at = "token" /\ sessions'[i].room = sessions[i].room
      /\ sessions[i].at = "none"
      /\ \A j \in Ids \ {i} : sessions'[j] = sessions[j]
  BY <1>1 DEF HookConnect, SessionState
<1>4. voiceAgent' = "alive" /\ unwatched' = FALSE
  BY DEF HookConnect
<1>5. LiveTypeOK'
  BY <1>2, <1>3, <1>4 DEF LiveInv, LiveTypeOK, SessionState, HookState
<1>6. HeldIsOpen' /\ MediaIsHeld' /\ MutedOnlyWhileUserSpeaks'
  BY <1>2 DEF LiveInv, HeldIsOpen, MediaIsHeld, MutedOnlyWhileUserSpeaks, InCall
<1>7. \A j \in Ids : sessions[j].room \notin OpenRoom
  BY <1>1, <1>2 DEF LiveInv, RoomIsHeld, Current
<1>8. ASSUME NEW j \in Ids PROVE RoomIsHeld(j)' /\ StageOfRoom(j)'
  <2>1. sessions'[j].room \notin OpenRoom
    BY <1>3, <1>7
  <2>2. StageOfRoom(j)'
    BY <1>3 DEF LiveInv, StageOfRoom
  <2>. QED
    BY <2>1, <2>2 DEF RoomIsHeld
<1>. QED
  BY <1>5, <1>6, <1>8 DEF LiveInv

(***************************************************************************)
(* A step in which one session goes on while the hook keeps to it.         *)
(***************************************************************************)
LEMMA SessionGoesOn ==
    ASSUME LiveInv, LiveTypeOK', NEW i \in Ids,
           \A j \in Ids \ {i} : sessions'[j] = sessions[j],
           hook.current = i, hook'.current = i, hook'.room = i,
           sessions'[i].room \in OpenRoom,
           StageOfRoom(i)', MutedOnlyWhileUserSpeaks',
           hook'.mic \/ hook'.timer => sessions'[i].room \in LiveRoom \cup {"leaving"}
    PROVE  LiveInv'
<1>1. Ids \subseteq 0..MaxSessions /\ 0 \notin Ids
  BY LiveParts DEF LiveInv
<1>2. HeldIsOpen' /\ MediaIsHeld'
  BY <1>1 DEF HeldIsOpen, MediaIsHeld
<1>3. ASSUME NEW j \in Ids PROVE RoomIsHeld(j)' /\ StageOfRoom(j)'
  <2>1. CASE j = i
    BY <2>1 DEF RoomIsHeld, Current
  <2>2. CASE j # i
    <3>1. sessions[j].room \notin OpenRoom
      BY <2>2 DEF LiveInv, RoomIsHeld, Current
    <3>. QED
      BY <2>2, <3>1 DEF LiveInv, RoomIsHeld, StageOfRoom
  <2>. QED
    BY <2>1, <2>2
<1>. QED
  BY <1>2, <1>3 DEF LiveInv

(***************************************************************************)
(* A session that was superseded ends beside the one the hook holds.       *)
(***************************************************************************)
LEMMA SupersededEnds ==
    ASSUME LiveInv, NEW i \in Ids, ~Current(i),
           sessions' \in {[Close(i) EXCEPT ![i].at = "over"], [sessions EXCEPT ![i].at = "over"]},
           UNCHANGED <<hook, sound, voiceAgent, unwatched>>
    PROVE  LiveInv'
<1>1. /\ sessions \in [Ids -> SessionState] /\ hook \in HookState
      /\ Ids \subseteq 0..MaxSessions /\ 0 \notin Ids
      /\ hook.room # 0 => hook.room \in Ids
  BY LiveParts DEF LiveInv, HookState
<1>2. /\ sessions' \in [Ids -> SessionState]
      /\ \A j \in Ids \ {i} : sessions'[j] = sessions[j]
      /\ sessions'[i].at = "over" /\ sessions'[i].room \in {sessions[i].room, "closed"}
  BY <1>1 DEF Close, SessionState
<1>3. LiveTypeOK'
  BY <1>2 DEF LiveInv, LiveTypeOK, SessionState
<1>4. sessions[i].room \notin OpenRoom /\ hook.room # i
  BY <1>1 DEF LiveInv, RoomIsHeld, HeldIsOpen, Current
<1>5. HeldIsOpen' /\ MediaIsHeld' /\ MutedOnlyWhileUserSpeaks'
  BY <1>1, <1>2, <1>4 DEF LiveInv, HeldIsOpen, MediaIsHeld, MutedOnlyWhileUserSpeaks
<1>6. ASSUME NEW j \in Ids PROVE RoomIsHeld(j)' /\ StageOfRoom(j)'
  <2>1. CASE j = i
    BY <1>2, <1>4, <2>1 DEF RoomIsHeld, StageOfRoom, OpenRoom, LiveRoom
  <2>2. CASE j # i
    BY <1>2, <2>2 DEF LiveInv, RoomIsHeld, StageOfRoom, Current
  <2>. QED
    BY <2>1, <2>2
<1>. QED
  BY <1>3, <1>5, <1>6 DEF LiveInv

LEMMA ContinueSteps ==
    ASSUME LiveInv, NEW i \in Ids, Continues(i)
    PROVE  LiveInv'
<1>1. /\ sessions \in [Ids -> SessionState] /\ hook \in HookState
      /\ Ids \subseteq 0..MaxSessions /\ i # 0
  BY LiveParts DEF LiveInv
<1>2. StageOfRoom(i) /\ HeldIsOpen /\ MediaIsHeld /\ LiveTypeOK
  BY DEF LiveInv
<1>3. CASE TokenAnswered(i)
  <2>1. CASE hook.current = i
    <3>1. /\ sessions' = [sessions EXCEPT ![i] = [at |-> "connect", room |-> "new"]]
          /\ hook' = [hook EXCEPT !.room = i]
          /\ UNCHANGED <<sound, voiceAgent, unwatched>> /\ sessions[i].at = "token"
      BY <1>3, <2>1 DEF TokenAnswered
    <3>2. /\ sessions' \in [Ids -> SessionState] /\ hook' \in HookState
          /\ sessions'[i].room = "new" /\ sessions'[i].at = "connect"
          /\ \A j \in Ids \ {i} : sessions'[j] = sessions[j]
          /\ hook'.room = i /\ hook'.current = i
          /\ hook'.mic = hook.mic /\ hook'.timer = hook.timer
      BY <1>1, <2>1, <3>1 DEF SessionState, HookState
    <3>3. LiveTypeOK'
      BY <1>2, <3>1, <3>2 DEF LiveTypeOK, SessionState, HookState
    <3>4. hook.room = 0
      BY <1>2, <2>1, <3>1 DEF HeldIsOpen, StageOfRoom, OpenRoom, LiveRoom
    <3>5. ~hook'.mic /\ ~hook'.timer
      BY <1>2, <3>2, <3>4 DEF MediaIsHeld
    <3>6. StageOfRoom(i)' /\ MutedOnlyWhileUserSpeaks'
      BY <3>1, <3>2 DEF StageOfRoom, LiveInv, MutedOnlyWhileUserSpeaks
    <3>. QED
      BY <2>1, <3>2, <3>3, <3>5, <3>6, SessionGoesOn DEF OpenRoom
  <2>2. CASE hook.current # i
    BY <1>3, <2>2, SupersededEnds DEF TokenAnswered, Current
  <2>. QED
    BY <2>1, <2>2
<1>4. CASE HookRoomConnected(i)
  <2>1. CASE Current(i)
    <3>1. /\ sessions' = [sessions EXCEPT ![i] = [at |-> "mic", room |-> "live"]]
          /\ hook' = [hook EXCEPT !.timer = TRUE,
                            !.status = IF sound.track = "none" THEN "waiting" ELSE @]
          /\ UNCHANGED <<sound, voiceAgent, unwatched>>
      BY <1>4, <2>1 DEF HookRoomConnected
    <3>2. /\ sessions' \in [Ids -> SessionState]
          /\ sessions'[i].room = "live" /\ sessions'[i].at = "mic"
          /\ \A j \in Ids \ {i} : sessions'[j] = sessions[j]
      BY <1>1, <3>1 DEF SessionState
    <3>3. hook' \in HookState /\ hook'.room = i /\ hook'.current = i /\ hook.current = i
      BY <1>1, <2>1, <3>1 DEF HookState, InCall, Current
    <3>4. LiveTypeOK'
      BY <1>2, <3>1, <3>2, <3>3 DEF LiveTypeOK, SessionState, HookState
    <3>5. StageOfRoom(i)' /\ MutedOnlyWhileUserSpeaks'
      BY <3>1, <3>2 DEF StageOfRoom, LiveInv, MutedOnlyWhileUserSpeaks
    <3>. QED
      BY <3>2, <3>3, <3>4, <3>5, SessionGoesOn DEF OpenRoom, LiveRoom
  <2>2. CASE ~Current(i)
    BY <1>4, <2>2, SupersededEnds DEF HookRoomConnected
  <2>. QED
    BY <2>1, <2>2
<1>5. CASE MicrophonePublished(i)
  <2>1. CASE Current(i)
    <3>1. /\ sessions' = [sessions EXCEPT ![i].at = "over"] /\ sessions[i].at = "mic"
          /\ hook' = [hook EXCEPT !.mic = TRUE, !.inFlight = 0]
          /\ UNCHANGED <<sound, voiceAgent, unwatched>>
      BY <1>5, <2>1 DEF MicrophonePublished
    <3>2. /\ sessions' \in [Ids -> SessionState]
          /\ sessions'[i].room = sessions[i].room /\ sessions'[i].at = "over"
          /\ \A j \in Ids \ {i} : sessions'[j] = sessions[j]
      BY <1>1, <3>1 DEF SessionState
    <3>3. hook' \in HookState /\ hook'.room = i /\ hook'.current = i /\ hook.current = i
      <4>1. 0 \in 0..MaxSessions
        BY LiveKitAssumption
      <4>2. [hook EXCEPT !.mic = TRUE, !.inFlight = 0] \in HookState
        BY <1>1, <4>1 DEF HookState
      <4>. QED
        BY <1>1, <2>1, <3>1, <4>2 DEF HookState, Current
    <3>4. LiveTypeOK'
      BY <1>2, <3>1, <3>2, <3>3 DEF LiveTypeOK, SessionState, HookState
    <3>5. StageOfRoom(i)' /\ MutedOnlyWhileUserSpeaks'
      BY <3>1, <3>2 DEF StageOfRoom, LiveInv, MutedOnlyWhileUserSpeaks
    <3>6. sessions[i].room \in OpenRoom /\ sessions[i].room # "new"
      BY <1>1, <1>2, <2>1, <3>1 DEF HeldIsOpen, Current, StageOfRoom
    <3>. QED
      BY <3>2, <3>3, <3>4, <3>5, <3>6, SessionGoesOn DEF OpenRoom, LiveRoom
  <2>2. CASE ~Current(i)
    BY <1>5, <2>2, SupersededEnds DEF MicrophonePublished
  <2>. QED
    BY <2>1, <2>2
<1>6. CASE ConnectFails(i)
  <2>1. CASE hook.current = i
    <3>1. hook.room # 0 => hook.room = i
      BY <1>2, <2>1 DEF HeldIsOpen
    <3>2. /\ Drop("error", TRUE) /\ sessions' = [Close(i) EXCEPT ![i].at = "over"]
          /\ UNCHANGED <<voiceAgent, unwatched>>
      BY <1>6, <2>1 DEF ConnectFails
    <3>3. "error" \in {"disconnected", "error"} /\ TRUE \in BOOLEAN
      OBVIOUS
    <3>. QED
      BY <3>1, <3>2, <3>3, Dropping
  <2>2. CASE hook.current # i
    BY <1>6, <2>2, SupersededEnds DEF ConnectFails, Current
  <2>. QED
    BY <2>1, <2>2
<1>. QED
  BY <1>3, <1>4, <1>5, <1>6 DEF Continues

-----------------------------------------------------------------------------
(***************************************************************************)
(* Events of the room the hook holds.                                      *)
(***************************************************************************)
LEMMA LeavingSteps ==
    ASSUME LiveInv,
           \/ Disconnect
           \/ \E i \in Ids : \/ HookRoomDropped(i) \/ AgentFailed(i)
                             \/ HookHeartbeatRunsOut(i) /\ sessions[i].room = "live"
    PROVE  LiveInv'
<1>1. /\ hook \in HookState /\ Ids \subseteq 0..MaxSessions
      /\ \A n \in 0..MaxSessions : n # 0 => n \in Ids
      /\ hook.intentional \in BOOLEAN
  BY LiveParts DEF LiveInv, HookState
<1>2. CASE Disconnect
  <2>1. CASE hook.room = 0
    <3>1. PICK i : i \in Ids
      BY LiveKitAssumption DEF Ids
    <3>. QED
      BY <1>2, <2>1, <3>1, Dropping DEF Disconnect
  <2>2. CASE hook.room # 0
    <3>1. hook.room \in Ids
      BY <1>1, <2>2 DEF HookState
    <3>2. /\ Drop("disconnected", TRUE) /\ sessions' = Close(hook.room)
          /\ UNCHANGED <<voiceAgent, unwatched>>
      BY <1>2, <2>2 DEF Disconnect
    <3>3. "disconnected" \in {"disconnected", "error"} /\ TRUE \in BOOLEAN
      OBVIOUS
    <3>. QED
      BY <3>1, <3>2, <3>3, Dropping
  <2>. QED
    BY <2>1, <2>2
<1>3. ASSUME NEW i \in Ids,
             \/ HookRoomDropped(i) \/ AgentFailed(i)
             \/ HookHeartbeatRunsOut(i) /\ sessions[i].room = "live"
      PROVE  LiveInv'
  <2>1. /\ hook.room = i /\ sessions' = Close(i) /\ UNCHANGED <<voiceAgent, unwatched>>
        /\ \E status \in {"disconnected", "error"}, intentional \in BOOLEAN :
              Drop(status, intentional)
    BY <1>1, <1>3 DEF HookRoomDropped, AgentFailed, HookHeartbeatRunsOut, FailSession, Hears, At
  <2>. QED
    BY <2>1, Dropping
<1>. QED
  BY <1>2, <1>3

RoomChanges(i) ==
    \/ Reconnecting(i) \/ Reconnected(i) \/ AgentEnded(i) \/ HookUnsubscribed(i)
    \/ TrackSubscribed(i)
    \/ \E b \in BOOLEAN : HookLifecycle(i, b) \/ ActiveSpeakers(i, b)
    \/ HookHeartbeatRunsOut(i) /\ sessions[i].room # "live"

(***************************************************************************)
(* What such a step makes of the room, the hook and the sound.             *)
(***************************************************************************)
LEMMA RoomSteps ==
    ASSUME LiveInv, NEW i \in Ids, RoomChanges(i)
    PROVE  LiveInv'
<1>1. /\ sessions \in [Ids -> SessionState] /\ hook \in HookState /\ sound \in SoundState
      /\ Ids \subseteq 0..MaxSessions /\ i # 0 /\ (sound.holding => sound.user)
  BY LiveParts DEF LiveInv
<1>2. /\ hook.room = i /\ hook.current = i /\ sessions[i].room \in OpenRoom
      /\ StageOfRoom(i) /\ MediaIsHeld /\ LiveTypeOK /\ MutedOnlyWhileUserSpeaks
  BY DEF RoomChanges, Reconnecting, Reconnected, AgentEnded, HookUnsubscribed, TrackSubscribed,
         HookLifecycle, ActiveSpeakers, HookHeartbeatRunsOut, Hears, At, LiveInv, HeldIsOpen
<1>3. /\ sessions' \in [Ids -> SessionState] /\ sessions'[i].at = sessions[i].at
      /\ \A j \in Ids \ {i} : sessions'[j] = sessions[j]
      /\ \/ sessions'[i].room = sessions[i].room
         \/ sessions'[i].room \in LiveRoom \cup {"leaving"}
  <2>1. \/ UNCHANGED sessions
        \/ \E room \in LiveRoom \cup {"leaving"} : sessions' = [sessions EXCEPT ![i].room = room]
    BY DEF RoomChanges, Reconnecting, Reconnected, AgentEnded, HookUnsubscribed,
         TrackSubscribed, HookLifecycle, ActiveSpeakers, HookHeartbeatRunsOut, LiveRoom
  <2>2. CASE UNCHANGED sessions
    BY <1>1, <2>2
  <2>3. ASSUME NEW room \in LiveRoom \cup {"leaving"},
               sessions' = [sessions EXCEPT ![i].room = room]
        PROVE  /\ sessions' \in [Ids -> SessionState] /\ sessions'[i].at = sessions[i].at
               /\ \A j \in Ids \ {i} : sessions'[j] = sessions[j]
               /\ sessions'[i].room = room
    BY <1>1, <2>3 DEF SessionState, LiveRoom
  <2>. QED
    BY <2>1, <2>2, <2>3
<1>4. /\ hook' \in HookState /\ hook'.room = hook.room /\ hook'.current = hook.current
      /\ hook'.mic = hook.mic
      /\ hook'.timer => hook.timer \/ sessions[i].room = "live"
  <2>1. CASE Reconnecting(i) \/ Reconnected(i)
    BY <1>1, <2>1 DEF Reconnecting, Reconnected, HookState, InCall
  <2>2. CASE AgentEnded(i) \/ HookUnsubscribed(i)
    BY <1>1, <2>2 DEF AgentEnded, HookUnsubscribed, HookState, InCall
  <2>3. CASE \E b \in BOOLEAN : HookLifecycle(i, b)
    BY <1>1, <2>3 DEF HookLifecycle, Hears, HookState, InCall
  <2>4. CASE TrackSubscribed(i) \/ \E b \in BOOLEAN : ActiveSpeakers(i, b)
    BY <1>1, <2>4 DEF TrackSubscribed, ActiveSpeakers
  <2>5. CASE HookHeartbeatRunsOut(i) /\ sessions[i].room # "live"
    BY <1>1, <2>5 DEF HookHeartbeatRunsOut, HookState
  <2>. QED
    BY <2>1, <2>2, <2>3, <2>4, <2>5 DEF RoomChanges
<1>5. /\ sound' \in SoundState /\ (sound'.holding => sound'.user)
      /\ sound'.gain = "muted" => sound.gain = "muted" /\ sound'.user = sound.user
  <2>1. CASE Reconnected(i)
    <3>1. (sound.activating \/ (sound.retry /\ sound.gain # "none" /\ ~sound.user)) \in BOOLEAN
      OBVIOUS
    <3>2. ASSUME NEW a \in BOOLEAN PROVE [sound EXCEPT !.activating = a] \in SoundState
      BY <1>1 DEF SoundState
    <3>3. PICK a \in BOOLEAN : sound' = [sound EXCEPT !.activating = a]
      BY <2>1, <3>1 DEF Reconnected
    <3>. QED
      BY <1>1, <3>2, <3>3 DEF SoundState
  <2>2. CASE HookUnsubscribed(i)
    <3>1. sound' = [NoSound EXCEPT !.user = sound.user, !.holding = sound.holding]
      BY <2>2 DEF HookUnsubscribed
    <3>2. sound' \in SoundState
      BY <1>1, <3>1 DEF SoundState, NoSound
    <3>3. sound'.gain = "none" /\ sound'.user = sound.user /\ sound'.holding = sound.holding
      BY <3>1 DEF NoSound
    <3>. QED
      BY <1>1, <3>2, <3>3
  <2>3. CASE TrackSubscribed(i) \/ \E b \in BOOLEAN : HookLifecycle(i, b)
    BY <1>1, <2>3 DEF TrackSubscribed, HookLifecycle, SoundState
  <2>4. ASSUME NEW b \in BOOLEAN, ActiveSpeakers(i, b)
        PROVE  /\ sound' \in SoundState /\ (sound'.holding => sound'.user)
               /\ sound'.gain = "muted" => sound.gain = "muted" /\ sound'.user = sound.user
    <3>1. (sound.activating \/ (b /\ sound.retry /\ sound.gain # "none")) \in BOOLEAN
      OBVIOUS
    <3>2. ASSUME NEW a \in BOOLEAN, NEW gain \in {sound.gain, "on"}
          PROVE  [sound EXCEPT !.bot = b, !.gain = gain, !.activating = a] \in SoundState
      BY <1>1 DEF SoundState
    <3>3. PICK a \in BOOLEAN, gain \in {sound.gain, "on"} :
             sound' = [sound EXCEPT !.bot = b, !.gain = gain, !.activating = a]
      BY <2>4, <3>1 DEF ActiveSpeakers
    <3>4. sound' \in SoundState
      BY <3>2, <3>3
    <3>. QED
      BY <1>1, <3>3, <3>4 DEF SoundState
  <2>5. CASE UNCHANGED sound
    BY <1>1, <2>5
  <2>. QED
    BY <2>1, <2>2, <2>3, <2>4, <2>5
       DEF RoomChanges, Reconnecting, AgentEnded, HookHeartbeatRunsOut
<1>6. voiceAgent' \in {"alive", "silent"} /\ unwatched' \in BOOLEAN
  BY <1>2 DEF LiveTypeOK, RoomChanges, Reconnecting, Reconnected, AgentEnded, HookUnsubscribed,
     TrackSubscribed, HookLifecycle, ActiveSpeakers, HookHeartbeatRunsOut
<1>7. LiveTypeOK'
  BY <1>3, <1>4, <1>5, <1>6 DEF LiveTypeOK, SessionState, HookState, SoundState
<1>8. StageOfRoom(i)' /\ sessions'[i].room \in OpenRoom
  BY <1>2, <1>3 DEF StageOfRoom, OpenRoom, LiveRoom, RoomChanges, Reconnecting, Reconnected,
     AgentEnded, HookUnsubscribed, TrackSubscribed, HookLifecycle, ActiveSpeakers,
     HookHeartbeatRunsOut, Hears
<1>9. MutedOnlyWhileUserSpeaks'
  BY <1>2, <1>5 DEF MutedOnlyWhileUserSpeaks
<1>10. hook'.mic \/ hook'.timer => sessions'[i].room \in LiveRoom \cup {"leaving"}
  BY <1>2, <1>3, <1>4 DEF MediaIsHeld, LiveRoom
<1>. QED
  BY <1>2, <1>3, <1>4, <1>7, <1>8, <1>9, <1>10, SessionGoesOn

(***************************************************************************)
(* The sound and the user's speech.                                        *)
(***************************************************************************)
LEMMA AudioSteps ==
    ASSUME LiveInv, Audio \/ VoiceAgentFallsSilent
    PROVE  LiveInv'
<1>1. /\ sessions \in [Ids -> SessionState] /\ hook \in HookState /\ sound \in SoundState
      /\ (sound.holding => sound.user)
  BY LiveParts DEF LiveInv
<1>2. /\ LiveTypeOK /\ HeldIsOpen /\ MediaIsHeld /\ MutedOnlyWhileUserSpeaks
  BY DEF LiveInv
<1>3. UNCHANGED <<sessions, unwatched>> /\ voiceAgent' \in {voiceAgent, "silent"}
  BY DEF Audio, TrackReady, ActivationAnswered, UserGesture, SpeechStart, BargeIn, SpeechEnd,
         VoiceAgentFallsSilent
<1>4. /\ hook' \in HookState /\ hook'.room = hook.room /\ hook'.current = hook.current
      /\ hook'.mic = hook.mic /\ hook'.timer = hook.timer
      /\ hook'.status = hook.status \/ hook.room # 0
  <2>1. CASE ActivationAnswered
    BY <1>1, <1>2, <2>1 DEF ActivationAnswered, HookState, InCall, MediaIsHeld
  <2>2. CASE UNCHANGED hook
    BY <1>1, <2>2
  <2>. QED
    BY <2>1, <2>2 DEF Audio, TrackReady, UserGesture, SpeechStart, BargeIn, SpeechEnd,
                      VoiceAgentFallsSilent
<1>5. /\ sound' \in SoundState /\ (sound'.holding => sound'.user)
      /\ sound'.gain = "muted" => sound'.user
      /\ sound'.track = sound.track \/ hook.room # 0
  <2>1. CASE TrackReady
    <3>1. sound' = [sound EXCEPT !.track = "ready", !.gain = "on", !.activating = ~sound.user]
      BY <2>1 DEF TrackReady
    <3>2. (~sound.user) \in BOOLEAN
      OBVIOUS
    <3>3. \A a \in BOOLEAN :
             [sound EXCEPT !.track = "ready", !.gain = "on", !.activating = a] \in SoundState
      BY <1>1 DEF SoundState
    <3>4. sound' \in SoundState
      BY <3>1, <3>2, <3>3
    <3>5. /\ sound'.gain = "on" /\ sound'.holding = sound.holding /\ sound'.user = sound.user
          /\ hook.room # 0
      BY <1>1, <2>1, <3>1 DEF SoundState, TrackReady
    <3>. QED
      BY <1>1, <3>4, <3>5
  <2>2. CASE ActivationAnswered \/ UserGesture
    BY <1>1, <1>2, <2>2
       DEF ActivationAnswered, UserGesture, SoundState, MutedOnlyWhileUserSpeaks
  <2>3. CASE SpeechStart
    BY <1>1, <2>3 DEF SpeechStart, SoundState
  <2>4. CASE BargeIn
    BY <1>1, <2>4 DEF BargeIn, SoundState
  <2>5. CASE SpeechEnd
    <3>1. PICK a \in BOOLEAN, b \in BOOLEAN, gain \in {"none", "on"} :
             sound' = [sound EXCEPT !.user = FALSE, !.holding = FALSE, !.gain = gain,
                                    !.activating = a, !.bot = b]
      <4>1. PICK speaking \in BOOLEAN :
               sound' = [sound EXCEPT !.user = FALSE, !.holding = StillHolding,
                            !.gain = IF @ = "none" THEN @ ELSE "on",
                            !.activating = @ \/ sound.gain # "none",
                            !.bot = @ \/ speaking]
        BY <2>5 DEF SpeechEnd
      <4>2. /\ (sound.activating \/ sound.gain # "none") \in BOOLEAN
            /\ (sound.bot \/ speaking) \in BOOLEAN
            /\ (IF sound.gain = "none" THEN sound.gain ELSE "on") \in {"none", "on"}
        OBVIOUS
      <4>. QED
        BY <4>1, <4>2 DEF StillHolding
    <3>2. sound' \in SoundState
      BY <1>1, <3>1 DEF SoundState
    <3>3. sound'.gain # "muted" /\ ~sound'.holding /\ sound'.track = sound.track
      BY <1>1, <3>1 DEF SoundState
    <3>. QED
      BY <3>2, <3>3
  <2>6. CASE UNCHANGED sound
    BY <1>1, <1>2, <2>6 DEF MutedOnlyWhileUserSpeaks
  <2>. QED
    BY <2>1, <2>2, <2>3, <2>4, <2>5, <2>6 DEF Audio, VoiceAgentFallsSilent
<1>6. LiveTypeOK'
  BY <1>1, <1>2, <1>3, <1>4, <1>5 DEF LiveTypeOK, SessionState, HookState, SoundState
<1>7. HeldIsOpen' /\ MutedOnlyWhileUserSpeaks'
  BY <1>2, <1>3, <1>4, <1>5 DEF HeldIsOpen, MutedOnlyWhileUserSpeaks
<1>8. MediaIsHeld'
  BY <1>2, <1>3, <1>4, <1>5 DEF MediaIsHeld
<1>. QED
  BY <1>3, <1>4, <1>6, <1>7, <1>8 DEF LiveInv, RoomIsHeld, StageOfRoom, Current

-----------------------------------------------------------------------------
LEMMA LiveInductive == LiveInv /\ [LiveNext]_liveVars => LiveInv'
<1>. SUFFICES ASSUME LiveInv, [LiveNext]_liveVars PROVE LiveInv'
  OBVIOUS
<1>1. CASE UNCHANGED liveVars
  BY <1>1 DEF liveVars, LiveInv, LiveTypeOK, HeldIsOpen, MediaIsHeld, MutedOnlyWhileUserSpeaks,
     RoomIsHeld, StageOfRoom, Current
<1>2. CASE LiveNext
  <2>1. ASSUME NEW i \in Ids, RoomEvent(i) \/ HookHeartbeatRunsOut(i)
        PROVE  \/ RoomChanges(i) \/ HookRoomDropped(i) \/ AgentFailed(i)
               \/ HookHeartbeatRunsOut(i) /\ sessions[i].room = "live"
    BY <2>1 DEF RoomEvent, RoomChanges
  <2>. QED
    BY <1>2, <2>1, ConnectSteps, ContinueSteps, LeavingSteps, RoomSteps, AudioSteps DEF LiveNext
<1>. QED
  BY <1>1, <1>2

LEMMA LiveGives == LiveInv => HookIsInHand
<1>1. LiveInv => OneRoomIsHeld
  BY DEF LiveInv, RoomIsHeld, MediaIsHeld, OpenRoom, OneRoomIsHeld
<1>. QED
  BY <1>1 DEF LiveInv, HookIsInHand

-----------------------------------------------------------------------------
(***************************************************************************)
(* The cards.  Where a card shows what is no longer so, a change is being  *)
(* answered or a read is on its way, unless one failed or was overtaken.   *)
(***************************************************************************)
CardState == [kind : {"google", "3cx"}, state : {"absent", "shown"}, up : BOOLEAN,
              failed : BOOLEAN, reads : [Reads -> {"idle", "asked", "up", "down"}],
              popup : {"none", "open", "closed"},
              doing : {"nothing", "saving", "saved", "leaving", "left"}, secret : BOOLEAN]
CentreState == [state : {"hidden", "polling", "gone"}, shown : Answer, failed : BOOLEAN,
                reads : [Reads -> Read], timers : SUBSET Reads]

NewsAreUnderWay ==
    card.state = "shown" /\ ~card.failed /\ ~late =>
        \/ card.up = linked.up
        \/ card.doing \in {"saved", "left"}
        \/ \E r \in Reads : ~Idle(r)

LeftIsDown ==
    card.kind = "3cx" => card.popup = "none" /\ (card.doing = "left" => ~linked.up)

CardsInv == CardsTypeOK /\ NewsAreUnderWay /\ LeftIsDown

LEMMA CardsParts ==
    ASSUME CardsTypeOK
    PROVE  card \in CardState /\ centre \in CentreState
BY DEF CardsTypeOK, CardState, CentreState

LEMMA CardsInitial == CardsInit => CardsInv
<1>. SUFFICES ASSUME CardsInit PROVE CardsInv
  OBVIOUS
<1>1. booking \in [made : 0..MaxRequests, open : BOOLEAN]
  BY CardsAssumption DEF CardsInit
<1>2. centre \in CentreState
  BY DEF CardsInit, CentreState, Answer, Read
<1>3. linked \in [up : BOOLEAN, changes : 0..MaxChanges]
  BY CardsAssumption DEF CardsInit
<1>4. /\ card \in CardState /\ card.state = "absent" /\ card.popup = "none"
      /\ card.doing = "nothing"
  BY DEF CardsInit, CardState
<1>5. late \in BOOLEAN
  BY DEF CardsInit
<1>6. CardsTypeOK
  BY <1>1, <1>2, <1>3, <1>4, <1>5 DEF CardsTypeOK, CardState, CentreState
<1>. QED
  BY <1>4, <1>6 DEF CardsInv, NewsAreUnderWay, LeftIsDown

-----------------------------------------------------------------------------
(***************************************************************************)
(* The notices leave the card alone.                                       *)
(***************************************************************************)
LEMMA NoticeSteps == CardsInv /\ NoticesNext => CardsInv'
<1>. SUFFICES ASSUME CardsInv, NoticesNext PROVE CardsInv'
  OBVIOUS
<1>1. UNCHANGED <<linked, card, late>>
  BY DEF NoticesNext, BookingSettles, LeavePage, Enable, BookingCreated, NoticesRead,
         NoticesAnswered, NoticesFail, PollAgain
<1>2. /\ centre \in CentreState /\ booking \in [made : 0..MaxRequests, open : BOOLEAN]
      /\ Bookings \in Answer
  BY CardsParts DEF CardsInv, CardsTypeOK, Bookings, Answer
<1>3. /\ booking' \in [made : 0..MaxRequests, open : BOOLEAN]
  <2>1. \/ UNCHANGED booking
        \/ booking' = [booking EXCEPT !.open = FALSE]
        \/ /\ booking.made < MaxRequests
           /\ booking' = [made |-> booking.made + 1, open |-> TRUE]
    BY DEF NoticesNext, BookingSettles, LeavePage, Enable, BookingCreated, NoticesRead,
           NoticesAnswered, NoticesFail, PollAgain
  <2>2. CASE UNCHANGED booking
    BY <1>2, <2>2
  <2>3. CASE booking' = [booking EXCEPT !.open = FALSE]
    BY <1>2, <2>3
  <2>4. CASE /\ booking.made < MaxRequests
             /\ booking' = [made |-> booking.made + 1, open |-> TRUE]
    BY <1>2, <2>4, CardsAssumption
  <2>. QED
    BY <2>1, <2>2, <2>3, <2>4
<1>4. centre' \in CentreState
  <2>1. ASSUME NEW r \in Reads, NEW to \in Read
        PROVE  [centre EXCEPT !.reads[r] = to] \in CentreState
    BY <1>2, <2>1 DEF CentreState
  <2>2. {"idle", "asked"} \cup Answer = Read
    BY DEF Read
  <2>3. ASSUME NEW r \in Reads,
               Enable(r) \/ BookingCreated(r) \/ NoticesRead(r)
        PROVE  centre' \in CentreState
    <3>1. CASE Enable(r)
      <4>1. [centre EXCEPT !.state = "polling", !.reads[r] = "asked"] \in CentreState
        BY <1>2, <2>2 DEF CentreState
      <4>. QED
        BY <3>1, <4>1 DEF Enable
    <3>2. CASE BookingCreated(r) \/ NoticesRead(r)
      BY <1>2, <2>1, <2>2, <3>2 DEF BookingCreated, NoticesRead
    <3>. QED
      BY <2>3, <3>1, <3>2
  <2>4. ASSUME NEW r \in Reads, NoticesAnswered(r) PROVE centre' \in CentreState
    <3>1. ASSUME NEW shown \in Answer, NEW timers \in SUBSET Reads
          PROVE  [centre EXCEPT !.reads[r] = "idle", !.shown = shown, !.timers = timers]
                    \in CentreState
      BY <1>2, <2>2, <3>1 DEF CentreState
    <3>2. /\ centre.shown \in Answer /\ centre.timers \in SUBSET Reads
          /\ centre.timers \cup {r} \in SUBSET Reads /\ centre.reads[r] \in Answer
      BY <1>2, <2>4 DEF CentreState, NoticesAnswered
    <3>3. \E shown \in Answer, timers \in SUBSET Reads :
             centre' = [centre EXCEPT !.reads[r] = "idle", !.shown = shown, !.timers = timers]
      BY <2>4, <3>2 DEF NoticesAnswered
    <3>. QED
      BY <3>1, <3>3
  <2>5. ASSUME NEW r \in Reads, NoticesFail(r) PROVE centre' \in CentreState
    BY <1>2, <2>2, <2>5 DEF NoticesFail, CentreState
  <2>6. ASSUME NEW r \in Reads, PollAgain(r) PROVE centre' \in CentreState
    <3>1. [centre EXCEPT !.timers = centre.timers \ {r}, !.reads[r] = "asked"] \in CentreState
      BY <1>2, <2>2 DEF CentreState
    <3>. QED
      BY <2>6, <3>1 DEF PollAgain
  <2>7. CASE LeavePage
    <3>1. PICK left \in SUBSET centre.timers :
             centre' = [centre EXCEPT !.state = "gone", !.timers = left]
      BY <2>7 DEF LeavePage
    <3>2. left \in SUBSET Reads
      BY <1>2 DEF CentreState
    <3>. QED
      BY <1>2, <3>1, <3>2 DEF CentreState
  <2>. QED
    BY <1>2, <2>3, <2>4, <2>5, <2>6, <2>7 DEF NoticesNext, BookingSettles
<1>. QED
  BY <1>1, <1>3, <1>4
     DEF CardsInv, CardsTypeOK, CardState, CentreState, NewsAreUnderWay, LeftIsDown, Idle

-----------------------------------------------------------------------------
(***************************************************************************)
(* The card.                                                               *)
(***************************************************************************)
LEMMA CardTypes == CardsInv /\ CardNext => CardsTypeOK'
<1>. SUFFICES ASSUME CardsInv, CardNext PROVE CardsTypeOK'
  OBVIOUS
<1>1. card \in CardState /\ linked \in [up : BOOLEAN, changes : 0..MaxChanges] /\ late \in BOOLEAN
  BY CardsParts DEF CardsInv, CardsTypeOK
<1>2. UNCHANGED <<booking, centre>>
  BY DEF CardNext, CardShown, Popup, PopupClosed, TypeSecret, Takes, Disconnected, ChangeFails,
         AskChange, Consent, PopupNoticed, CardRead, CardAnswered, CardReadFails, Answered
<1>3. late' \in BOOLEAN
  <2>1. \A r \in Reads : (late \/ (card.reads[r] = "up") # linked.up) \in BOOLEAN
    OBVIOUS
  <2>2. \A r \in Reads : CardAnswered(r) => late' \in BOOLEAN
    BY <2>1 DEF CardAnswered
  <2>3. UNCHANGED late \/ \E r \in Reads : CardAnswered(r)
    BY DEF CardNext, CardShown, Popup, PopupClosed, TypeSecret, Takes, Disconnected,
           ChangeFails, AskChange, Consent, PopupNoticed, CardRead, CardReadFails, Answered
  <2>. QED
    BY <1>1, <2>2, <2>3
<1>4. linked' \in [up : BOOLEAN, changes : 0..MaxChanges]
  <2>1. ASSUME NEW up \in BOOLEAN, CanChange, Change(up)
        PROVE  linked' \in [up : BOOLEAN, changes : 0..MaxChanges]
    BY <1>1, <2>1, CardsAssumption DEF CanChange, Change
  <2>2. (card.doing = "saving") \in BOOLEAN /\ TRUE \in BOOLEAN
    OBVIOUS
  <2>3. UNCHANGED linked \/ \E up \in BOOLEAN : CanChange /\ Change(up)
    BY <2>2 DEF CardNext, CardShown, Popup, PopupClosed, TypeSecret, Takes, Disconnected,
           ChangeFails, AskChange, Consent, PopupNoticed, CardRead, CardAnswered, CardReadFails,
           Answered
  <2>. QED
    BY <1>1, <2>1, <2>3
<1>5. card' \in CardState
  <2>1. CASE CardShown
    BY <1>1, <2>1 DEF CardShown, CardState
  <2>a. CASE Popup
    BY <1>1, <2>a DEF Popup, CardState
  <2>b. CASE PopupClosed
    BY <1>1, <2>b DEF PopupClosed, CardState
  <2>c. CASE TypeSecret
    BY <1>1, <2>c DEF TypeSecret, CardState
  <2>2. CASE Popup \/ PopupClosed \/ TypeSecret
    BY <2>2, <2>a, <2>b, <2>c
  <2>3. CASE Takes \/ Disconnected \/ \E what \in {"saving", "leaving"} : AskChange(what)
    BY <1>1, <2>3 DEF Takes, Disconnected, AskChange, CardState
  <2>4. CASE ChangeFails
    <3>1. (card.secret /\ card.doing \in {"leaving", "left"}) \in BOOLEAN
      OBVIOUS
    <3>2. \A s \in BOOLEAN : [card EXCEPT !.doing = "nothing", !.failed = TRUE, !.secret = s]
                                \in CardState
      BY <1>1 DEF CardState
    <3>. QED
      BY <2>4, <3>1, <3>2 DEF ChangeFails
  <2>5. ASSUME NEW r \in Reads, Consent(r) \/ PopupNoticed(r)
        PROVE  card' \in CardState
    <3>1. \A popup \in {"none", "closed"} :
             [card EXCEPT !.popup = popup, !.reads[r] = "asked"] \in CardState
      BY <1>1 DEF CardState
    <3>. QED
      BY <2>5, <3>1 DEF Consent, PopupNoticed
  <2>6. ASSUME NEW r \in Reads, CardRead(r) PROVE card' \in CardState
    <3>1. \A got \in {"up", "down"} : [card EXCEPT !.reads[r] = got] \in CardState
      BY <1>1 DEF CardState
    <3>. QED
      BY <2>6, <3>1 DEF CardRead
  <2>7. ASSUME NEW r \in Reads, CardAnswered(r) PROVE card' \in CardState
    <3>1. \A up \in BOOLEAN :
             [card EXCEPT !.reads[r] = "idle", !.up = up, !.secret = FALSE] \in CardState
      BY <1>1 DEF CardState
    <3>2. (card.reads[r] = "up") \in BOOLEAN
      OBVIOUS
    <3>. QED
      BY <2>7, <3>1, <3>2 DEF CardAnswered
  <2>8. ASSUME NEW r \in Reads, CardReadFails(r) PROVE card' \in CardState
    <3>1. \A up \in BOOLEAN :
             [card EXCEPT !.reads[r] = "idle", !.up = up, !.failed = TRUE] \in CardState
      BY <1>1 DEF CardState
    <3>2. (card.up /\ card.kind = "3cx") \in BOOLEAN
      OBVIOUS
    <3>. QED
      BY <2>8, <3>1, <3>2 DEF CardReadFails
  <2>9. ASSUME NEW r \in Reads, Answered(r) PROVE card' \in CardState
    <3>1. [card EXCEPT !.doing = "nothing", !.reads[r] = "asked", !.secret = FALSE] \in CardState
      BY <1>1 DEF CardState
    <3>. QED
      BY <2>9, <3>1 DEF Answered
  <2>. QED
    BY <2>1, <2>2, <2>3, <2>4, <2>5, <2>6, <2>7, <2>8, <2>9 DEF CardNext
<1>. QED
  BY <1>2, <1>3, <1>4, <1>5 DEF CardsInv, CardsTypeOK, CardState, CentreState

LEMMA CardSteps == CardsInv /\ CardNext => CardsInv'
<1>. SUFFICES ASSUME CardsInv, CardNext PROVE CardsInv'
  OBVIOUS
<1>1. card \in CardState /\ linked \in [up : BOOLEAN, changes : 0..MaxChanges] /\ late \in BOOLEAN
  BY CardsParts DEF CardsInv, CardsTypeOK
<1>2. CardsTypeOK'
  BY CardTypes
<1>3. LeftIsDown'
  <2>1. CASE Takes
    BY <1>1, <2>1 DEF Takes, Change, CardsInv, LeftIsDown, CardState
  <2>2. CASE Popup \/ PopupClosed \/ \E r \in Reads : Consent(r) \/ PopupNoticed(r)
    BY <1>1, <2>2 DEF Popup, PopupClosed, Consent, PopupNoticed, CardsInv, LeftIsDown, CardState

  <2>4. CASE CardShown \/ TypeSecret \/ Disconnected \/ ChangeFails
    <3>1. /\ card'.kind = card.kind /\ card'.popup = card.popup
          /\ card'.doing \in {card.doing, "nothing"} /\ UNCHANGED linked
      BY <1>1, <2>4 DEF CardShown, TypeSecret, Disconnected, ChangeFails, CardState
    <3>. QED
      BY <3>1 DEF CardsInv, LeftIsDown
  <2>5. ASSUME NEW what \in {"saving", "leaving"}, AskChange(what) PROVE LeftIsDown'
    BY <1>1, <2>5 DEF AskChange, CardsInv, LeftIsDown, CardState
  <2>6. ASSUME NEW r \in Reads, \/ CardRead(r) \/ CardAnswered(r) \/ CardReadFails(r)
                                \/ Answered(r)
        PROVE  LeftIsDown'
    <3>1. /\ card'.kind = card.kind /\ card'.popup = card.popup
          /\ card'.doing \in {card.doing, "nothing"} /\ UNCHANGED linked
      BY <1>1, <2>6 DEF CardRead, CardAnswered, CardReadFails, Answered, CardState
    <3>. QED
      BY <3>1 DEF CardsInv, LeftIsDown
  <2>. QED
    BY <2>1, <2>2, <2>4, <2>5, <2>6 DEF CardNext
<1>4. NewsAreUnderWay'
  <2>1. CASE CardShown
    <3>1. card'.up = linked'.up
      BY <1>1, <2>1 DEF CardShown, CardState
    <3>. QED
      BY <3>1 DEF NewsAreUnderWay
  <2>2. CASE Takes
    <3>1. card'.doing \in {"saved", "left"}
      BY <1>1, <2>2 DEF Takes, CardState
    <3>. QED
      BY <3>1 DEF NewsAreUnderWay
  <2>3. CASE Disconnected
    <3>1. card'.up = FALSE /\ linked'.up = FALSE
      BY <1>1, <2>3 DEF Disconnected, CardsInv, LeftIsDown, CardState
    <3>. QED
      BY <3>1 DEF NewsAreUnderWay
  <2>4. CASE ChangeFails \/ \E r \in Reads : CardReadFails(r)
    <3>1. card'.failed = TRUE
      BY <1>1, <2>4 DEF ChangeFails, CardReadFails, CardState
    <3>. QED
      BY <3>1 DEF NewsAreUnderWay
  <2>5. ASSUME NEW r \in Reads, Consent(r) \/ PopupNoticed(r) \/ Answered(r) \/ CardRead(r)
        PROVE  NewsAreUnderWay'
    <3>1. card'.reads[r] # "idle"
      <4>1. CASE Consent(r)
        BY <1>1, <4>1 DEF Consent, CardState
      <4>2. CASE PopupNoticed(r)
        BY <1>1, <4>2 DEF PopupNoticed, CardState
      <4>3. CASE Answered(r)
        BY <1>1, <4>3 DEF Answered, CardState
      <4>4. CASE CardRead(r)
        <5>1. PICK got \in {"up", "down"} : card' = [card EXCEPT !.reads[r] = got]
          BY <4>4 DEF CardRead
        <5>. QED
          BY <1>1, <5>1 DEF CardState
      <4>. QED
        BY <2>5, <4>1, <4>2, <4>3, <4>4
    <3>. QED
      BY <3>1 DEF NewsAreUnderWay, Idle
  <2>6. ASSUME NEW r \in Reads, CardAnswered(r) PROVE NewsAreUnderWay'
    <3>1. /\ card'.up = (card.reads[r] = "up") /\ UNCHANGED linked
          /\ ((card.reads[r] = "up") # linked.up => late')
      BY <1>1, <2>6 DEF CardAnswered, CardState
    <3>2. ~late' => card'.up = linked'.up
      BY <3>1
    <3>. QED
      BY <3>2 DEF NewsAreUnderWay
  <2>7. CASE Popup \/ PopupClosed \/ TypeSecret
             \/ \E what \in {"saving", "leaving"} : AskChange(what)
    <3>1. /\ card'.state = card.state /\ card'.failed = card.failed /\ card'.up = card.up
          /\ card'.reads = card.reads /\ UNCHANGED <<linked, late>>
          /\ card.doing \in {"saved", "left"} => card'.doing = card.doing
      BY <1>1, <2>7 DEF Popup, PopupClosed, TypeSecret, AskChange, CardState
    <3>. QED
      BY <3>1 DEF CardsInv, NewsAreUnderWay, Idle
  <2>. QED
    BY <2>1, <2>2, <2>3, <2>4, <2>5, <2>6, <2>7 DEF CardNext
<1>. QED
  BY <1>2, <1>3, <1>4 DEF CardsInv

LEMMA CardsInductive == CardsInv /\ [NoticesNext \/ CardNext]_cardVars => CardsInv'
<1>1. CardsInv /\ UNCHANGED cardVars => CardsInv'
  BY DEF cardVars, CardsInv, CardsTypeOK, NewsAreUnderWay, LeftIsDown, Idle
<1>. QED
  BY <1>1, NoticeSteps, CardSteps

LEMMA CardsGive == CardsInv => CardIsTrue
BY DEF CardsInv, NewsAreUnderWay, CardIsTrue

-----------------------------------------------------------------------------
(***************************************************************************)
(* The parts share no variable: a step of one leaves the others as they    *)
(* are, and what is inductive for each is inductive for all.               *)
(***************************************************************************)
ServicesInv == ReadsInv /\ AgentInv /\ SandboxInv /\ LiveInv /\ CardsInv

LEMMA ServicesInitial == ServicesInit => ServicesInv
BY ReadsInitial, AgentInitial, SandboxInitial, LiveInitial, CardsInitial
   DEF ServicesInit, ServicesInv

LEMMA StepsAreOfParts ==
    ASSUME [ServicesNext]_servicesVars
    PROVE  /\ [ReadsNext]_readVars /\ [AgentNext]_agentVars /\ [SandboxNext]_sandboxVars
           /\ [LiveNext]_liveVars /\ [NoticesNext \/ CardNext]_cardVars
BY DEF ServicesNext, ServerNext, PageNext, servicesVars, serverVars, pageVars

LEMMA ServicesInvariant == ServicesSpec => []ServicesInv
<1>1. ServicesInv /\ [ServicesNext]_servicesVars => ServicesInv'
  BY StepsAreOfParts, ReadsInductive, AgentInductive, SandboxInductive, LiveInductive,
     CardsInductive DEF ServicesInv
<1>. QED
  BY ServicesInitial, <1>1, PTL DEF ServicesSpec

(***************************************************************************)
(* Every state of the services and pages is well typed: also, no queue of  *)
(* the agent's tasks is longer than its incidents and its end allow.       *)
(***************************************************************************)
THEOREM ServicesTypes == ServicesSpec => []ServicesTypeOK
<1>1. ServicesInv => ServicesTypeOK
  BY DEF ServicesInv, ReadsInv, AgentInv, SandboxInv, LiveInv, CardsInv, ServicesTypeOK
<1>. QED
  BY <1>1, ServicesInvariant, PTL

(***************************************************************************)
(* A caller who was told of a booking or a cancellation is not             *)
(* contradicted by what the broker keeps, for any number of questions and  *)
(* of writers at once and of answers that Google's writes lost, but where  *)
(* the write crossed the read, its mark failed or its answer was lost      *)
(* after the read (calendar_read_cache.py, google_calendar.py).            *)
(***************************************************************************)
THEOREM ToldWritesAreSeen == ServicesSpec => []WritesAreSeen
<1>1. ServicesInv => WritesAreSeen
  BY ReadsGive DEF ServicesInv
<1>. QED
  BY <1>1, ServicesInvariant, PTL

(***************************************************************************)
(* A voice agent that is over has told the clients so and has ended all it *)
(* began, whatever incidents it met, however many (agent.py).              *)
(***************************************************************************)
THEOREM EndedAgentsAreQuiet == ServicesSpec => []EndedAgentIsQuiet
<1>1. ServicesInv => EndedAgentIsQuiet
  BY AgentGives DEF ServicesInv
<1>. QED
  BY <1>1, ServicesInvariant, PTL

(***************************************************************************)
(* One voice session per browser, for any number of tabs and mounts: only  *)
(* a page left before its room existed goes live beside another            *)
(* (TestingSandboxPage.tsx).                                               *)
(***************************************************************************)
THEOREM OneVoice == ServicesSpec => []OneLiveVoice
<1>1. ServicesInv => OneLiveVoice
  BY SandboxGives DEF ServicesInv
<1>. QED
  BY <1>1, ServicesInvariant, PTL

(***************************************************************************)
(* The page's room, microphone, timer, audio and lock agree with the state *)
(* it shows, whatever its room, its buttons and its awaits do              *)
(* (TestingSandboxPage.tsx).                                               *)
(***************************************************************************)
THEOREM SandboxIsTrue == ServicesSpec => []SandboxHoldsWhatItShows
<1>1. ServicesInv => SandboxHoldsWhatItShows
  BY SandboxGives DEF ServicesInv
<1>. QED
  BY <1>1, ServicesInvariant, PTL

(***************************************************************************)
(* The hook holds the one room that is not closed, for any number of calls *)
(* of connect, and an integration's card at rest shows the integration,    *)
(* for any number of reads in flight (useLiveKitSession.ts, App.tsx).      *)
(***************************************************************************)
THEOREM TrueScreens == ServicesSpec => []ScreensAreTrue
<1>1. ServicesInv => ScreensAreTrue
  BY LiveGives, CardsGive DEF ServicesInv, ScreensAreTrue
<1>. QED
  BY <1>1, ServicesInvariant, PTL
================================================================================
