----------------------------- MODULE ClientProofs -----------------------------
(***************************************************************************)
(* The apps in front of the backend and what it keeps for them: for each   *)
(* part an inductive invariant, and together the invariants of MCClients   *)
(* and its action property, for every value of its constants.              *)
(***************************************************************************)
EXTENDS MCClients, TLAPS

-----------------------------------------------------------------------------
(***************************************************************************)
(* The web workspace.                                                      *)
(***************************************************************************)

(***************************************************************************)
(* As long as no form was saved blindly, whatever copy of a stored text    *)
(* the app has (the cache, the request, the form that was filled, the save *)
(* on its way) has the rest that is stored.                                *)
(***************************************************************************)
StoredState == [profile : Text, draft : Text, versions : Nat, published : Nat]
CacheState == [text : Text \cup {NoText}, young : BOOLEAN]
RequestState == [at : {"none", "asked", "read"}, text : Text]
FormState == [text : Text, load : {"none", "waits", "asked"}, seen : BOOLEAN]
SaveState == [at : {"none", "validating", "asked", "stored"}, text : Text, from : Shown,
              deploy : BOOLEAN, test : BOOLEAN]

WorkShape ==
    /\ page \in Shown \cup {"landing"} /\ boot \in {"session", "profile", "done"}
    /\ blind \in BOOLEAN
    /\ stored \in StoredState /\ stored.versions <= MaxVersions
    /\ stored.published <= stored.versions
    /\ cache \in CacheState /\ ask \in RequestState /\ form \in FormState /\ save \in SaveState

FormOfItsPage ==
    /\ form.load = "waits" => page \in CompanyPages
    /\ form.load = "asked" => page \in AssistantPages
    /\ form.load # "none" => ~form.seen
    /\ ~form.seen => form.text.rest = ""
    /\ boot # "done" => form = NoForm /\ save.at = "none"
    /\ boot = "profile" => page = "onboarding"

CopiesAreStored ==
    /\ cache.text # NoText => cache.text.rest = stored.profile.rest
    /\ ask.at = "read" => ask.text.rest = stored.profile.rest
    /\ page \in CompanyPages /\ form.seen => form.text.rest = stored.profile.rest
    /\ page \in AssistantPages /\ form.seen => form.text.rest = stored.draft.rest
    /\ save.at # "none" /\ save.from \in CompanyPages => save.text.rest = stored.profile.rest
    /\ save.at # "none" /\ save.from \in AssistantPages => save.text.rest = stored.draft.rest

WorkInv == WorkShape /\ FormOfItsPage /\ (~blind => CopiesAreStored)

-----------------------------------------------------------------------------
LEMMA PagesAreShown ==
    /\ CompanyPages \subseteq Shown /\ AssistantPages \subseteq Shown
    /\ \A p \in CompanyPages : p \notin AssistantPages
    /\ {"dashboard", "testing-sandbox"} \subseteq Shown
    /\ {"dashboard", "testing-sandbox", "landing"} \cap (CompanyPages \cup AssistantPages) = {}
    /\ "onboarding" \in CompanyPages /\ "onboarding-ai" \in AssistantPages
    /\ "assistant-config" \in AssistantPages
BY DEF CompanyPages, AssistantPages, Shown

LEMMA Blanks ==
    /\ Blank \in Text /\ Blank.rest = "" /\ Older \in Text
    /\ NoForm \in FormState /\ NoForm.load = "none" /\ ~NoForm.seen /\ NoForm.text.rest = ""
    /\ NoSave \in SaveState /\ NoSave.at = "none"
<1>1. Blank \in Text /\ Blank.rest = "" /\ Older \in Text
  BY DEF Blank, Older, Text
<1>2. NoForm \in FormState /\ NoForm.load = "none" /\ ~NoForm.seen /\ NoForm.text = Blank
  BY <1>1 DEF NoForm, FormState
<1>3. NoSave \in SaveState /\ NoSave.at = "none"
  BY <1>1, PagesAreShown DEF NoSave, SaveState
<1>. QED
  BY <1>1, <1>2, <1>3

LEMMA Waiting ==
    /\ [NoForm EXCEPT !.load = "waits"] \in FormState
    /\ [NoForm EXCEPT !.load = "waits"].load = "waits"
    /\ ~[NoForm EXCEPT !.load = "waits"].seen
    /\ [NoForm EXCEPT !.load = "waits"].text.rest = ""
    /\ [NoForm EXCEPT !.load = "asked"] \in FormState
    /\ [NoForm EXCEPT !.load = "asked"].load = "asked"
    /\ ~[NoForm EXCEPT !.load = "asked"].seen
    /\ [NoForm EXCEPT !.load = "asked"].text.rest = ""
BY Blanks DEF FormState

(***************************************************************************)
(* A page opens with an empty form, or with the text of a young cache.     *)
(***************************************************************************)
LEMMA OpenedForm ==
    ASSUME WorkShape, NEW p \in Shown
    PROVE  /\ Opened(p) \in FormState
           /\ Opened(p).load = "waits" => p \in CompanyPages
           /\ Opened(p).load = "asked" => p \in AssistantPages
           /\ Opened(p).load # "none" => ~Opened(p).seen
           /\ ~Opened(p).seen => Opened(p).text.rest = ""
           /\ Opened(p).seen => /\ p \in CompanyPages /\ cache.text # NoText
                                /\ Opened(p).text.rest = cache.text.rest
<1>1. CASE p \in CompanyPages /\ Cached
  <2>. DEFINE full == [NoForm EXCEPT !.text = cache.text, !.seen = TRUE]
  <2>1. cache.text \in Text /\ cache.text # NoText
    BY <1>1 DEF WorkShape, CacheState, Cached
  <2>2. full \in FormState /\ full.text = cache.text /\ full.load = "none"
    BY <2>1, Blanks DEF FormState
  <2>3. full.seen = TRUE
    BY Blanks DEF FormState
  <2>4. Opened(p) = full
    BY <1>1 DEF Opened
  <2>. HIDE DEF full
  <2>. QED
    BY <1>1, <2>1, <2>2, <2>3, <2>4
<1>2. CASE p \in CompanyPages /\ ~Cached
  BY <1>2, Waiting DEF Opened
<1>3. CASE p \in AssistantPages
  <2>1. p \notin CompanyPages
    BY <1>3, PagesAreShown
  <2>. QED
    BY <1>3, <2>1, Waiting DEF Opened
<1>4. CASE p \notin CompanyPages /\ p \notin AssistantPages
  BY <1>4, Blanks DEF Opened
<1>. QED
  BY <1>1, <1>2, <1>3, <1>4

LEMMA AskingKeeps ==
    ASSUME WorkShape
    PROVE  /\ Asking \in RequestState
           /\ Asking.at = "read" => ask.at = "read" /\ Asking = ask
BY Blanks DEF WorkShape, Asking, RequestState

\* A step that shows another page after a save, or none.
LEMMA ShowKeeps ==
    ASSUME WorkInv, NEW p \in Shown, Show(p), UNCHANGED <<boot, stored, blind>>,
           save' \in {save, NoSave}, cache' = cache, boot = "done"
    PROVE  WorkInv'
<1>. DEFINE opened == Opened(p)
<1>1. /\ page' = p /\ form' = opened
      /\ ask' \in {ask, Asking}
  BY DEF Show
<1>2. /\ opened \in FormState
      /\ opened.load = "waits" => p \in CompanyPages
      /\ opened.load = "asked" => p \in AssistantPages
      /\ opened.load # "none" => ~opened.seen
      /\ ~opened.seen => opened.text.rest = ""
      /\ opened.seen => /\ p \in CompanyPages /\ cache.text # NoText
                        /\ opened.text.rest = cache.text.rest
  BY OpenedForm DEF WorkInv
<1>. HIDE DEF opened
<1>3. ask' \in RequestState /\ (ask'.at = "read" => ask.at = "read" /\ ask' = ask)
  BY <1>1, AskingKeeps DEF WorkInv, WorkShape
<1>4. save' \in SaveState /\ (save'.at # "none" => save' = save)
  BY Blanks DEF WorkInv, WorkShape
<1>5. WorkShape'
  BY <1>1, <1>2, <1>3, <1>4 DEF WorkInv, WorkShape
<1>6. FormOfItsPage'
  BY <1>1, <1>2 DEF FormOfItsPage
<1>7. ASSUME CopiesAreStored PROVE CopiesAreStored'
  <2>1. p \in AssistantPages => ~opened.seen
    BY <1>2, PagesAreShown
  <2>. QED
    BY <1>1, <1>2, <1>3, <1>4, <1>7, <2>1 DEF CopiesAreStored
<1>. QED
  BY <1>5, <1>6, <1>7 DEF WorkInv

-----------------------------------------------------------------------------
LEMMA WorkInitial == WorkInit => WorkInv
<1>. SUFFICES ASSUME WorkInit PROVE WorkInv
  OBVIOUS
<1>1. /\ page = "landing" /\ boot = "session" /\ blind = FALSE
      /\ form = NoForm /\ save = NoSave
      /\ cache = [text |-> NoText, young |-> FALSE]
      /\ ask = [at |-> "none", text |-> Blank]
  BY DEF WorkInit
<1>2. PICK known \in {Blank, Older} :
         stored = [profile |-> known, draft |-> known, versions |-> 0, published |-> 0]
  BY DEF WorkInit
<1>3. known \in Text
  BY Blanks
<1>4. stored \in StoredState /\ stored.versions = 0 /\ stored.published = 0
  BY <1>2, <1>3 DEF StoredState
<1>5. cache \in CacheState /\ ask \in RequestState /\ ask.at = "none" /\ cache.text = NoText
  BY <1>1, Blanks DEF CacheState, RequestState
<1>6. WorkShape
  <2>1. stored.versions <= MaxVersions /\ stored.published <= stored.versions
    BY <1>4, WorkspaceAssumption
  <2>. QED
    BY <1>1, <1>4, <1>5, <2>1, Blanks DEF WorkShape
<1>7. FormOfItsPage
  BY <1>1, Blanks DEF FormOfItsPage
<1>8. CopiesAreStored
  BY <1>1, <1>5, Blanks, PagesAreShown DEF CopiesAreStored
<1>. QED
  BY <1>6, <1>7, <1>8 DEF WorkInv

LEMMA SessionAnsweredKeeps == WorkInv /\ SessionAnswered => WorkInv'
<1>. SUFFICES ASSUME WorkInv, SessionAnswered PROVE WorkInv'
  OBVIOUS
<1>1. /\ UNCHANGED <<stored, cache, form, save, blind>> /\ boot = "session"
      /\ boot' \in {"done", "profile"} /\ (boot' = "profile" => page' = "onboarding")
      /\ page' \in {page, "onboarding"} /\ ask' \in {ask, Asking}
  BY DEF SessionAnswered
<1>2. form = NoForm /\ save.at = "none"
  BY <1>1 DEF WorkInv, FormOfItsPage
<1>3. ask' \in RequestState /\ (ask'.at = "read" => ask.at = "read" /\ ask' = ask)
  BY <1>1, AskingKeeps DEF WorkInv, WorkShape
<1>4. WorkShape'
  BY <1>1, <1>3, PagesAreShown DEF WorkInv, WorkShape
<1>5. FormOfItsPage'
  BY <1>1, <1>2, Blanks DEF FormOfItsPage
<1>6. ASSUME CopiesAreStored PROVE CopiesAreStored'
  BY <1>1, <1>2, <1>3, <1>6, Blanks DEF CopiesAreStored
<1>. QED
  BY <1>1, <1>4, <1>5, <1>6 DEF WorkInv

LEMMA ReadProfileKeeps == WorkInv /\ ReadProfile => WorkInv'
<1>. SUFFICES ASSUME WorkInv, ReadProfile PROVE WorkInv'
  OBVIOUS
<1>1. /\ ask' = [at |-> "read", text |-> stored.profile]
      /\ UNCHANGED <<page, boot, stored, cache, form, save, blind>>
  BY DEF ReadProfile
<1>2. ask' \in RequestState /\ ask'.text = stored.profile
  BY <1>1 DEF WorkInv, WorkShape, StoredState, RequestState
<1>. QED
  BY <1>1, <1>2 DEF WorkInv, WorkShape, FormOfItsPage, CopiesAreStored

LEMMA CacheAgesKeeps == WorkInv /\ CacheAges => WorkInv'
<1>. SUFFICES ASSUME WorkInv, CacheAges PROVE WorkInv'
  OBVIOUS
<1>1. /\ cache' = [cache EXCEPT !.young = FALSE]
      /\ UNCHANGED <<page, boot, stored, ask, form, save, blind>>
  BY DEF CacheAges
<1>2. cache' \in CacheState /\ cache'.text = cache.text
  BY <1>1 DEF WorkInv, WorkShape, CacheState
<1>. QED
  BY <1>1, <1>2 DEF WorkInv, WorkShape, FormOfItsPage, CopiesAreStored

LEMMA DraftAnsweredKeeps == WorkInv /\ DraftAnswered => WorkInv'
<1>. SUFFICES ASSUME WorkInv, DraftAnswered PROVE WorkInv'
  OBVIOUS
<1>1. /\ form.load = "asked"
      /\ UNCHANGED <<page, boot, stored, cache, ask, save, blind>>
      /\ form' \in {[form EXCEPT !.load = "none"],
                    [form EXCEPT !.load = "none", !.seen = TRUE,
                         !.text = IF stored.draft # Blank THEN stored.draft ELSE @]}
  BY DEF DraftAnswered
<1>2. /\ form \in FormState /\ stored.draft \in Text
      /\ page \in AssistantPages /\ page \notin CompanyPages /\ ~form.seen /\ form.text.rest = ""
      /\ boot = "done"
  BY <1>1, PagesAreShown, Blanks DEF WorkInv, WorkShape, FormOfItsPage, StoredState
<1>3. form' \in FormState /\ form'.load = "none"
  BY <1>1, <1>2 DEF FormState
<1>4. \/ form'.seen = form.seen /\ form'.text = form.text
      \/ form'.seen = TRUE /\ form'.text.rest = stored.draft.rest
  <2>1. CASE form' = [form EXCEPT !.load = "none"]
    BY <1>2, <2>1 DEF FormState
  <2>2. CASE form' = [form EXCEPT !.load = "none", !.seen = TRUE,
                           !.text = IF stored.draft # Blank THEN stored.draft ELSE @]
    <3>1. form'.seen = TRUE
      BY <1>2, <2>2 DEF FormState
    <3>2. form'.text = IF stored.draft # Blank THEN stored.draft ELSE form.text
      BY <1>2, <2>2 DEF FormState
    <3>3. form'.text.rest = stored.draft.rest
      BY <1>2, <3>2, Blanks
    <3>. QED BY <3>1, <3>3
  <2>. QED BY <1>1, <2>1, <2>2
<1>5. WorkShape'
  BY <1>1, <1>3 DEF WorkInv, WorkShape
<1>6. FormOfItsPage'
  BY <1>1, <1>2, <1>3, <1>4 DEF FormOfItsPage
<1>7. ASSUME CopiesAreStored PROVE CopiesAreStored'
  BY <1>1, <1>2, <1>4, <1>7 DEF CopiesAreStored
<1>. QED
  BY <1>1, <1>5, <1>6, <1>7 DEF WorkInv

LEMMA EditKeeps == WorkInv /\ Edit => WorkInv'
<1>. SUFFICES ASSUME WorkInv, Edit PROVE WorkInv'
  OBVIOUS
<1>1. /\ form' = [form EXCEPT !.text.name = "new"] /\ boot = "done"
      /\ UNCHANGED <<page, boot, stored, cache, ask, save, blind>>
  BY DEF Edit
<1>2. form \in FormState /\ form.text \in Text
  BY DEF WorkInv, WorkShape, FormState
<1>3. form' = [form EXCEPT !.text = [form.text EXCEPT !.name = "new"]]
  BY <1>1
<1>4. [form.text EXCEPT !.name = "new"] \in Text
      /\ [form.text EXCEPT !.name = "new"].rest = form.text.rest
  BY <1>2 DEF Text
<1>5. /\ form' \in FormState /\ form'.load = form.load /\ form'.seen = form.seen
      /\ form'.text.rest = form.text.rest
  BY <1>2, <1>3, <1>4 DEF FormState
<1>. QED
  BY <1>1, <1>5 DEF WorkInv, WorkShape, FormOfItsPage, CopiesAreStored

(***************************************************************************)
(* The answer to the request for the profile: what the cache and a waiting *)
(* form take is what was read.                                             *)
(***************************************************************************)
LEMMA ProfileAnsweredKeeps == WorkInv /\ ProfileAnswered => WorkInv'
<1>. SUFFICES ASSUME WorkInv, ProfileAnswered PROVE WorkInv'
  OBVIOUS
<1>1. PICK got \in {ask.text, Blank}, emptied \in BOOLEAN :
    /\ ask.at \in {"asked", "read"} /\ (ask.at = "asked" => got = Blank)
    /\ cache' = IF got # Blank THEN [text |-> got, young |-> TRUE]
                ELSE IF emptied THEN [text |-> NoText, young |-> FALSE] ELSE cache
    /\ IF boot = "profile"
       THEN /\ boot' = "done" /\ page' = IF got # Blank /\ got.name # "" THEN "dashboard" ELSE page
            /\ form' = IF page' = "dashboard" THEN NoForm ELSE [NoForm EXCEPT !.load = "waits"]
            /\ ask' = [at |-> IF page' = "dashboard" THEN "none" ELSE "asked", text |-> Blank]
       ELSE /\ form' = IF form.load # "waits" THEN form
                       ELSE IF got # Blank THEN [form EXCEPT !.text = got, !.load = "none", !.seen = TRUE]
                       ELSE [form EXCEPT !.load = "none",
                                         !.seen = ask = [at |-> "read", text |-> Blank]]
            /\ ask' = [at |-> "none", text |-> Blank] /\ UNCHANGED <<boot, page>>
    /\ UNCHANGED <<stored, save, blind>>
  BY DEF ProfileAnswered
<1>2. got \in Text /\ (got # Blank => ask.at = "read" /\ got = ask.text)
  BY <1>1, Blanks DEF WorkInv, WorkShape, RequestState
<1>3. cache' \in CacheState
      /\ (cache'.text # NoText => (cache'.text = got /\ got # Blank) \/ cache'.text = cache.text)
  BY <1>1, <1>2 DEF WorkInv, WorkShape, CacheState
<1>4. ask' \in RequestState /\ ask'.at # "read"
  <2>1. PICK at \in {"none", "asked"} : ask' = [at |-> at, text |-> Blank]
    BY <1>1
  <2>. QED
    BY <2>1, Blanks DEF RequestState
<1>5. CASE boot = "profile"
  <2>1. /\ boot' = "done" /\ page' \in {"dashboard", "onboarding"}
        /\ form' = IF page' = "dashboard" THEN NoForm ELSE [NoForm EXCEPT !.load = "waits"]
    BY <1>1, <1>5 DEF WorkInv, FormOfItsPage
  <2>2. /\ form' \in FormState /\ ~form'.seen /\ form'.text.rest = "" /\ form'.load # "asked"
        /\ (form'.load = "waits" => page' = "onboarding")
    BY <2>1, Blanks, Waiting
  <2>3. WorkShape'
    BY <1>1, <1>3, <1>4, <2>1, <2>2, PagesAreShown DEF WorkInv, WorkShape
  <2>4. FormOfItsPage'
    BY <2>1, <2>2, PagesAreShown DEF FormOfItsPage
  <2>5. ASSUME CopiesAreStored PROVE CopiesAreStored'
    BY <1>1, <1>2, <1>3, <1>4, <2>2, <2>5 DEF CopiesAreStored
  <2>. QED
    BY <1>1, <2>3, <2>4, <2>5 DEF WorkInv
<1>6. CASE boot # "profile" /\ form.load # "waits"
  <2>1. UNCHANGED <<boot, page, form>>
    BY <1>1, <1>6
  <2>2. WorkShape' /\ FormOfItsPage'
    BY <1>1, <1>3, <1>4, <2>1 DEF WorkInv, WorkShape, FormOfItsPage
  <2>3. ASSUME CopiesAreStored PROVE CopiesAreStored'
    BY <1>1, <1>2, <1>3, <1>4, <2>1, <2>3 DEF CopiesAreStored
  <2>. QED
    BY <1>1, <2>2, <2>3 DEF WorkInv
<1>7. CASE boot # "profile" /\ form.load = "waits"
  <2>1. /\ UNCHANGED <<boot, page>>
        /\ form' = IF got # Blank THEN [form EXCEPT !.text = got, !.load = "none", !.seen = TRUE]
                   ELSE [form EXCEPT !.load = "none",
                                     !.seen = ask = [at |-> "read", text |-> Blank]]
    BY <1>1, <1>7
  <2>2. /\ form \in FormState /\ page \in CompanyPages /\ page \notin AssistantPages
        /\ ~form.seen /\ form.text.rest = "" /\ boot = "done"
    BY <1>7, Blanks, PagesAreShown DEF WorkInv, WorkShape, FormOfItsPage
  <2>3. (ask = [at |-> "read", text |-> Blank]) \in BOOLEAN
    OBVIOUS
  <2>4. \A b \in BOOLEAN : /\ [form EXCEPT !.load = "none", !.seen = b] \in FormState
                            /\ [form EXCEPT !.load = "none", !.seen = b].load = "none"
                            /\ [form EXCEPT !.load = "none", !.seen = b].seen = b
                            /\ [form EXCEPT !.load = "none", !.seen = b].text = form.text
    BY <2>2 DEF FormState
  <2>5. /\ form' \in FormState /\ form'.load = "none"
        /\ \/ form'.seen = TRUE /\ form'.text = got /\ got # Blank
           \/ /\ form'.text = form.text
              /\ form'.seen => ask.at = "read" /\ ask.text = Blank
    <3>1. CASE got # Blank
      <4>1. form' = [form EXCEPT !.text = got, !.load = "none", !.seen = TRUE]
        BY <2>1, <3>1
      <4>. QED
        BY <1>2, <2>2, <3>1, <4>1 DEF FormState
    <3>2. CASE got = Blank
      <4>1. PICK b \in BOOLEAN : /\ b = (ask = [at |-> "read", text |-> Blank])
                                 /\ form' = [form EXCEPT !.load = "none", !.seen = b]
        BY <2>1, <2>3, <3>2
      <4>2. /\ form' \in FormState /\ form'.load = "none" /\ form'.seen = b
            /\ form'.text = form.text
        BY <2>4, <4>1
      <4>3. b => ask.at = "read" /\ ask.text = Blank
        <5>1. ASSUME b PROVE ask.at = "read" /\ ask.text = Blank
          <6>1. ask = [at |-> "read", text |-> Blank]
            BY <4>1, <5>1, Zenon
          <6>. QED BY <6>1
        <5>. QED BY <5>1
      <4>. QED BY <4>2, <4>3
    <3>. QED BY <3>1, <3>2
  <2>6. WorkShape'
    BY <1>1, <1>3, <1>4, <2>1, <2>5 DEF WorkInv, WorkShape
  <2>7. FormOfItsPage'
    BY <2>1, <2>2, <2>5 DEF FormOfItsPage
  <2>8. ASSUME CopiesAreStored PROVE CopiesAreStored'
    <3>1. form'.seen => form'.text.rest = stored.profile.rest
      BY <1>2, <2>2, <2>5, <2>8, Blanks DEF CopiesAreStored
    <3>. QED
      BY <1>1, <1>2, <1>3, <1>4, <2>1, <2>2, <2>8, <3>1 DEF CopiesAreStored
  <2>. QED
    BY <1>1, <2>6, <2>7, <2>8 DEF WorkInv
<1>. QED
  BY <1>5, <1>6, <1>7

-----------------------------------------------------------------------------
LEMMA NavigateKeeps ==
    ASSUME WorkInv, NEW p \in Shown, Navigate(p)
    PROVE  WorkInv'
<1>1. Show(p) /\ boot = "done" /\ UNCHANGED <<boot, stored, cache, save, blind>>
  BY DEF Navigate
<1>. QED
  BY <1>1, ShowKeeps

\* a save on its way, at its next stage
LEMMA SaveMoves ==
    ASSUME WorkInv, NEW at \in {"asked", "stored"}, save.at # "none",
           save' = [save EXCEPT !.at = at]
    PROVE  /\ save' \in SaveState /\ save'.text = save.text /\ save'.from = save.from
           /\ save'.at = at
BY DEF WorkInv, WorkShape, SaveState

LEMMA SaveKeeps ==
    ASSUME WorkInv, NEW deploy \in BOOLEAN, NEW test \in BOOLEAN, Save(deploy, test)
    PROVE  WorkInv'
<1>1. /\ boot = "done" /\ save.at = "none" /\ page \in CompanyPages \cup AssistantPages
      /\ UNCHANGED <<page, boot, stored, cache, ask, form>>
      /\ blind' = (blind \/ ~form.seen)
      /\ save' = [NoSave EXCEPT !.at = IF deploy THEN "validating" ELSE "asked",
                      !.text = form.text, !.from = page, !.deploy = deploy, !.test = test]
  BY DEF Save
<1>2. PICK at \in {"validating", "asked"} :
         save' = [NoSave EXCEPT !.at = at, !.text = form.text, !.from = page,
                                !.deploy = deploy, !.test = test]
  BY <1>1
<1>3. form.text \in Text /\ page \in Shown
  BY <1>1, PagesAreShown DEF WorkInv, WorkShape, FormState
<1>4. save' \in SaveState /\ save'.text = form.text /\ save'.from = page
  BY <1>2, <1>3, Blanks DEF SaveState
<1>5. blind' \in BOOLEAN /\ (~blind' => ~blind /\ form.seen)
  BY <1>1
<1>6. WorkShape'
  BY <1>1, <1>4, <1>5 DEF WorkInv, WorkShape
<1>7. FormOfItsPage'
  BY <1>1 DEF WorkInv, FormOfItsPage
<1>8. ASSUME CopiesAreStored, form.seen PROVE CopiesAreStored'
  BY <1>1, <1>4, <1>8 DEF CopiesAreStored
<1>. QED
  BY <1>5, <1>6, <1>7, <1>8 DEF WorkInv

\* steps that only move the save
LEMMA OnlySaveMoves ==
    ASSUME WorkInv, UNCHANGED <<page, boot, stored, cache, ask, form, blind>>,
           \/ save' = NoSave
           \/ save.at # "none" /\ \E at \in {"asked", "stored"} : save' = [save EXCEPT !.at = at]
    PROVE  WorkInv'
<1>1. save' \in SaveState /\ (save'.at # "none" => /\ save.at # "none"
                                                   /\ save'.text = save.text
                                                   /\ save'.from = save.from)
  BY Blanks, SaveMoves
<1>. QED
  BY <1>1 DEF WorkInv, WorkShape, FormOfItsPage, CopiesAreStored

LEMMA ValidatedOrFails ==
    ASSUME WorkInv, SaveFails \/ \E answer \in BOOLEAN : Validated(answer)
    PROVE  WorkInv'
<1>1. /\ UNCHANGED <<page, boot, stored, cache, ask, form, blind>>
      /\ \/ save' = NoSave
         \/ save.at # "none" /\ save' = [save EXCEPT !.at = "asked"]
  BY DEF SaveFails, Validated
<1>. QED
  BY <1>1, OnlySaveMoves

(***************************************************************************)
(* What a save stores has, but after a blind save, the rest there was.     *)
(***************************************************************************)
LEMMA StoreCompanyKeeps ==
    ASSUME WorkInv, StoreCompany
    PROVE  /\ WorkInv'
           /\ ~blind => stored'.profile.rest = stored.profile.rest
           /\ stored'.draft = stored.draft
<1>1. /\ save.at = "asked" /\ save.from \in CompanyPages
      /\ stored' = [stored EXCEPT !.profile = save.text]
      /\ save' = [save EXCEPT !.at = "stored"]
      /\ UNCHANGED <<page, boot, cache, ask, form, blind>>
  BY DEF StoreCompany
<1>2. /\ save' \in SaveState /\ save'.text = save.text /\ save'.from = save.from
  BY <1>1, SaveMoves
<1>3. save.text \in Text /\ stored \in StoredState
  BY DEF WorkInv, WorkShape, SaveState
<1>4. /\ stored' \in StoredState /\ stored'.profile = save.text /\ stored'.draft = stored.draft
      /\ stored'.versions = stored.versions /\ stored'.published = stored.published
  BY <1>1, <1>3 DEF StoredState
<1>5. ~blind => stored'.profile.rest = stored.profile.rest
  BY <1>1, <1>4 DEF WorkInv, CopiesAreStored
<1>6. WorkShape' /\ FormOfItsPage'
  BY <1>1, <1>2, <1>4 DEF WorkInv, WorkShape, FormOfItsPage
<1>7. ASSUME CopiesAreStored, ~blind PROVE CopiesAreStored'
  BY <1>1, <1>2, <1>4, <1>5, <1>7 DEF CopiesAreStored
<1>. QED
  BY <1>1, <1>4, <1>5, <1>6, <1>7 DEF WorkInv

LEMMA StoreAssistantKeeps ==
    ASSUME WorkInv, StoreAssistant
    PROVE  /\ WorkInv'
           /\ ~blind => stored'.draft.rest = stored.draft.rest
           /\ stored'.profile = stored.profile
<1>1. /\ save.at = "asked" /\ save.from \in AssistantPages /\ stored.versions < MaxVersions
      /\ stored' = [stored EXCEPT !.draft = save.text, !.versions = @ + 1,
                        !.published = IF save.deploy THEN stored.versions + 1 ELSE @]
      /\ save' = [save EXCEPT !.at = "stored"]
      /\ UNCHANGED <<page, boot, cache, ask, form, blind>>
  BY DEF StoreAssistant
<1>2. /\ save' \in SaveState /\ save'.text = save.text /\ save'.from = save.from
  BY <1>1, SaveMoves
<1>3. save.text \in Text /\ stored \in StoredState
  BY DEF WorkInv, WorkShape, SaveState
<1>4. /\ stored.versions + 1 \in Nat /\ stored.versions + 1 <= MaxVersions
      /\ stored.published \in Nat /\ stored.published <= stored.versions + 1
  BY <1>1, <1>3, WorkspaceAssumption DEF StoredState, WorkInv, WorkShape
<1>5. PICK n \in {stored.versions + 1, stored.published} :
         stored' = [stored EXCEPT !.draft = save.text, !.versions = stored.versions + 1,
                                  !.published = n]
  BY <1>1
<1>6. /\ stored' \in StoredState /\ stored'.profile = stored.profile /\ stored'.draft = save.text
      /\ stored'.versions = stored.versions + 1 /\ stored'.published = n
  BY <1>3, <1>4, <1>5 DEF StoredState
<1>7. stored'.versions <= MaxVersions /\ stored'.published <= stored'.versions
  BY <1>3, <1>4, <1>6 DEF StoredState
<1>8. ~blind => stored'.draft.rest = stored.draft.rest
  BY <1>1, <1>6 DEF WorkInv, CopiesAreStored
<1>9. WorkShape' /\ FormOfItsPage'
  BY <1>1, <1>2, <1>6, <1>7 DEF WorkInv, WorkShape, FormOfItsPage
<1>10. ASSUME CopiesAreStored, ~blind PROVE CopiesAreStored'
  BY <1>1, <1>2, <1>6, <1>8, <1>10 DEF CopiesAreStored
<1>. QED
  BY <1>1, <1>6, <1>8, <1>9, <1>10 DEF WorkInv

LEMMA CompanySavedKeeps == WorkInv /\ CompanySaved => WorkInv'
<1>. SUFFICES ASSUME WorkInv, CompanySaved PROVE WorkInv'
  OBVIOUS
<1>1. /\ save.at = "stored" /\ save.from \in CompanyPages
      /\ cache' = [text |-> save.text, young |-> TRUE] /\ save' = NoSave
      /\ IF save.from = "onboarding" THEN Show("onboarding-ai") ELSE UNCHANGED <<page, form, ask>>
      /\ UNCHANGED <<boot, stored, blind>>
  BY DEF CompanySaved
<1>2. /\ cache' \in CacheState /\ cache'.text = save.text /\ boot = "done"
  BY <1>1 DEF WorkInv, WorkShape, SaveState, CacheState, FormOfItsPage
<1>3. NoSave \in SaveState /\ NoSave.at = "none"
  BY Blanks
<1>4. CASE save.from = "onboarding"
  <2>1. /\ page' = "onboarding-ai" /\ form' = Opened("onboarding-ai") /\ ask' = ask
    BY <1>1, <1>4, PagesAreShown DEF Show
  <2>2. Opened("onboarding-ai") = [NoForm EXCEPT !.load = "asked"]
    BY PagesAreShown DEF Opened
  <2>3. form' \in FormState /\ form'.load = "asked" /\ ~form'.seen /\ form'.text.rest = ""
    BY <2>1, <2>2, Waiting
  <2>4. WorkShape'
    BY <1>1, <1>2, <1>3, <2>1, <2>3, PagesAreShown DEF WorkInv, WorkShape
  <2>5. FormOfItsPage'
    BY <1>1, <1>2, <2>1, <2>3, PagesAreShown DEF FormOfItsPage
  <2>6. ASSUME CopiesAreStored PROVE CopiesAreStored'
    BY <1>1, <1>2, <1>3, <2>1, <2>3, <2>6 DEF CopiesAreStored
  <2>. QED
    BY <1>1, <2>4, <2>5, <2>6 DEF WorkInv
<1>5. CASE save.from # "onboarding"
  <2>1. UNCHANGED <<page, form, ask>>
    BY <1>1, <1>5
  <2>2. WorkShape' /\ FormOfItsPage'
    BY <1>1, <1>2, <1>3, <2>1 DEF WorkInv, WorkShape, FormOfItsPage
  <2>3. ASSUME CopiesAreStored PROVE CopiesAreStored'
    BY <1>1, <1>2, <1>3, <2>1, <2>3 DEF CopiesAreStored
  <2>. QED
    BY <1>1, <2>2, <2>3 DEF WorkInv
<1>. QED
  BY <1>4, <1>5

LEMMA AssistantSavedKeeps == WorkInv /\ AssistantSaved => WorkInv'
<1>. SUFFICES ASSUME WorkInv, AssistantSaved PROVE WorkInv'
  OBVIOUS
<1>1. /\ save.at = "stored" /\ save' = NoSave /\ UNCHANGED <<boot, stored, cache, blind>>
      /\ \/ \E p \in {"testing-sandbox", "dashboard", "assistant-config"} : Show(p)
         \/ UNCHANGED <<page, form, ask>>
  BY DEF AssistantSaved
<1>2. boot = "done"
  BY <1>1 DEF WorkInv, FormOfItsPage
<1>3. CASE \E p \in {"testing-sandbox", "dashboard", "assistant-config"} : Show(p)
  BY <1>1, <1>2, <1>3, ShowKeeps, PagesAreShown
<1>4. CASE UNCHANGED <<page, form, ask>>
  BY <1>1, <1>4, OnlySaveMoves
<1>. QED
  BY <1>1, <1>3, <1>4

LEMMA WorkInductive == WorkInv /\ [WorkNext]_workVars => WorkInv'
<1>. SUFFICES ASSUME WorkInv, [WorkNext]_workVars PROVE WorkInv'
  OBVIOUS
<1>1. CASE UNCHANGED workVars
  <2>1. UNCHANGED <<page, boot, stored, cache, ask, form, save, blind>>
    BY <1>1 DEF workVars
  <2>. QED
    BY <2>1 DEF WorkInv, WorkShape, FormOfItsPage, CopiesAreStored
<1>. QED
  BY <1>1, SessionAnsweredKeeps, ReadProfileKeeps, ProfileAnsweredKeeps, CacheAgesKeeps,
     DraftAnsweredKeeps, EditKeeps, NavigateKeeps, SaveKeeps, ValidatedOrFails,
     StoreCompanyKeeps, StoreAssistantKeeps, CompanySavedKeeps, AssistantSavedKeeps DEF WorkNext

LEMMA WorkTypes == WorkInv => WorkTypeOK
<1>. SUFFICES ASSUME WorkShape PROVE WorkTypeOK
  BY DEF WorkInv
<1>1. stored.versions \in 0..MaxVersions /\ stored.published \in 0..stored.versions
  BY WorkspaceAssumption DEF WorkShape, StoredState
<1>2. stored.profile \in Text /\ stored.draft \in Text
  BY DEF WorkShape, StoredState
<1>3. cache.text \in Text \cup {NoText} /\ cache.young \in BOOLEAN
  BY DEF WorkShape, CacheState
<1>4. ask.at \in {"none", "asked", "read"} /\ ask.text \in Text
  BY DEF WorkShape, RequestState
<1>5. form.text \in Text /\ form.load \in {"none", "waits", "asked"}
  BY DEF WorkShape, FormState
<1>6. save.at \in {"none", "validating", "asked", "stored"} /\ save.text \in Text
      /\ save.from \in Shown
  BY DEF WorkShape, SaveState
<1>. QED
  BY <1>1, <1>2, <1>3, <1>4, <1>5, <1>6 DEF WorkShape, WorkTypeOK

LEMMA OnlyBlindStepErases ==
    ASSUME WorkInv, [WorkNext]_workVars,
           \/ stored.profile.rest # "" /\ stored'.profile.rest = ""
           \/ stored.draft.rest # "" /\ stored'.draft.rest = ""
    PROVE  blind
<1>1. CASE StoreCompany
  BY <1>1, StoreCompanyKeeps
<1>2. CASE StoreAssistant
  BY <1>2, StoreAssistantKeeps
<1>3. CASE ~StoreCompany /\ ~StoreAssistant
  <2>1. stored' = stored
    BY <1>3 DEF WorkNext, workVars, SessionAnswered, ReadProfile, ProfileAnswered, CacheAges,
       DraftAnswered, Edit, Navigate, Save, Validated, SaveFails, CompanySaved, AssistantSaved
  <2>. QED BY <2>1
<1>. QED
  BY <1>1, <1>2, <1>3

-----------------------------------------------------------------------------
(***************************************************************************)
(* The account of the phone and its gate.                                  *)
(***************************************************************************)

(***************************************************************************)
(* A check that found the set-up complete read it from the account, which  *)
(* is only added to; once the user is out for good, neither the server nor *)
(* a check still has the session.                                          *)
(***************************************************************************)
CheckState == [at : {"idle", "sent", "read", "loading", "found"},
               valid : BOOLEAN, done : BOOLEAN, next : {"none", "setup", "tabs"}]

DoneIsRead ==
    /\ auth.done => Configured
    /\ \A c \in Checks : check[c].done => Configured

OutIsOut ==
    left = "yes" => /\ ~auth.user /\ ~session
                    /\ \A c \in Checks : ~check[c].valid

AccountInv == AccountTypeOK /\ DoneIsRead /\ OutIsOut

LEMMA CheckMoves ==
    ASSUME AccountInv, NEW c \in Checks, NEW new \in CheckState,
           check' = [check EXCEPT ![c] = new]
    PROVE  /\ check' \in [Checks -> CheckState]
           /\ check'[c] = new
           /\ \A d \in Checks : d # c => check'[d] = check[d]
BY DEF AccountInv, AccountTypeOK, CheckState

(***************************************************************************)
(* A step that moves one check only.                                       *)
(***************************************************************************)
LEMMA OneCheckMoves ==
    ASSUME AccountInv, NEW c \in Checks, NEW new \in CheckState,
           check' = [check EXCEPT ![c] = new],
           UNCHANGED <<session, account, left>>,
           auth' \in [user : BOOLEAN, done : BOOLEAN, loading : BOOLEAN],
           route' \in {"index", "splash", "sign-in", "setup", "tabs"},
           sign' \in {"no", "in-tabs", "in-setup", "out", "out-again"},
           setup' \in {"no", "company", "assistant", "done"},
           new.done => Configured, new.valid => session,
           auth'.done => Configured, auth'.user => auth.user \/ check[c].valid
    PROVE  AccountInv'
<1>1. /\ check' \in [Checks -> CheckState]
      /\ check'[c] = new
      /\ \A d \in Checks : d # c => check'[d] = check[d]
  BY CheckMoves
<1>2. AccountTypeOK'
  BY <1>1 DEF AccountInv, AccountTypeOK, CheckState
<1>3. DoneIsRead'
  BY <1>1 DEF AccountInv, DoneIsRead, Configured
<1>4. OutIsOut'
  BY <1>1 DEF AccountInv, OutIsOut
<1>. QED
  BY <1>2, <1>3, <1>4 DEF AccountInv

LEMMA CheckIsTyped ==
    ASSUME AccountInv, NEW c \in Checks
    PROVE  /\ check[c] \in CheckState
           /\ check[c].done \in BOOLEAN /\ check[c].valid \in BOOLEAN
BY DEF AccountInv, AccountTypeOK, CheckState

LEMMA RefreshMoves ==
    ASSUME AccountInv, NEW c \in Checks, NEW next \in {"none", "setup", "tabs"},
           Refresh(c, next), UNCHANGED <<session, account, auth, left>>,
           route' \in {"index", "splash", "sign-in", "setup", "tabs"},
           sign' \in {"no", "in-tabs", "in-setup", "out", "out-again"},
           setup' \in {"no", "company", "assistant", "done"}
    PROVE  AccountInv'
<1>. DEFINE new == [NoCheck EXCEPT !.at = "sent", !.next = next]
<1>1. new \in CheckState /\ ~new.done /\ ~new.valid
  BY DEF NoCheck, CheckState
<1>2. check' = [check EXCEPT ![c] = new]
  BY DEF Refresh
<1>3. auth' \in [user : BOOLEAN, done : BOOLEAN, loading : BOOLEAN]
      /\ (auth'.done => Configured) /\ auth' = auth
  BY DEF AccountInv, AccountTypeOK, DoneIsRead
<1>. HIDE DEF new
<1>. QED
  BY <1>1, <1>2, <1>3, OneCheckMoves

LEMMA RoutedIsTyped ==
    ASSUME NEW r \in {"index", "splash", "sign-in", "setup", "tabs"}, NEW a
    PROVE  Routed(r, a) \in {"index", "splash", "sign-in", "setup", "tabs"}
BY DEF Routed

LEMMA SessionReadMoves ==
    ASSUME AccountInv, NEW c \in Checks, SessionRead(c)
    PROVE  AccountInv'
<1>. DEFINE new == [check[c] EXCEPT !.at = "read", !.valid = session]
<1>1. check[c] \in CheckState /\ session \in BOOLEAN
  BY CheckIsTyped DEF AccountInv, AccountTypeOK
<1>2. new \in CheckState /\ new.done = check[c].done /\ new.valid = session
  BY <1>1 DEF CheckState
<1>3. check' = [check EXCEPT ![c] = new]
  BY DEF SessionRead
<1>4. UNCHANGED <<session, account, auth, route, sign, setup, left>>
  BY DEF SessionRead
<1>5. check[c].done => Configured
  BY DEF AccountInv, DoneIsRead
<1>. HIDE DEF new
<1>6. /\ auth' \in [user : BOOLEAN, done : BOOLEAN, loading : BOOLEAN]
      /\ route' \in {"index", "splash", "sign-in", "setup", "tabs"}
      /\ sign' \in {"no", "in-tabs", "in-setup", "out", "out-again"}
      /\ setup' \in {"no", "company", "assistant", "done"}
      /\ (auth'.done => Configured) /\ (auth'.user => auth.user \/ check[c].valid)
  BY <1>4 DEF AccountInv, AccountTypeOK, DoneIsRead
<1>7. (new.done => Configured) /\ (new.valid => session)
  BY <1>2, <1>5
<1>. QED
  BY <1>2, <1>3, <1>4, <1>6, <1>7, OneCheckMoves

LEMMA SettlesMoves ==
    ASSUME AccountInv, NEW c \in Checks,
           NEW state \in [user : BOOLEAN, done : BOOLEAN, loading : BOOLEAN],
           Settles(c, state), UNCHANGED <<session, account, sign, setup, left>>,
           state.done => Configured, state.user => auth.user \/ check[c].valid
    PROVE  AccountInv'
<1>1. /\ auth' = state
      /\ route' = Routed(IF check[c].next = "none" THEN route ELSE check[c].next, state)
      /\ check' = [check EXCEPT ![c] = NoCheck]
  BY DEF Settles
<1>2. NoCheck \in CheckState /\ ~NoCheck.done /\ ~NoCheck.valid
  BY DEF NoCheck, CheckState
<1>3. check[c].next \in {"none", "setup", "tabs"}
  BY CheckIsTyped DEF CheckState
<1>4. (IF check[c].next = "none" THEN route ELSE check[c].next)
         \in {"index", "splash", "sign-in", "setup", "tabs"}
  BY <1>3 DEF AccountInv, AccountTypeOK
<1>5. route' \in {"index", "splash", "sign-in", "setup", "tabs"}
  BY <1>1, <1>4, RoutedIsTyped
<1>6. /\ sign' \in {"no", "in-tabs", "in-setup", "out", "out-again"}
      /\ setup' \in {"no", "company", "assistant", "done"}
  BY DEF AccountInv, AccountTypeOK
<1>7. (auth'.done => Configured) /\ (auth'.user => auth.user \/ check[c].valid)
  BY <1>1
<1>8. auth' \in [user : BOOLEAN, done : BOOLEAN, loading : BOOLEAN]
  BY <1>1
<1>9. (NoCheck.done => Configured) /\ (NoCheck.valid => session)
  BY <1>2
<1>. QED
  BY <1>1, <1>2, <1>5, <1>6, <1>7, <1>8, <1>9, OneCheckMoves

LEMMA AuthIsTyped ==
    ASSUME AccountInv, NEW d \in BOOLEAN, NEW l \in BOOLEAN
    PROVE  /\ [auth EXCEPT !.user = TRUE] \in [user : BOOLEAN, done : BOOLEAN, loading : BOOLEAN]
           /\ [auth EXCEPT !.user = TRUE].done = auth.done
           /\ [auth EXCEPT !.done = d, !.loading = l]
                 \in [user : BOOLEAN, done : BOOLEAN, loading : BOOLEAN]
           /\ [auth EXCEPT !.done = d, !.loading = l].done = d
           /\ [auth EXCEPT !.done = d, !.loading = l].user = auth.user
           /\ [SignedOff EXCEPT !.loading = l]
                 \in [user : BOOLEAN, done : BOOLEAN, loading : BOOLEAN]
           /\ ~[SignedOff EXCEPT !.loading = l].user /\ ~[SignedOff EXCEPT !.loading = l].done
<1>1. auth \in [user : BOOLEAN, done : BOOLEAN, loading : BOOLEAN]
  BY DEF AccountInv, AccountTypeOK
<1>2. SignedOff \in [user : BOOLEAN, done : BOOLEAN, loading : BOOLEAN]
      /\ ~SignedOff.user /\ ~SignedOff.done
  BY DEF SignedOff
<1>. QED
  BY <1>1, <1>2

LEMMA CheckAnsweredMoves ==
    ASSUME AccountInv, NEW c \in Checks, CheckAnswered(c)
    PROVE  AccountInv'
<1>1. UNCHANGED <<session, account, sign, setup, left>>
  BY DEF CheckAnswered
<1>2. CASE Settles(c, SignedOff)
  <2>1. SignedOff \in [user : BOOLEAN, done : BOOLEAN, loading : BOOLEAN]
        /\ ~SignedOff.user /\ ~SignedOff.done
    BY DEF SignedOff
  <2>. QED
    BY <1>1, <1>2, <2>1, SettlesMoves
<1>3. CASE /\ check[c].valid
           /\ auth' = [auth EXCEPT !.user = TRUE] /\ route' = Routed(route, auth')
           /\ check' = [check EXCEPT ![c].at = "loading", ![c].valid = FALSE]
  <2>. DEFINE new == [check[c] EXCEPT !.at = "loading", !.valid = FALSE]
  <2>1. check[c] \in CheckState
    BY CheckIsTyped
  <2>2. new \in CheckState /\ new.done = check[c].done /\ ~new.valid
    BY <2>1 DEF CheckState
  <2>3. check' = [check EXCEPT ![c] = new]
    BY <1>3
  <2>4. check[c].done => Configured
    BY DEF AccountInv, DoneIsRead
  <2>. HIDE DEF new
  <2>5. auth' \in [user : BOOLEAN, done : BOOLEAN, loading : BOOLEAN] /\ auth'.done = auth.done
    BY <1>3, AuthIsTyped
  <2>6. route \in {"index", "splash", "sign-in", "setup", "tabs"}
    BY DEF AccountInv, AccountTypeOK
  <2>7. route' \in {"index", "splash", "sign-in", "setup", "tabs"}
    BY <1>3, <2>6, RoutedIsTyped
  <2>8. /\ sign' \in {"no", "in-tabs", "in-setup", "out", "out-again"}
        /\ setup' \in {"no", "company", "assistant", "done"}
    BY <1>1 DEF AccountInv, AccountTypeOK
  <2>9. (auth'.done => Configured) /\ (auth'.user => auth.user \/ check[c].valid)
    BY <1>3, <2>5 DEF AccountInv, DoneIsRead
  <2>10. (new.done => Configured) /\ (new.valid => session)
    BY <2>2, <2>4
  <2>. QED
    BY <1>1, <2>2, <2>3, <2>5, <2>7, <2>8, <2>9, <2>10, OneCheckMoves
<1>. QED
  BY <1>2, <1>3 DEF CheckAnswered

LEMMA ProfileReadMoves ==
    ASSUME AccountInv, NEW c \in Checks, ProfileRead(c)
    PROVE  AccountInv'
<1>1. UNCHANGED <<session, account, auth, route, sign, setup, left>>
  BY DEF ProfileRead
<1>2. Configured \in BOOLEAN
  BY DEF Configured
<1>3. PICK done \in BOOLEAN :
         /\ done => Configured
         /\ check' = [check EXCEPT ![c].at = "found", ![c].done = done]
  BY <1>2 DEF ProfileRead
<1>. DEFINE new == [check[c] EXCEPT !.at = "found", !.done = done]
<1>4. check[c] \in CheckState
  BY CheckIsTyped
<1>5. new \in CheckState /\ new.done = done /\ new.valid = check[c].valid
  BY <1>4 DEF CheckState
<1>6. check' = [check EXCEPT ![c] = new]
  BY <1>3
<1>. HIDE DEF new
<1>7. /\ check' \in [Checks -> CheckState]
      /\ check'[c] = new
      /\ \A d \in Checks : d # c => check'[d] = check[d]
  BY <1>5, <1>6, CheckMoves
<1>8. AccountTypeOK'
  BY <1>1, <1>7 DEF AccountInv, AccountTypeOK, CheckState
<1>9. DoneIsRead'
  BY <1>1, <1>3, <1>5, <1>7 DEF AccountInv, DoneIsRead, Configured
<1>10. OutIsOut'
  BY <1>1, <1>5, <1>7 DEF AccountInv, OutIsOut
<1>. QED
  BY <1>8, <1>9, <1>10 DEF AccountInv

LEMMA ProfileAppliedMoves ==
    ASSUME AccountInv, NEW c \in Checks, ProfileApplied(c)
    PROVE  AccountInv'
<1>. DEFINE state == [auth EXCEPT !.done = check[c].done, !.loading = FALSE]
<1>1. check[c].done \in BOOLEAN /\ FALSE \in BOOLEAN
  BY CheckIsTyped
<1>2. state \in [user : BOOLEAN, done : BOOLEAN, loading : BOOLEAN]
      /\ state.done = check[c].done /\ state.user = auth.user
  BY <1>1, AuthIsTyped
<1>3. Settles(c, state) /\ UNCHANGED <<session, account, sign, setup, left>>
  BY DEF ProfileApplied
<1>4. check[c].done => Configured
  BY DEF AccountInv, DoneIsRead
<1>. HIDE DEF state
<1>5. (state.done => Configured) /\ (state.user => auth.user \/ check[c].valid)
  BY <1>2, <1>4
<1>. QED
  BY <1>2, <1>3, <1>5, SettlesMoves

(***************************************************************************)
(* Steps of the user and the server: no check moves, the account is only   *)
(* added to, and only signing in brings a session back.                    *)
(***************************************************************************)
LEMMA NoCheckMoves ==
    ASSUME AccountInv, UNCHANGED <<auth, check>>,
           session' \in BOOLEAN, left' \in {"no", left}, session' => session \/ left' = "no",
           account' \in [company : BOOLEAN, assistant : BOOLEAN, published : BOOLEAN],
           Configured => Configured',
           route' \in {"index", "splash", "sign-in", "setup", "tabs"},
           sign' \in {"no", "in-tabs", "in-setup", "out", "out-again"},
           setup' \in {"no", "company", "assistant", "done"}
    PROVE  AccountInv'
<1>1. AccountTypeOK'
  BY DEF AccountInv, AccountTypeOK
<1>2. DoneIsRead'
  BY DEF AccountInv, DoneIsRead
<1>3. OutIsOut'
  BY DEF AccountInv, OutIsOut
<1>. QED
  BY <1>1, <1>2, <1>3 DEF AccountInv

LEMMA UserMoves ==
    ASSUME AccountInv,
           \/ \E r \in {"splash", "sign-in", "setup", "tabs"} : GoTo(r)
           \/ SignIn \/ SignOut \/ SignOutAgain \/ SessionExpires
           \/ PublishSetUp \/ PublishFails
    PROVE  AccountInv'
<1>1. UNCHANGED <<auth, check, account>>
  BY DEF GoTo, SignIn, SignOut, SignOutAgain, SessionExpires, PublishSetUp, PublishFails
<1>2. /\ session' \in BOOLEAN /\ left' \in {"no", left}
      /\ (session' => session \/ left' = "no")
  <2>1. session \in BOOLEAN
    BY DEF AccountInv, AccountTypeOK
  <2>2. CASE SignIn
    BY <2>2 DEF SignIn
  <2>3. CASE SignOut \/ SignOutAgain
    <3>1. left' = left
      BY <2>3 DEF SignOut, SignOutAgain
    <3>2. session' \in {session, FALSE}
      BY <2>3 DEF SignOut, SignOutAgain
    <3>3. session' = session \/ session' = FALSE
      BY <3>2
    <3>4. session' \in BOOLEAN
      BY <2>1, <3>3
    <3>5. session' => session
      BY <3>3
    <3>. QED BY <3>1, <3>4, <3>5
  <2>4. CASE SessionExpires
    BY <2>4 DEF SessionExpires
  <2>5. CASE \/ \E r \in {"splash", "sign-in", "setup", "tabs"} : GoTo(r)
             \/ PublishSetUp \/ PublishFails
    <3>1. UNCHANGED <<session, left>>
      BY <2>5 DEF GoTo, PublishSetUp, PublishFails
    <3>. QED BY <2>1, <3>1
  <2>. QED
    BY <2>2, <2>3, <2>4, <2>5
<1>3. /\ route' \in {"index", "splash", "sign-in", "setup", "tabs"}
      /\ sign' \in {"no", "in-tabs", "in-setup", "out", "out-again"}
      /\ setup' \in {"no", "company", "assistant", "done"}
  BY DEF GoTo, SignIn, SignOut, SignOutAgain, SessionExpires, PublishSetUp, PublishFails,
         AccountInv, AccountTypeOK
<1>4. account' \in [company : BOOLEAN, assistant : BOOLEAN, published : BOOLEAN]
      /\ (Configured => Configured')
  BY <1>1 DEF AccountInv, AccountTypeOK, Configured
<1>. QED
  BY <1>1, <1>2, <1>3, <1>4, NoCheckMoves

LEMMA PublishedMoves ==
    ASSUME AccountInv, CompanyStored \/ AssistantStored
    PROVE  AccountInv'
<1>1. /\ UNCHANGED <<session, check, auth, route, sign, left>>
      /\ setup' \in {"no", "company", "assistant", "done"}
      /\ \/ account' = [account EXCEPT !.company = TRUE]
         \/ account' = [account EXCEPT !.assistant = TRUE, !.published = TRUE]
  BY DEF CompanyStored, AssistantStored
<1>2. account \in [company : BOOLEAN, assistant : BOOLEAN, published : BOOLEAN]
  BY DEF AccountInv, AccountTypeOK
<1>3. /\ account' \in [company : BOOLEAN, assistant : BOOLEAN, published : BOOLEAN]
      /\ account.company => account'.company
      /\ account.assistant => account'.assistant
      /\ account.published => account'.published
  BY <1>1, <1>2
<1>4. Configured => Configured'
  BY <1>3 DEF Configured
<1>5. /\ session' \in BOOLEAN /\ left' \in {"no", left}
      /\ (session' => session \/ left' = "no")
      /\ route' \in {"index", "splash", "sign-in", "setup", "tabs"}
      /\ sign' \in {"no", "in-tabs", "in-setup", "out", "out-again"}
  BY <1>1 DEF AccountInv, AccountTypeOK
<1>. QED
  BY <1>1, <1>3, <1>4, <1>5, NoCheckMoves

LEMMA SignedOutNowMoves == AccountInv /\ SignedOutNow => AccountInv'
<1>. SUFFICES ASSUME AccountInv, SignedOutNow PROVE AccountInv'
  OBVIOUS
<1>1. /\ sign' = "no" /\ auth' = [SignedOff EXCEPT !.loading = auth.loading]
      /\ route' = Routed("index", auth')
      /\ left' = IF session \/ \E c \in Checks : check[c].valid THEN "may" ELSE "yes"
      /\ UNCHANGED <<session, account, check, setup>>
  BY DEF SignedOutNow
<1>2. auth.loading \in BOOLEAN /\ FALSE \in BOOLEAN
  BY DEF AccountInv, AccountTypeOK
<1>3. auth' \in [user : BOOLEAN, done : BOOLEAN, loading : BOOLEAN] /\ ~auth'.user /\ ~auth'.done
  BY <1>1, <1>2, AuthIsTyped
<1>4. route' \in {"index", "splash", "sign-in", "setup", "tabs"}
  BY <1>1, RoutedIsTyped
<1>5. AccountTypeOK'
  BY <1>1, <1>3, <1>4 DEF AccountInv, AccountTypeOK
<1>6. DoneIsRead'
  BY <1>1, <1>3 DEF AccountInv, DoneIsRead, Configured
<1>7. OutIsOut'
  BY <1>1, <1>3 DEF OutIsOut
<1>. QED
  BY <1>5, <1>6, <1>7 DEF AccountInv

LEMMA AccountInitial == AccountInit => AccountInv
<1>. SUFFICES ASSUME AccountInit PROVE AccountInv
  OBVIOUS
<1>. DEFINE first == CHOOSE c \in Checks : TRUE
<1>1. PICK known \in BOOLEAN :
         account = [company |-> known, assistant |-> known, published |-> known]
  BY DEF AccountInit
<1>2. check = [[c \in Checks |-> NoCheck] EXCEPT ![first].at = "sent"]
  BY DEF AccountInit
<1>. HIDE DEF first
<1>3. NoCheck \in CheckState /\ ~NoCheck.done /\ ~NoCheck.valid
  BY DEF NoCheck, CheckState
<1>4. [NoCheck EXCEPT !.at = "sent"] \in CheckState
      /\ ~[NoCheck EXCEPT !.at = "sent"].done /\ ~[NoCheck EXCEPT !.at = "sent"].valid
  BY DEF NoCheck, CheckState
<1>5. \A c \in Checks : check[c] \in {NoCheck, [NoCheck EXCEPT !.at = "sent"]}
  BY <1>2
<1>6. check \in [Checks -> CheckState]
  BY <1>2, <1>3, <1>4, <1>5
<1>7. \A c \in Checks : ~check[c].done /\ ~check[c].valid
  BY <1>3, <1>4, <1>5
<1>8. auth \in [user : BOOLEAN, done : BOOLEAN, loading : BOOLEAN] /\ ~auth.user /\ ~auth.done
  BY DEF AccountInit, SignedOff
<1>9. session \in BOOLEAN /\ left = "no" /\ route = "index" /\ sign = "no" /\ setup = "no"
  BY DEF AccountInit
<1>10. account \in [company : BOOLEAN, assistant : BOOLEAN, published : BOOLEAN]
  BY <1>1
<1>11. AccountTypeOK
  BY <1>6, <1>8, <1>9, <1>10 DEF AccountTypeOK, CheckState
<1>. QED
  BY <1>7, <1>8, <1>9, <1>11 DEF AccountInv, DoneIsRead, OutIsOut

LEMMA AccountInductive == AccountInv /\ [AccountNext]_accountVars => AccountInv'
<1>. SUFFICES ASSUME AccountInv, [AccountNext]_accountVars PROVE AccountInv'
  OBVIOUS
<1>1. CASE UNCHANGED accountVars
  <2>1. UNCHANGED <<session, account, check, auth, route, sign, setup, left>>
    BY <1>1 DEF accountVars
  <2>. QED
    BY <2>1 DEF AccountInv, AccountTypeOK, DoneIsRead, Configured, OutIsOut
<1>2. ASSUME NEW c \in Checks, Foreground(c) \/ SignedIn(c) \/ SetUp(c) PROVE AccountInv'
  <2>1. /\ UNCHANGED <<session, account, auth, route, left>>
        /\ sign' \in {sign, "no"} /\ setup' \in {setup, "no"}
        /\ (check' = check \/ \E next \in {"none", "setup", "tabs"} : Refresh(c, next))
    BY <1>2 DEF Foreground, SignedIn, SetUp
  <2>2. /\ route' \in {"index", "splash", "sign-in", "setup", "tabs"}
        /\ sign' \in {"no", "in-tabs", "in-setup", "out", "out-again"}
        /\ setup' \in {"no", "company", "assistant", "done"}
    BY <2>1 DEF AccountInv, AccountTypeOK
  <2>3. CASE check' = check
    BY <2>1, <2>2, <2>3 DEF AccountInv, AccountTypeOK, DoneIsRead, Configured, OutIsOut
  <2>4. CASE \E next \in {"none", "setup", "tabs"} : Refresh(c, next)
    BY <2>1, <2>2, <2>4, RefreshMoves
  <2>. QED BY <2>1, <2>3, <2>4
<1>. QED
  BY <1>1, <1>2, SessionReadMoves, CheckAnsweredMoves, ProfileReadMoves, ProfileAppliedMoves,
     UserMoves, PublishedMoves, SignedOutNowMoves DEF AccountNext

LEMMA GateHolds == AccountInv => GateIsTrue
BY DEF AccountInv, DoneIsRead, OutIsOut, Configured, GateIsTrue, CompletedSetupIsReal,
       SignedOutStaysOut

-----------------------------------------------------------------------------
(***************************************************************************)
(* The profile screens of the phone.                                       *)
(***************************************************************************)

(***************************************************************************)
(* A form of Settings that has seen the stored text has its rest, and so   *)
(* has a save made of it; the form of a save only gains by typing.         *)
(***************************************************************************)
FieldsState == [text : ProfileText, company : BOOLEAN,
                load : SUBSET {"company", "assistant"}, seen : BOOLEAN]
WriteState == [at : {"none", "company", "company-stored", "assistant", "assistant-stored"},
               by : {"onboarding", "settings"}, text : ProfileText, deploy : BOOLEAN,
               seen : BOOLEAN, held : BOOLEAN]
ProfileState == [company : BOOLEAN, text : ProfileText, published : ProfileText,
                 saves : 0..MaxSaves]

SeenIsHad ==
    /\ profile.text.rest => profile.text.name
    /\ write.text.rest => write.text.name
    /\ screen = "settings" /\ fields.seen /\ profile.text.rest => fields.text.rest
    /\ write.at = "assistant" /\ write.by = "settings" /\ write.seen /\ profile.text.rest =>
          write.text.rest
    /\ write.held => screen = write.by
    /\ write.at = "assistant" /\ write.by = "settings" /\ write.held /\ write.text.rest =>
          fields.text.rest

ProfileInv == ProfileTypeOK /\ SeenIsHad

LEMMA ProfileTypes ==
    ASSUME ProfileTypeOK
    PROVE  /\ fields \in FieldsState /\ write \in WriteState /\ profile \in ProfileState
           /\ fields.text \in ProfileText /\ fields.text.rest \in BOOLEAN /\ fields.seen \in BOOLEAN
           /\ fields.load \in SUBSET {"company", "assistant"} /\ fields.company \in BOOLEAN
           /\ write.text \in ProfileText /\ write.text.rest \in BOOLEAN /\ write.seen \in BOOLEAN
           /\ write.held \in BOOLEAN
           /\ profile.text \in ProfileText /\ profile.text.rest \in BOOLEAN
BY DEF ProfileTypeOK, FieldsState, WriteState, ProfileState, ProfileText

LEMMA TextsAreTyped ==
    /\ EmptyText \in ProfileText /\ ~EmptyText.name /\ ~EmptyText.rest
    /\ Full \in ProfileText /\ Full.rest /\ Full.name
    /\ EmptyFields \in FieldsState /\ ~EmptyFields.seen
    /\ NoWrite \in WriteState /\ NoWrite.at = "none" /\ ~NoWrite.held /\ ~NoWrite.text.rest
<1>1. EmptyText \in ProfileText /\ ~EmptyText.name /\ ~EmptyText.rest
  BY DEF EmptyText, ProfileText
<1>2. Full \in ProfileText /\ Full.rest /\ Full.name
  BY DEF Full, ProfileText
<1>. QED
  BY <1>1, <1>2 DEF EmptyFields, FieldsState, NoWrite, WriteState

LEMMA ProfileInitial == ProfileInit => ProfileInv
<1>. SUFFICES ASSUME ProfileInit PROVE ProfileInv
  OBVIOUS
<1>1. screen = "none" /\ fields = EmptyFields /\ write = NoWrite
  BY DEF ProfileInit
<1>2. PICK known \in {EmptyText, Full} :
         profile = [company |-> known.name, text |-> known, published |-> known, saves |-> 0]
  BY DEF ProfileInit
<1>3. known \in ProfileText /\ known.name \in BOOLEAN
  BY TextsAreTyped DEF ProfileText
<1>4. 0 \in 0..MaxSaves
  BY ProfileAssumption
<1>5. profile \in ProfileState
  BY <1>2, <1>3, <1>4 DEF ProfileState
<1>6. ProfileTypeOK
  BY <1>1, <1>5, TextsAreTyped DEF ProfileTypeOK, FieldsState, WriteState, ProfileState
<1>. QED
  BY <1>1, <1>2, <1>6, TextsAreTyped DEF ProfileInv, SeenIsHad

-----------------------------------------------------------------------------
LEMMA OpenScreenKeeps ==
    ASSUME ProfileInv, NEW s \in {"none", "onboarding", "settings"}, OpenScreen(s)
    PROVE  ProfileInv'
<1>1. /\ screen' = s /\ profile' = profile /\ write' = [write EXCEPT !.held = FALSE]
      /\ fields' \in {[EmptyFields EXCEPT !.load = {}],
                      [EmptyFields EXCEPT !.load = {"company", "assistant"}]}
  BY DEF OpenScreen
<1>2. fields' \in FieldsState /\ ~fields'.seen
  BY <1>1, TextsAreTyped DEF FieldsState
<1>3. write' \in WriteState /\ ~write'.held /\ write'.at = write.at /\ write'.by = write.by
      /\ write'.seen = write.seen /\ write'.text = write.text
  BY <1>1, ProfileTypes DEF ProfileInv, WriteState
<1>4. ProfileTypeOK'
  BY <1>1, <1>2, <1>3 DEF ProfileInv, ProfileTypeOK, FieldsState, WriteState
<1>5. SeenIsHad'
  BY <1>1, <1>2, <1>3 DEF ProfileInv, SeenIsHad
<1>. QED
  BY <1>4, <1>5 DEF ProfileInv

LEMMA FormGains ==
    ASSUME ProfileInv, UNCHANGED <<screen, write, profile>>,
           fields' \in FieldsState, fields'.seen = fields.seen,
           fields.text.rest => fields'.text.rest
    PROVE  ProfileInv'
<1>1. ProfileTypeOK'
  BY DEF ProfileInv, ProfileTypeOK, FieldsState
<1>2. SeenIsHad'
  BY DEF ProfileInv, SeenIsHad
<1>. QED
  BY <1>1, <1>2 DEF ProfileInv

LEMMA TypingKeeps == ProfileInv /\ (CompanyLoaded \/ TypeIn) => ProfileInv'
<1>. SUFFICES ASSUME ProfileInv, CompanyLoaded \/ TypeIn PROVE ProfileInv'
  OBVIOUS
<1>1. /\ fields \in FieldsState /\ fields.text \in ProfileText
      /\ fields.load \in SUBSET {"company", "assistant"} /\ fields.company \in BOOLEAN
      /\ profile.company \in BOOLEAN
  BY ProfileTypes DEF ProfileInv, ProfileState
<1>2. CASE CompanyLoaded
  <2>1. PICK got \in {profile.company, FALSE} :
           fields' = [fields EXCEPT !.load = @ \ {"company"}, !.company = @ \/ got]
    BY <1>2 DEF CompanyLoaded
  <2>2. got \in BOOLEAN
    BY <1>1, <2>1
  <2>3. (fields.company \/ got) \in BOOLEAN
    OBVIOUS
  <2>4. \A b \in BOOLEAN, l \in SUBSET {"company", "assistant"} :
           /\ [fields EXCEPT !.load = l, !.company = b] \in FieldsState
           /\ [fields EXCEPT !.load = l, !.company = b].seen = fields.seen
           /\ [fields EXCEPT !.load = l, !.company = b].text = fields.text
    BY <1>1 DEF FieldsState
  <2>5. PICK b \in BOOLEAN : fields' = [fields EXCEPT !.load = fields.load \ {"company"}, !.company = b]
    BY <2>1, <2>3
  <2>6. fields.load \ {"company"} \in SUBSET {"company", "assistant"}
    BY <1>1
  <2>7. fields' \in FieldsState /\ fields'.seen = fields.seen /\ fields'.text = fields.text
    BY <2>4, <2>5, <2>6
  <2>. QED
    BY <1>2, <2>7, FormGains DEF CompanyLoaded
<1>3. CASE TypeIn
  <2>1. \/ fields' = [fields EXCEPT !.text = [fields.text EXCEPT !.name = TRUE]]
        \/ fields' = [fields EXCEPT !.company = TRUE]
        \/ fields' = [fields EXCEPT !.text = [fields.text EXCEPT !.rest = TRUE]]
    BY <1>3 DEF TypeIn
  <2>2. /\ [fields.text EXCEPT !.name = TRUE] \in ProfileText
        /\ [fields.text EXCEPT !.name = TRUE].rest = fields.text.rest
        /\ [fields.text EXCEPT !.rest = TRUE] \in ProfileText
        /\ [fields.text EXCEPT !.rest = TRUE].rest = TRUE
    BY <1>1 DEF ProfileText
  <2>3. \A t \in ProfileText :
           /\ [fields EXCEPT !.text = t] \in FieldsState
           /\ [fields EXCEPT !.text = t].seen = fields.seen
           /\ [fields EXCEPT !.text = t].text = t
    BY <1>1 DEF FieldsState
  <2>4. /\ [fields EXCEPT !.company = TRUE] \in FieldsState
        /\ [fields EXCEPT !.company = TRUE].seen = fields.seen
        /\ [fields EXCEPT !.company = TRUE].text = fields.text
    BY <1>1 DEF FieldsState
  <2>5. fields' \in FieldsState /\ fields'.seen = fields.seen
        /\ (fields.text.rest => fields'.text.rest)
    BY <2>1, <2>2, <2>3, <2>4
  <2>. QED
    BY <1>3, <2>5, FormGains DEF TypeIn
<1>. QED
  BY <1>2, <1>3

LEMMA AssistantLoadedKeeps == ProfileInv /\ AssistantLoaded => ProfileInv'
<1>. SUFFICES ASSUME ProfileInv, AssistantLoaded PROVE ProfileInv'
  OBVIOUS
<1>1. PICK got \in {profile.text, EmptyText} :
         /\ fields' = [fields EXCEPT !.load = @ \ {"assistant"},
                         !.seen = @ \/ got = profile.text,
                         !.text = IF got.name THEN Taken(got) ELSE @]
         /\ write' = [write EXCEPT !.held = @ /\ ~got.name]
  BY DEF AssistantLoaded
<1>2. UNCHANGED <<screen, profile>>
  BY DEF AssistantLoaded
<1>3. /\ fields \in FieldsState /\ fields.text \in ProfileText /\ write \in WriteState
      /\ profile.text \in ProfileText /\ got \in ProfileText /\ got.name \in BOOLEAN
  BY ProfileTypes, TextsAreTyped DEF ProfileInv, ProfileText
<1>. DEFINE text == IF got.name THEN Taken(got) ELSE fields.text
<1>4. text \in ProfileText
  BY <1>3 DEF Taken, ProfileText
<1>5. (fields.seen \/ got = profile.text) \in BOOLEAN /\ (write.held /\ ~got.name) \in BOOLEAN
  OBVIOUS
<1>6. PICK seen \in BOOLEAN : /\ seen <=> (fields.seen \/ got = profile.text)
                              /\ fields' = [fields EXCEPT !.load = fields.load \ {"assistant"},
                                                          !.seen = seen, !.text = text]
  BY <1>1, <1>5
<1>7. PICK held \in BOOLEAN : /\ held <=> (write.held /\ ~got.name)
                              /\ write' = [write EXCEPT !.held = held]
  BY <1>1, <1>5
<1>. HIDE DEF text
<1>8. /\ fields' \in FieldsState /\ fields'.seen = seen /\ fields'.text = text
  BY <1>3, <1>4, <1>6 DEF FieldsState
<1>9. /\ write' \in WriteState /\ write'.held = held /\ write'.at = write.at
      /\ write'.by = write.by /\ write'.seen = write.seen /\ write'.text = write.text
  BY <1>3, <1>7 DEF WriteState
<1>10. ProfileTypeOK'
  BY <1>2, <1>8, <1>9 DEF ProfileInv, ProfileTypeOK, FieldsState, WriteState
<1>11. ASSUME screen = "settings", seen, profile.text.rest PROVE text.rest
  <2>1. CASE got.name
    <3>1. text = got /\ got = profile.text
      BY <1>11, <2>1, TextsAreTyped DEF text, Taken
    <3>. QED BY <1>11, <3>1
  <2>2. CASE ~got.name
    <3>1. text = fields.text
      BY <2>2 DEF text
    <3>2. got # profile.text
      BY <1>11, <2>2 DEF ProfileInv, SeenIsHad
    <3>3. fields.seen
      BY <1>6, <1>11, <3>2
    <3>. QED
      BY <1>11, <3>1, <3>3 DEF ProfileInv, SeenIsHad
  <2>. QED BY <2>1, <2>2
<1>12. ASSUME write.held, held, fields.text.rest PROVE text.rest
  <2>1. ~got.name
    BY <1>7, <1>12
  <2>. QED
    BY <1>12, <2>1 DEF text
<1>13. held => write.held
  BY <1>7
<1>14. SeenIsHad'
  BY <1>2, <1>8, <1>9, <1>11, <1>12, <1>13 DEF ProfileInv, SeenIsHad
<1>. QED
  BY <1>10, <1>14 DEF ProfileInv

-----------------------------------------------------------------------------
\* A step of the save that leaves the form and what is stored.
LEMMA WriteMoves ==
    ASSUME ProfileInv, UNCHANGED <<screen, fields, profile>>, write' \in WriteState,
           write'.text.rest => write'.text.name,
           \/ /\ write'.by = write.by /\ write'.text = write.text
              /\ write'.seen = write.seen /\ write'.held = write.held
              /\ write'.at = "assistant" /\ write'.by = "settings" => write.at = "assistant"
           \/ /\ write'.by = "settings" /\ screen = "settings"
              /\ write'.text = fields.text /\ write'.seen = fields.seen
           \/ write'.at # "assistant" /\ ~write'.held
           \/ write'.by = "onboarding" /\ (write'.held => screen = "onboarding")
    PROVE  ProfileInv'
<1>1. ProfileTypeOK'
  BY DEF ProfileInv, ProfileTypeOK, WriteState
<1>2. SeenIsHad'
  BY DEF ProfileInv, SeenIsHad
<1>. QED
  BY <1>1, <1>2 DEF ProfileInv

LEMMA PublishKeeps == ProfileInv /\ PublishFromOnboarding => ProfileInv'
<1>. SUFFICES ASSUME ProfileInv, PublishFromOnboarding PROVE ProfileInv'
  OBVIOUS
<1>. DEFINE text == [fields.text EXCEPT !.rest = FALSE]
<1>1. /\ write' = [at |-> "company", by |-> "onboarding", deploy |-> TRUE, seen |-> fields.seen,
                   held |-> TRUE, text |-> text]
      /\ screen = "onboarding" /\ UNCHANGED <<screen, fields, profile>>
  BY DEF PublishFromOnboarding
<1>2. text \in ProfileText /\ ~text.rest /\ fields.seen \in BOOLEAN
  BY ProfileTypes DEF ProfileInv, ProfileText
<1>. HIDE DEF text
<1>3. write' \in WriteState /\ write'.text = text /\ write'.by = "onboarding"
  BY <1>1, <1>2 DEF WriteState
<1>. QED
  BY <1>1, <1>2, <1>3, WriteMoves

LEMMA SavesKeep ==
    ASSUME ProfileInv, SaveCompany \/ \E deploy \in BOOLEAN : SaveAssistant(deploy)
    PROVE  ProfileInv'
<1>1. CASE SaveCompany
  <2>1. write' = [NoWrite EXCEPT !.at = "company", !.by = "settings"]
        /\ UNCHANGED <<screen, fields, profile>>
    BY <1>1 DEF SaveCompany
  <2>2. /\ write' \in WriteState /\ write'.at = "company" /\ ~write'.held /\ ~write'.text.rest
    BY <2>1, TextsAreTyped DEF WriteState, NoWrite
  <2>. QED
    BY <2>1, <2>2, WriteMoves
<1>2. ASSUME NEW deploy \in BOOLEAN, SaveAssistant(deploy) PROVE ProfileInv'
  <2>1. /\ screen = "settings" /\ fields.text.name
        /\ write' = [at |-> "assistant", by |-> "settings", deploy |-> deploy, seen |-> fields.seen,
                     held |-> TRUE, text |-> fields.text]
        /\ UNCHANGED <<screen, fields, profile>>
    BY <1>2 DEF SaveAssistant
  <2>2. fields.text \in ProfileText /\ fields.seen \in BOOLEAN
    BY ProfileTypes DEF ProfileInv
  <2>3. write' \in WriteState /\ write'.text = fields.text /\ write'.by = "settings"
        /\ write'.seen = fields.seen
    BY <2>1, <2>2 DEF WriteState
  <2>. QED
    BY <2>1, <2>3, WriteMoves
<1>. QED
  BY <1>1, <1>2

LEMMA WriteStages ==
    ASSUME ProfileInv, NEW at \in {"company-stored", "assistant", "assistant-stored"},
           write' = [write EXCEPT !.at = at]
    PROVE  /\ write' \in WriteState /\ write'.at = at /\ write'.by = write.by
           /\ write'.text = write.text /\ write'.seen = write.seen /\ write'.held = write.held
BY ProfileTypes DEF ProfileInv, WriteState

LEMMA CompanyWriteKeeps == ProfileInv /\ (WriteCompany \/ CompanyWritten) => ProfileInv'
<1>. SUFFICES ASSUME ProfileInv, WriteCompany \/ CompanyWritten PROVE ProfileInv'
  OBVIOUS
<1>1. CASE WriteCompany
  <2>1. /\ profile' = [profile EXCEPT !.company = TRUE]
        /\ write' = [write EXCEPT !.at = "company-stored"]
        /\ UNCHANGED <<screen, fields>>
    BY <1>1 DEF WriteCompany
  <2>2. profile' \in ProfileState /\ profile'.text = profile.text
    BY <2>1, ProfileTypes DEF ProfileInv, ProfileState
  <2>3. /\ write' \in WriteState /\ write'.at = "company-stored" /\ write'.by = write.by
        /\ write'.text = write.text /\ write'.seen = write.seen /\ write'.held = write.held
    BY <2>1, WriteStages
  <2>4. ProfileTypeOK'
    BY <2>1, <2>2, <2>3 DEF ProfileInv, ProfileTypeOK, ProfileState, WriteState
  <2>5. SeenIsHad'
    BY <2>1, <2>2, <2>3 DEF ProfileInv, SeenIsHad
  <2>. QED
    BY <2>4, <2>5 DEF ProfileInv
<1>2. CASE CompanyWritten
  <2>1. UNCHANGED <<screen, fields, profile>>
    BY <1>2 DEF CompanyWritten
  <2>2. CASE write.by = "settings"
    BY <1>2, <2>1, <2>2, WriteMoves, TextsAreTyped DEF CompanyWritten, NoWrite
  <2>3. CASE write.by # "settings"
    <3>1. write' = [write EXCEPT !.at = "assistant"]
      BY <1>2, <2>3 DEF CompanyWritten
    <3>2. /\ write' \in WriteState /\ write'.by = write.by /\ write'.text = write.text
          /\ write'.held = write.held
      BY <3>1, WriteStages
    <3>3. /\ write'.by = "onboarding" /\ (write'.text.rest => write'.text.name)
          /\ write'.held => screen = "onboarding"
      BY <2>3, <3>2, ProfileTypes DEF ProfileInv, WriteState, SeenIsHad
    <3>. QED
      BY <2>1, <3>2, <3>3, WriteMoves
  <2>. QED BY <2>2, <2>3
<1>. QED
  BY <1>1, <1>2

LEMMA FailsKeep == ProfileInv /\ WriteFails => ProfileInv'
BY WriteMoves, TextsAreTyped DEF WriteFails, NoWrite

LEMMA AssistantWrittenKeeps == ProfileInv /\ AssistantWritten => ProfileInv'
<1>. SUFFICES ASSUME ProfileInv, AssistantWritten PROVE ProfileInv'
  OBVIOUS
<1>1. /\ write' = NoWrite /\ profile' = profile
      /\ \/ screen' = "none" /\ fields' = EmptyFields
         \/ UNCHANGED <<screen, fields>>
  BY DEF AssistantWritten
<1>2. ProfileTypeOK'
  BY <1>1, TextsAreTyped DEF ProfileInv, ProfileTypeOK, FieldsState, WriteState
<1>3. SeenIsHad'
  BY <1>1, TextsAreTyped DEF ProfileInv, SeenIsHad, NoWrite
<1>. QED
  BY <1>2, <1>3 DEF ProfileInv

-----------------------------------------------------------------------------
LEMMA StoredText ==
    ASSUME ProfileInv, NEW text \in ProfileText, NEW deploy \in BOOLEAN, Stored(text, deploy)
    PROVE  profile' \in ProfileState /\ profile'.text = text
<1>1. PICK issued \in {text, profile.published} :
         profile' = [profile EXCEPT !.text = text, !.saves = profile.saves + 1,
                                    !.published = issued]
  BY DEF Stored
<1>2. profile \in ProfileState /\ profile.saves < MaxSaves
  BY ProfileTypes DEF ProfileInv, Stored
<1>3. profile.saves + 1 \in 0..MaxSaves /\ issued \in ProfileText
  BY <1>1, <1>2, ProfileAssumption DEF ProfileState
<1>. QED
  BY <1>1, <1>2, <1>3 DEF ProfileState

LEMMA WriteAssistantKeeps == ProfileInv /\ WriteAssistant => ProfileInv'
<1>. SUFFICES ASSUME ProfileInv, WriteAssistant PROVE ProfileInv'
  OBVIOUS
<1>1. /\ write.at = "assistant" /\ Stored(write.text, write.deploy)
      /\ write' = [write EXCEPT !.at = "assistant-stored"]
      /\ fields' = [fields EXCEPT !.seen = write.held] /\ screen' = screen
  BY DEF WriteAssistant
<1>2. write.text \in ProfileText /\ write.deploy \in BOOLEAN /\ write.held \in BOOLEAN
  BY ProfileTypes DEF ProfileInv, WriteState
<1>3. profile' \in ProfileState /\ profile'.text = write.text
  BY <1>1, <1>2, StoredText
<1>4. /\ write' \in WriteState /\ write'.at = "assistant-stored" /\ write'.by = write.by
      /\ write'.text = write.text /\ write'.seen = write.seen /\ write'.held = write.held
  BY <1>1, WriteStages
<1>5. fields' \in FieldsState /\ fields'.seen = write.held /\ fields'.text = fields.text
  BY <1>1, <1>2, ProfileTypes DEF ProfileInv, FieldsState
<1>6. ProfileTypeOK'
  BY <1>1, <1>3, <1>4, <1>5 DEF ProfileInv, ProfileTypeOK, FieldsState, WriteState, ProfileState
<1>7. SeenIsHad'
  BY <1>1, <1>3, <1>4, <1>5 DEF ProfileInv, SeenIsHad
<1>. QED
  BY <1>6, <1>7 DEF ProfileInv

LEMMA WebSavesKeeps ==
    ASSUME ProfileInv, NEW deploy \in BOOLEAN, WebSaves(deploy)
    PROVE  ProfileInv'
<1>1. /\ Stored(Full, deploy) /\ fields' = [fields EXCEPT !.seen = FALSE]
      /\ write' = [write EXCEPT !.seen = FALSE] /\ screen' = screen
  BY DEF WebSaves
<1>2. profile' \in ProfileState /\ profile'.text = Full
  BY <1>1, StoredText, TextsAreTyped
<1>3. /\ write' \in WriteState /\ write'.at = write.at /\ write'.by = write.by
      /\ write'.text = write.text /\ ~write'.seen /\ write'.held = write.held
  BY <1>1, ProfileTypes DEF ProfileInv, WriteState
<1>4. fields' \in FieldsState /\ ~fields'.seen /\ fields'.text = fields.text
  BY <1>1, ProfileTypes DEF ProfileInv, FieldsState
<1>5. ProfileTypeOK'
  BY <1>1, <1>2, <1>3, <1>4 DEF ProfileInv, ProfileTypeOK, FieldsState, WriteState, ProfileState
<1>6. SeenIsHad'
  BY <1>1, <1>2, <1>3, <1>4 DEF ProfileInv, SeenIsHad, Full
<1>. QED
  BY <1>5, <1>6 DEF ProfileInv

LEMMA ProfileInductive == ProfileInv /\ [ProfileNext]_profileVars => ProfileInv'
<1>. SUFFICES ASSUME ProfileInv, [ProfileNext]_profileVars PROVE ProfileInv'
  OBVIOUS
<1>1. CASE UNCHANGED profileVars
  <2>1. UNCHANGED <<screen, fields, write, profile>>
    BY <1>1 DEF profileVars
  <2>. QED
    BY <2>1 DEF ProfileInv, ProfileTypeOK, SeenIsHad
<1>. QED
  BY <1>1, OpenScreenKeeps, TypingKeeps, AssistantLoadedKeeps, PublishKeeps, SavesKeep,
     CompanyWriteKeeps, FailsKeep, AssistantWrittenKeeps, WriteAssistantKeeps, WebSavesKeeps
     DEF ProfileNext

LEMMA RestSurvivesStep ==
    ASSUME ProfileInv, [ProfileNext]_profileVars, profile.text.rest, ~profile'.text.rest
    PROVE  write.by = "onboarding" \/ ~write.seen
<1>1. CASE WriteAssistant
  <2>1. write.at = "assistant" /\ Stored(write.text, write.deploy)
    BY <1>1 DEF WriteAssistant
  <2>2. profile'.text = write.text
    BY <2>1, StoredText, ProfileTypes DEF ProfileInv, WriteState
  <2>3. write.by \in {"onboarding", "settings"}
    BY ProfileTypes DEF ProfileInv, WriteState
  <2>. QED
    BY <2>1, <2>2, <2>3 DEF ProfileInv, SeenIsHad
<1>2. ASSUME NEW deploy \in BOOLEAN, WebSaves(deploy) PROVE FALSE
  BY <1>2, StoredText, TextsAreTyped DEF WebSaves
<1>3. CASE WriteCompany
  BY <1>3, ProfileTypes DEF WriteCompany, ProfileInv, ProfileState
<1>4. CASE ~WriteAssistant /\ ~WriteCompany /\ ~\E deploy \in BOOLEAN : WebSaves(deploy)
  <2>1. profile' = profile
    BY <1>4 DEF ProfileNext, profileVars, OpenScreen, CompanyLoaded, AssistantLoaded, TypeIn,
       PublishFromOnboarding, SaveCompany, SaveAssistant, CompanyWritten, AssistantWritten,
       WriteFails
  <2>. QED BY <2>1
<1>. QED
  BY <1>1, <1>2, <1>3, <1>4

-----------------------------------------------------------------------------
(***************************************************************************)
(* The set-up of a voice session: whatever the proxy sends again and the   *)
(* owner publishes, a session has one agent that did not come from a       *)
(* failed try, and the tokens name it.                                     *)
(***************************************************************************)

(***************************************************************************)
(* What a try has done so far, by where it is.  The lock is what keeps the *)
(* row absent from the read to the commit.                                 *)
(***************************************************************************)
BeforeDispatch == {"none", "profile", "lock", "read", "dispatch"}

HasAgent(t) == \E v \in Versions : <<t, v>> \in agents

Progress(t) ==
    /\ t \notin proxy.sent => try[t].at = "none"
    /\ try[t].at \in {"lock", "token"} \cup Inside => try[t].profile \in Versions
    /\ try[t].at \in {"dispatch", "insert", "commit"} => sessionRow = Nothing
    /\ try[t].at \in {"insert", "commit"} => <<t, try[t].profile>> \in agents
    /\ try[t].at \in BeforeDispatch => ~HasAgent(t)

RecordedIsDispatched ==
    sessionRow # Nothing => <<sessionRow.agent, sessionRow.profile>> \in agents

TokenInv == /\ TokenTypeOK
            /\ \A t \in Tries : Progress(t)
            /\ RecordedIsDispatched
            /\ OnlyFailuresLeaveAgents
            /\ TokenNamesTheSession

LEMMA TokenInitial == TokenInit => TokenInv
<1>. SUFFICES ASSUME TokenInit PROVE TokenInv
  OBVIOUS
<1>1. \A t \in Tries : try[t] = [at |-> "none", profile |-> Nothing]
  BY DEF TokenInit
<1>2. TokenTypeOK
  BY <1>1, TokenAssumption DEF TokenInit, TokenTypeOK, Inside
<1>. QED
  BY <1>1, <1>2 DEF TokenInit, TokenInv, Progress, HasAgent, Inside, RecordedIsDispatched,
                    OnlyFailuresLeaveAgents, TokenNamesTheSession

-----------------------------------------------------------------------------
(***************************************************************************)
(* The steps of the proxy and the owner leave the session alone.           *)
(***************************************************************************)
LEMMA ProxySteps ==
    ASSUME TokenInv, NoAnswer \/ Answered \/ \E v \in Versions : PublishVersion(v)
    PROVE  TokenInv'
<1>1. UNCHANGED <<try, sessionRow, advisory, agents>> /\ proxy'.sent = proxy.sent
  BY DEF NoAnswer, Answered, PublishVersion, TokenInv, TokenTypeOK
<1>2. proxy' \in [sent : SUBSET Tries, waits : Tries \cup {Nothing},
                  answer : {"none", "token", "refused", "unavailable"}]
      /\ published' \in Versions
  BY DEF NoAnswer, Answered, PublishVersion, TokenInv, TokenTypeOK
<1>. QED
  BY <1>1, <1>2 DEF TokenInv, TokenTypeOK, Progress, HasAgent, RecordedIsDispatched,
                    OnlyFailuresLeaveAgents, TokenNamesTheSession

(***************************************************************************)
(* A step before the lock moves one try only, and not into the lock.       *)
(***************************************************************************)
LEMMA SendStep ==
    ASSUME TokenInv, NEW t \in Tries, Send(t)
    PROVE  TokenInv'
<1>1. /\ UNCHANGED <<sessionRow, advisory, agents, published>>
      /\ try' = [try EXCEPT ![t].at = "profile"] /\ try[t].at = "none"
      /\ proxy' = [proxy EXCEPT !.sent = @ \cup {t}, !.waits = t]
  BY DEF Send, TokenInv, Progress
<1>2. TokenTypeOK'
  BY <1>1 DEF TokenInv, TokenTypeOK, Inside
<1>3. \A u \in Tries : Progress(u)'
  BY <1>1 DEF TokenInv, TokenTypeOK, Progress, HasAgent, Inside, BeforeDispatch
<1>4. OnlyFailuresLeaveAgents' /\ TokenNamesTheSession'
  BY <1>1 DEF TokenInv, TokenTypeOK, OnlyFailuresLeaveAgents, TokenNamesTheSession
<1>. QED
  BY <1>1, <1>2, <1>3, <1>4 DEF TokenInv, RecordedIsDispatched

LEMMA ResolveStep ==
    ASSUME TokenInv, NEW t \in Tries, ResolveProfile(t)
    PROVE  TokenInv'
<1>1. /\ UNCHANGED <<proxy, sessionRow, advisory, agents, published>>
      /\ try' = [try EXCEPT ![t] = [at |-> "lock", profile |-> published]]
      /\ try[t].at = "profile"
  BY DEF ResolveProfile
<1>2. TokenTypeOK'
  BY <1>1 DEF TokenInv, TokenTypeOK, Inside
<1>3. \A u \in Tries : Progress(u)'
  BY <1>1 DEF TokenInv, TokenTypeOK, Progress, HasAgent, Inside, BeforeDispatch
<1>4. OnlyFailuresLeaveAgents' /\ TokenNamesTheSession'
  BY <1>1 DEF TokenInv, TokenTypeOK, OnlyFailuresLeaveAgents, TokenNamesTheSession
<1>. QED
  BY <1>1, <1>2, <1>3, <1>4 DEF TokenInv, RecordedIsDispatched

-----------------------------------------------------------------------------
(***************************************************************************)
(* A step within the transaction: only the holder of the lock takes one.   *)
(***************************************************************************)
LEMMA OneInside ==
    ASSUME TokenTypeOK, NEW t \in Tries, NEW u \in Tries,
           try[t].at \in Inside, try[u].at \in Inside
    PROVE  t = u
BY DEF TokenTypeOK

LEMMA LockStep ==
    ASSUME TokenInv, NEW t \in Tries, Lock(t)
    PROVE  TokenInv'
<1>1. /\ UNCHANGED <<proxy, sessionRow, agents, published>>
      /\ try' = [try EXCEPT ![t].at = "read"] /\ try[t].at = "lock"
      /\ advisory' = t /\ advisory = Nothing
  BY DEF Lock, NobodyInside
<1>2. \A u \in Tries : try[u].at \notin Inside
  BY <1>1, TokenAssumption DEF TokenInv, TokenTypeOK
<1>3. TokenTypeOK'
  BY <1>1, <1>2 DEF TokenInv, TokenTypeOK, Inside
<1>4. \A u \in Tries : Progress(u)'
  <2>. SUFFICES ASSUME NEW u \in Tries PROVE Progress(u)'
    OBVIOUS
  <2>1. Progress(u)
    BY DEF TokenInv
  <2>2. HasAgent(u)' <=> HasAgent(u)
    BY <1>1 DEF HasAgent
  <2>3. CASE u = t
    <3>1. try'[u].at = "read" /\ try'[u].profile = try[u].profile
      BY <1>1, <2>3 DEF TokenInv, TokenTypeOK
    <3>. QED
      BY <1>1, <2>1, <2>2, <2>3, <3>1 DEF Progress, Inside, BeforeDispatch
  <2>4. CASE u # t
    <3>1. try'[u] = try[u]
      BY <1>1, <2>4 DEF TokenInv, TokenTypeOK
    <3>2. UNCHANGED <<proxy, sessionRow, agents>>
      BY <1>1
    <3>. QED
      BY <2>1, <2>2, <3>1, <3>2 DEF Progress, Inside, BeforeDispatch
  <2>. QED
    BY <2>3, <2>4
<1>5. \A u \in Tries : /\ try'[u].at \in {"token", "failed"} <=> try[u].at \in {"token", "failed"}
                      /\ try'[u].at = "token" <=> try[u].at = "token"
                      /\ try'[u].profile = try[u].profile
  BY <1>1 DEF TokenInv, TokenTypeOK
<1>6. TokenNamesTheSession'
  BY <1>1, <1>5 DEF TokenInv, TokenNamesTheSession
<1>7. OnlyFailuresLeaveAgents'
  <2>1. ASSUME NEW a \in agents
        PROVE  a[1] \in Tries /\ a[1] # Nothing
    BY TokenAssumption DEF TokenInv, TokenTypeOK
  <2>2. ASSUME NEW a \in agents
        PROVE  \/ try'[a[1]].at = "failed"
               \/ sessionRow' # Nothing /\ sessionRow'.agent = a[1]
    BY <1>1, <2>1, <2>2 DEF TokenInv, TokenTypeOK, OnlyFailuresLeaveAgents
  <2>. QED
    BY <1>1, <2>2 DEF OnlyFailuresLeaveAgents
<1>. QED
  BY <1>1, <1>3, <1>4, <1>6, <1>7 DEF TokenInv, RecordedIsDispatched

LEMMA NoAgentYet ==
    ASSUME TokenInv, NEW t \in Tries, try[t].at \in BeforeDispatch, NEW a \in agents
    PROVE  a[1] # t
<1>1. a \in Tries \X Versions
  BY DEF TokenInv, TokenTypeOK
<1>2. a = <<a[1], a[2]>> /\ a[2] \in Versions
  BY <1>1
<1>3. ~HasAgent(t)
  BY DEF TokenInv, Progress
<1>. QED
  BY <1>2, <1>3 DEF HasAgent

LEMMA ReadStep ==
    ASSUME TokenInv, NEW t \in Tries, Read(t)
    PROVE  TokenInv'
<1>1. /\ UNCHANGED <<proxy, sessionRow, agents, published>>
      /\ try[t].at = "read" /\ advisory = t
  BY DEF Read, TokenInv, TokenTypeOK, Inside
<1>2. CASE sessionRow = Nothing
  <2>1. try' = [try EXCEPT ![t].at = "dispatch"] /\ UNCHANGED advisory
    BY <1>2 DEF Read
  <2>2. TokenTypeOK'
    BY <1>1, <2>1 DEF TokenInv, TokenTypeOK, Inside
  <2>3. \A u \in Tries : Progress(u)'
    BY <1>1, <1>2, <2>1 DEF TokenInv, TokenTypeOK, Progress, HasAgent, Inside, BeforeDispatch
  <2>4. OnlyFailuresLeaveAgents' /\ TokenNamesTheSession'
    BY <1>1, <2>1 DEF TokenInv, TokenTypeOK, OnlyFailuresLeaveAgents, TokenNamesTheSession
  <2>. QED
    BY <1>1, <2>2, <2>3, <2>4 DEF TokenInv, RecordedIsDispatched
<1>3. CASE sessionRow # Nothing
  <2>1. PICK at \in {"token", "conflict"} :
           /\ try' = [try EXCEPT ![t].at = at] /\ advisory' = Nothing
           /\ at = "token" => sessionRow.profile = try[t].profile
    BY <1>3 DEF Read, Ends, SameProfile
  <2>2. TokenTypeOK'
    BY <1>1, <2>1, TokenAssumption DEF TokenInv, TokenTypeOK, Inside
  <2>3. \A u \in Tries : Progress(u)'
    BY <1>1, <2>1 DEF TokenInv, TokenTypeOK, Progress, HasAgent, Inside, BeforeDispatch
  <2>4. OnlyFailuresLeaveAgents'
    <3>1. \A a \in agents : a[1] # t
      BY <1>1, NoAgentYet DEF BeforeDispatch
    <3>. QED
      BY <1>1, <2>1, <3>1 DEF TokenInv, TokenTypeOK, OnlyFailuresLeaveAgents
  <2>5. TokenNamesTheSession'
    BY <1>1, <1>3, <2>1 DEF TokenInv, TokenTypeOK, TokenNamesTheSession, RecordedIsDispatched
  <2>. QED
    BY <1>1, <2>2, <2>3, <2>4, <2>5 DEF TokenInv, RecordedIsDispatched
<1>. QED
  BY <1>2, <1>3

(***************************************************************************)
(* An agent dispatched before the answer is lost belongs to a failed try.  *)
(***************************************************************************)
LEMMA DispatchStep ==
    ASSUME TokenInv, NEW t \in Tries, Dispatch(t)
    PROVE  TokenInv'
<1>1. /\ UNCHANGED <<proxy, sessionRow, published>>
      /\ try[t].at = "dispatch" /\ advisory = t /\ sessionRow = Nothing
      /\ try[t].profile \in Versions
      /\ agents' = agents \cup {<<t, try[t].profile>>}
  BY DEF Dispatch, TokenInv, TokenTypeOK, Progress, Inside
<1>2. \/ try' = [try EXCEPT ![t].at = "insert"] /\ advisory' = t
      \/ try' = [try EXCEPT ![t].at = "failed"] /\ advisory' = Nothing
  BY <1>1 DEF Dispatch, Ends
<1>3. TokenTypeOK'
  <2>1. agents' \subseteq Tries \X Versions
    BY <1>1 DEF TokenInv, TokenTypeOK
  <2>. QED
    BY <1>1, <1>2, <2>1, TokenAssumption DEF TokenInv, TokenTypeOK, Inside
<1>4. \A u \in Tries : Progress(u)'
  <2>1. <<t, try[t].profile>> \in agents'
    BY <1>1
  <2>2. ASSUME NEW u \in Tries \ {t} PROVE HasAgent(u)' <=> HasAgent(u)
    BY <1>1 DEF HasAgent
  <2>3. Progress(t)'
    BY <1>1, <1>2, <2>1 DEF TokenInv, TokenTypeOK, Progress, Inside, BeforeDispatch
  <2>4. ASSUME NEW u \in Tries \ {t} PROVE Progress(u)'
    BY <1>1, <1>2, <2>2 DEF TokenInv, TokenTypeOK, Progress
  <2>. QED
    BY <2>3, <2>4
<1>5. OnlyFailuresLeaveAgents'
  <2>1. ASSUME NEW a \in agents', a[1] # t PROVE a \in agents
    BY <1>1, <2>1
  <2>2. ASSUME NEW a \in agents
        PROVE  \/ a[1] = t \/ try[a[1]].at = "failed"
    BY <1>1 DEF TokenInv, OnlyFailuresLeaveAgents
  <2>3. \A u \in Tries : try[u].at = "failed" => try'[u].at = "failed"
    BY <1>1, <1>2 DEF TokenInv, TokenTypeOK
  <2>4. advisory' = t \/ try'[t].at = "failed"
    BY <1>2 DEF TokenInv, TokenTypeOK
  <2>5. \A a \in agents : a[1] \in Tries
    BY DEF TokenInv, TokenTypeOK
  <2>. QED
    BY <2>1, <2>2, <2>3, <2>4, <2>5 DEF OnlyFailuresLeaveAgents
<1>6. TokenNamesTheSession'
  BY <1>1, <1>2 DEF TokenInv, TokenTypeOK, TokenNamesTheSession
<1>. QED
  BY <1>1, <1>3, <1>4, <1>5, <1>6 DEF TokenInv, RecordedIsDispatched

LEMMA InsertStep ==
    ASSUME TokenInv, NEW t \in Tries, Insert(t)
    PROVE  TokenInv'
<1>1. /\ UNCHANGED <<proxy, sessionRow, advisory, agents, published>>
      /\ try' = [try EXCEPT ![t].at = "commit"] /\ try[t].at = "insert" /\ advisory = t
  BY DEF Insert, TokenInv, TokenTypeOK, Inside
<1>2. TokenTypeOK'
  BY <1>1 DEF TokenInv, TokenTypeOK, Inside
<1>3. \A u \in Tries : Progress(u)'
  BY <1>1 DEF TokenInv, TokenTypeOK, Progress, HasAgent, Inside, BeforeDispatch
<1>4. OnlyFailuresLeaveAgents' /\ TokenNamesTheSession'
  BY <1>1 DEF TokenInv, TokenTypeOK, OnlyFailuresLeaveAgents, TokenNamesTheSession
<1>. QED
  BY <1>1, <1>2, <1>3, <1>4 DEF TokenInv, RecordedIsDispatched

(***************************************************************************)
(* The commit records the agent of the try that holds the lock; whether    *)
(* its acknowledgement arrives or not, the record is there.                *)
(***************************************************************************)
LEMMA CommitStep ==
    ASSUME TokenInv, NEW t \in Tries, Commit(t)
    PROVE  TokenInv'
<1>1. /\ UNCHANGED <<proxy, agents, published>>
      /\ try[t].at = "commit" /\ advisory = t /\ sessionRow = Nothing
      /\ try[t].profile \in Versions /\ <<t, try[t].profile>> \in agents
      /\ sessionRow' = [agent |-> t, profile |-> try[t].profile]
  BY DEF Commit, TokenInv, TokenTypeOK, Progress, Inside
<1>2. PICK at \in {"token", "failed"} :
         try' = [try EXCEPT ![t].at = at] /\ advisory' = Nothing
  BY DEF Commit, Ends
<1>3. sessionRow' \in Session /\ sessionRow' # Nothing
  BY <1>1, TokenAssumption DEF Session
<1>4. TokenTypeOK'
  BY <1>1, <1>2, <1>3, TokenAssumption DEF TokenInv, TokenTypeOK, Inside
<1>5. \A u \in Tries \ {t} : try[u].at \notin Inside
  BY <1>1, OneInside DEF TokenInv, Inside
<1>6. \A u \in Tries : Progress(u)'
  BY <1>1, <1>2, <1>5 DEF TokenInv, TokenTypeOK, Progress, HasAgent, Inside, BeforeDispatch
<1>7. OnlyFailuresLeaveAgents'
  BY <1>1, <1>2, <1>3 DEF TokenInv, TokenTypeOK, OnlyFailuresLeaveAgents
<1>8. TokenNamesTheSession'
  BY <1>1, <1>2, <1>3 DEF TokenInv, TokenTypeOK, TokenNamesTheSession
<1>. QED
  BY <1>1, <1>3, <1>4, <1>6, <1>7, <1>8 DEF TokenInv, RecordedIsDispatched

LEMMA FailStep ==
    ASSUME TokenInv, NEW t \in Tries, Fails(t)
    PROVE  TokenInv'
<1>1. /\ UNCHANGED <<proxy, sessionRow, agents, published>>
      /\ try' = [try EXCEPT ![t].at = "failed"]
      /\ try[t].at \in {"profile", "lock"} \cup Inside
      /\ advisory' = IF advisory = t THEN Nothing ELSE advisory
  BY DEF Fails
<1>2. TokenTypeOK'
  BY <1>1, TokenAssumption DEF TokenInv, TokenTypeOK, Inside
<1>3. \A u \in Tries : Progress(u)'
  BY <1>1 DEF TokenInv, TokenTypeOK, Progress, HasAgent, Inside, BeforeDispatch
<1>4. OnlyFailuresLeaveAgents' /\ TokenNamesTheSession'
  BY <1>1 DEF TokenInv, TokenTypeOK, OnlyFailuresLeaveAgents, TokenNamesTheSession
<1>. QED
  BY <1>1, <1>2, <1>3, <1>4 DEF TokenInv, RecordedIsDispatched

-----------------------------------------------------------------------------
LEMMA TokenInductive == TokenInv /\ [TokenNext]_tokenVars => TokenInv'
<1>. SUFFICES ASSUME TokenInv, [TokenNext]_tokenVars PROVE TokenInv'
  OBVIOUS
<1>1. CASE UNCHANGED tokenVars
  BY <1>1 DEF tokenVars, TokenInv, TokenTypeOK, Progress, HasAgent, RecordedIsDispatched,
              OnlyFailuresLeaveAgents, TokenNamesTheSession
<1>2. ASSUME NEW t \in Tries, Handler(t) PROVE TokenInv'
  BY <1>2, ResolveStep, LockStep, ReadStep, DispatchStep, InsertStep, CommitStep, FailStep
     DEF Handler
<1>. QED
  BY <1>1, <1>2, ProxySteps, SendStep DEF TokenNext

-----------------------------------------------------------------------------
(***************************************************************************)
(* The call screen of the phone.                                           *)
(***************************************************************************)

(***************************************************************************)
(* What one mount is in at every moment, whoever closed the screen and     *)
(* whatever is in flight.  A mount that has gone astray keeps its own      *)
(* room, but what it shows and what its user pressed are not followed.     *)
(***************************************************************************)
MountOf(s) ==
    /\ s.view = "unopened" => s = Untouched
    /\ s.view = "closed" => s.stale
    /\ s.view = "closed" /\ ~s.astray
           => s.wish = "on" /\ s.lost = <<>> /\ s.asks = <<>> /\ s.mic = "off"
    /\ s.flight # "idle" /\ ~s.stale => s.view = "open"
    /\ s.view = "open" /\ s.ending = "idle" => ~s.stale

RoomOf(s) ==
    /\ s.room = "none" => s.asks = <<>> /\ s.mic = "off" /\ s.ahead = 0
    /\ s.room # "none" => s.ref = "own" \/ s.astray
    /\ s.ref = "own" /\ ~s.stale => s.room # "none"
    /\ s.room = "live" => s.flight \in {"mic", "idle"}
    /\ s.room = "live" /\ ~s.astray => ~s.stale /\ s.view = "open"
    /\ s.room = "connecting" => s.flight = "connect" /\ s.mic = "off"
    /\ s.flight # "mic" => s.ahead = 0
    /\ s.flight = "mic" => s.ahead <= Len(s.asks)

IsShowing(s) == /\ s.view = "open" /\ s.ending = "idle"
                /\ s.drops = 0 /\ s.stops = 0 /\ ~s.overrun /\ ~s.astray

ShownOf(s) ==
    /\ s.view = "open" /\ ~s.stale /\ s.flight \in {"token", "audio", "output"}
           => s.status = "connecting" \/ s.ending # "idle" \/ s.overrun
    /\ IsShowing(s) => (s.status \in Active \ {"connecting"} => s.room # "none")
    /\ IsShowing(s) => (s.status \notin Active => s.room = "none")

\* the calls to the microphone alternate, and the last is for what is shown
AsksOf(s) ==
    ~s.crossed /\ ~s.astray =>
        /\ \A i \in 1..(Len(s.asks) - 1) : s.asks[i + 1] # s.asks[i]
        /\ s.asks # <<>> => s.asks[Len(s.asks)] = s.wish
        /\ s.flight = "mic" /\ s.ahead = Len(s.asks) /\ s.room = "live" => s.first = s.wish
        /\ s.flight = "mic" /\ s.ahead < Len(s.asks) => s.asks[s.ahead + 1] # s.first
        /\ s.asks # <<>> /\ (s.flight = "mic" => s.ahead > 0) => ~(s.mic = "on" /\ s.asks[1] = "on")
        /\ s.asks = <<>> /\ s.flight # "mic" => ~(s.wish = "off" /\ s.mic = "on")

\* the call that the audio session is on for
HasAudio(s) == /\ s.view = "open" /\ ~s.stale /\ ~s.overrun /\ ~s.astray
               /\ s.flight = "output" \/ s.room # "none"

Sound(s) == MountOf(s) /\ RoomOf(s) /\ ShownOf(s) /\ AsksOf(s)
Bounded(s) == Len(s.asks) + Len(s.lost) <= MaxToggles

VoiceInv ==
    /\ VoiceTypeOK
    /\ \A m \in Mounts : Sound(call[m])
    /\ \A m, n \in Mounts : call[m].view = "open" /\ call[n].view = "open" => m = n
    /\ \A m \in Mounts : HasAudio(call[m]) => audio = "on"
    /\ audio = "on" => \E m \in Mounts : call[m].view = "open"

-----------------------------------------------------------------------------
LEMMA Untouching == Untouched \in Call /\ Sound(Untouched) /\ Bounded(Untouched) /\ ~HasAudio(Untouched)
<1>1. Len(<<>>) = 0 /\ <<>> \in Seq(Switch)
  OBVIOUS
<1>2. Untouched \in Call
  BY <1>1 DEF Untouched, Call, Switch
<1>3. Sound(Untouched)
  BY <1>1 DEF Untouched, Sound, MountOf, RoomOf, ShownOf, AsksOf, IsShowing
<1>. QED
  BY <1>1, <1>2, <1>3, VoiceAssumption DEF Bounded, Untouched, HasAudio

LEMMA VoiceInitial == VoiceInit => VoiceInv
<1>. SUFFICES ASSUME VoiceInit PROVE VoiceInv
  OBVIOUS
<1>1. \A m \in Mounts : call[m] = Untouched
  BY DEF VoiceInit
<1>2. call \in [Mounts -> Call]
  BY Untouching DEF VoiceInit
<1>3. \A m \in Mounts : Sound(call[m]) /\ Bounded(call[m]) /\ ~HasAudio(call[m])
  BY <1>1, Untouching
<1>4. \A m \in Mounts : call[m].view # "open"
  BY <1>1 DEF Untouched
<1>. QED
  BY <1>2, <1>3, <1>4 DEF VoiceInv, VoiceTypeOK, VoiceInit, Bounded

(***************************************************************************)
(* A step of one mount that opens and closes nothing.                      *)
(***************************************************************************)
LEMMA MountMoves ==
    ASSUME VoiceInv, NEW m \in Mounts, NEW s \in Call, Becomes(m, s),
           Sound(s), Bounded(s),
           s.view = "open" <=> call[m].view = "open",
           audio' \in {"off", "on", "stray"},
           HasAudio(s) => audio' = "on",
           audio = "on" => audio' = "on" \/ call[m].view = "open",
           audio' = "on" => audio = "on" \/ call[m].view = "open"
    PROVE  VoiceInv'
<1>1. call \in [Mounts -> Call] /\ call' = [call EXCEPT ![m] = s]
  BY DEF VoiceInv, VoiceTypeOK, Becomes
<1>2. \A n \in Mounts : call'[n] = IF n = m THEN s ELSE call[n]
  BY <1>1
<1>3. VoiceTypeOK'
  <2>1. \A n \in Mounts : Len(call'[n].asks) + Len(call'[n].lost) <= MaxToggles
    BY <1>2 DEF VoiceInv, VoiceTypeOK, Bounded
  <2>. QED
    BY <1>1, <2>1 DEF VoiceTypeOK
<1>4. \A n \in Mounts : Sound(call'[n])
  BY <1>2 DEF VoiceInv
<1>5. \A n \in Mounts : call'[n].view = "open" <=> call[n].view = "open"
  BY <1>2
<1>6. \A n \in Mounts : HasAudio(call'[n]) => audio' = "on"
  <2>. SUFFICES ASSUME NEW n \in Mounts, HasAudio(call'[n]), n # m PROVE audio' = "on"
    BY <1>2
  <2>1. HasAudio(call[n]) /\ call[n].view = "open"
    BY <1>2 DEF HasAudio
  <2>. QED
    BY <2>1 DEF VoiceInv
<1>7. audio' = "on" => \E n \in Mounts : call'[n].view = "open"
  BY <1>5 DEF VoiceInv
<1>8. \A n, k \in Mounts : call'[n].view = "open" /\ call'[k].view = "open" => n = k
  BY <1>5 DEF VoiceInv
<1>9. \A n \in Mounts : Sound(call[n])'
  BY <1>4 DEF Sound, MountOf, RoomOf, ShownOf, AsksOf, IsShowing
<1>10. \A n \in Mounts : HasAudio(call[n])' => audio' = "on"
  BY <1>6 DEF HasAudio
<1>. QED
  BY <1>3, <1>7, <1>8, <1>9, <1>10 DEF VoiceInv

LEMMA OfMount ==
    ASSUME VoiceInv, NEW m \in Mounts
    PROVE  /\ call[m] \in Call /\ Sound(call[m]) /\ Bounded(call[m])
           /\ HasAudio(call[m]) => audio = "on"
           /\ audio \in {"off", "on", "stray"}
BY DEF VoiceInv, VoiceTypeOK, Bounded

(***************************************************************************)
(* The calls to the microphone are left as they are.                       *)
(***************************************************************************)
LEMMA SameAsks ==
    ASSUME NEW s \in Call, NEW t \in Call, AsksOf(s),
           t.asks = s.asks, t.wish = s.wish, t.ahead = s.ahead, t.first = s.first,
           t.mic = s.mic, t.crossed = s.crossed, t.astray = s.astray, t.room = s.room,
           t.flight = "mic" <=> s.flight = "mic"
    PROVE  AsksOf(t)
BY DEF AsksOf

LEMMA NoAsks ==
    ASSUME NEW t \in Call, t.asks = <<>>, t.mic = "off", t.room # "live", t.ahead = 0
    PROVE  AsksOf(t)
BY DEF AsksOf

(***************************************************************************)
(* A room that is left has no microphone, and what it was asked is lost.   *)
(***************************************************************************)
LEMMA LeavingRooms ==
    ASSUME NEW s \in Call, Bounded(s)
    PROVE  LET t == Roomless(s) IN
           /\ t \in Call /\ Bounded(t) /\ AsksOf(t)
           /\ t = [s EXCEPT !.room = "none", !.mic = "off", !.heard = FALSE,
                       !.asks = <<>>, !.ahead = 0, !.lost = t.lost]
           /\ t.view = s.view
<1>. DEFINE t == Roomless(s)
<1>1. s.asks \in Seq(Switch) /\ s.lost \in Seq(Switch) /\ <<>> \in Seq(Switch) /\ Len(<<>>) = 0
  BY DEF Call
<1>2. s.lost \o s.asks \in Seq(Switch) /\ Len(s.lost \o s.asks) = Len(s.lost) + Len(s.asks)
  BY <1>1
<1>3. t.lost = s.lost \o s.asks /\ t.asks = <<>> /\ t.mic = "off" /\ t.room = "none"
      /\ t.ahead = 0 /\ t.view = s.view
  BY DEF Roomless, Call
<1>4. t \in Call
  <2>. DEFINE l == s.lost \o s.asks
  <2>1. t = [s EXCEPT !.room = "none", !.mic = "off", !.heard = FALSE,
                      !.asks = <<>>, !.ahead = 0, !.lost = l]
    BY DEF Roomless
  <2>. HIDE DEF l, t
  <2>2. l \in Seq(Switch) /\ <<>> \in Seq(Switch) /\ 0 \in Nat /\ "off" \in Switch
    BY <1>1, <1>2 DEF l, Switch
  <2>. QED
    BY <2>1, <2>2 DEF Call
<1>5. Bounded(t)
  <2>1. Len(t.asks) = 0 /\ Len(t.lost) = Len(s.lost) + Len(s.asks)
    BY <1>1, <1>2, <1>3
  <2>2. Len(s.lost) \in Nat /\ Len(s.asks) \in Nat /\ MaxToggles \in Nat
    BY <1>1, VoiceAssumption
  <2>. HIDE DEF t
  <2>3. \A a, b \in Nat : 0 + (b + a) = a + b
    OBVIOUS
  <2>4. Len(t.asks) + Len(t.lost) = Len(s.asks) + Len(s.lost)
    BY <2>1, <2>2, <2>3, Zenon
  <2>. QED
    BY <2>4 DEF Bounded
<1>6. AsksOf(t)
  <2>. HIDE DEF t
  <2>1. t.room # "live"
    BY <1>3
  <2>. QED
    BY <1>3, <1>4, <2>1, NoAsks
<1>7. t = [s EXCEPT !.room = "none", !.mic = "off", !.heard = FALSE,
                       !.asks = <<>>, !.ahead = 0, !.lost = t.lost]
  BY <1>3 DEF Roomless
<1>. QED
  BY <1>3, <1>4, <1>5, <1>6, <1>7

-----------------------------------------------------------------------------
(***************************************************************************)
(* Starting a call.                                                        *)
(***************************************************************************)
LEMMA OpenStep ==
    ASSUME VoiceInv, NEW m \in Mounts, Open(m)
    PROVE  VoiceInv'
<1>. DEFINE t == [Begun(call[m]) EXCEPT !.view = "open"]
<1>1. /\ call[m] = Untouched /\ \A n \in Mounts : call[n].view # "open"
      /\ Becomes(m, t) /\ audio' = audio
  BY DEF Open, Quiet, VoiceInv, Sound, MountOf
<1>2. t = [Untouched EXCEPT !.flight = "token", !.stale = FALSE, !.status = "connecting",
                            !.overrun = FALSE, !.older = "none", !.view = "open"]
  BY <1>1 DEF Begun, Untouched
<1>. HIDE DEF t
<1>3. t \in Call /\ Bounded(t) /\ t.view = "open" /\ ~HasAudio(t)
  BY <1>2, Untouching DEF Call, Bounded, HasAudio, Untouched, Active
<1>4. Sound(t)
  <2>1. AsksOf(t)
    BY <1>2, <1>3, NoAsks DEF Untouched
  <2>. QED
    BY <1>2, <2>1 DEF Untouched, Sound, MountOf, RoomOf, ShownOf, IsShowing, Active
<1>5. call \in [Mounts -> Call] /\ call' = [call EXCEPT ![m] = t]
  BY <1>1 DEF VoiceInv, VoiceTypeOK, Becomes
<1>6. \A n \in Mounts : call'[n] = IF n = m THEN t ELSE call[n]
  BY <1>5
<1>7. VoiceTypeOK'
  <2>1. \A n \in Mounts : Len(call'[n].asks) + Len(call'[n].lost) <= MaxToggles
    BY <1>3, <1>6 DEF VoiceInv, VoiceTypeOK, Bounded
  <2>. QED
    BY <1>1, <1>3, <1>5, <2>1 DEF VoiceTypeOK, VoiceInv
<1>8. \A n \in Mounts : Sound(call'[n])
  BY <1>4, <1>6 DEF VoiceInv
<1>9. \A n \in Mounts : Sound(call[n])'
  BY <1>8 DEF Sound, MountOf, RoomOf, ShownOf, AsksOf, IsShowing
<1>10. \A n \in Mounts : ~HasAudio(call'[n])
  BY <1>1, <1>3, <1>6 DEF HasAudio
<1>11. \A n \in Mounts : HasAudio(call[n])' => audio' = "on"
  BY <1>10 DEF HasAudio
<1>12. audio' # "on"
  BY <1>1 DEF VoiceInv
<1>13. \A n, k \in Mounts : call'[n].view = "open" /\ call'[k].view = "open" => n = k
  BY <1>1, <1>6
<1>. QED
  BY <1>7, <1>9, <1>11, <1>12, <1>13 DEF VoiceInv

LEMMA StartStep ==
    ASSUME VoiceInv, NEW m \in Mounts, StartCall(m)
    PROVE  VoiceInv'
<1>. DEFINE s == call[m]
            t == Begun(s)
<1>1. /\ s.view = "open" /\ s.status \notin Active /\ s.ref = "none" /\ s.room = "none"
      /\ Becomes(m, t) /\ audio' = audio
  BY DEF StartCall, Followed, Quiet
<1>2. s \in Call /\ Sound(s) /\ Bounded(s) /\ audio \in {"off", "on", "stray"}
  BY OfMount
<1>3. PICK older \in {s.older, "audio", "output"} :
         t = [s EXCEPT !.flight = "token", !.stale = FALSE, !.status = "connecting",
                       !.overrun = FALSE, !.older = older]
  BY DEF Begun
<1>4. older \in {"none", "audio", "output", "connect"}
  BY <1>2 DEF Call
<1>. HIDE DEF s, t
<1>5. t \in Call /\ Bounded(t) /\ t.view = "open" /\ ~HasAudio(t)
  BY <1>1, <1>2, <1>3, <1>4 DEF Call, Bounded, HasAudio, Active
<1>6. AsksOf(t)
  <2>1. s.asks = <<>> /\ s.mic = "off" /\ s.ahead = 0
    BY <1>1, <1>2 DEF Sound, RoomOf
  <2>2. t.asks = <<>> /\ t.mic = "off" /\ t.room # "live" /\ t.ahead = 0
    BY <1>1, <1>2, <1>3, <2>1 DEF Call
  <2>. QED
    BY <1>5, <2>2, NoAsks
<1>7. Sound(t)
  BY <1>1, <1>2, <1>3, <1>4, <1>6 DEF Call, Sound, MountOf, RoomOf, ShownOf, IsShowing, Active
<1>8. s.view = "open" <=> t.view = "open"
  BY <1>1, <1>5
<1>. QED
  BY <1>1, <1>2, <1>5, <1>7, <1>8, MountMoves DEF s

(***************************************************************************)
(* An await of the attempt comes back.                                     *)
(***************************************************************************)
LEMMA TokenStep ==
    ASSUME VoiceInv, NEW m \in Mounts, TokenFetched(m)
    PROVE  VoiceInv'
<1>. DEFINE s == call[m]
<1>1. PICK to \in {"idle", "audio"} :
         /\ s.flight = "token" /\ to = (IF s.stale THEN "idle" ELSE "audio")
         /\ Becomes(m, [s EXCEPT !.flight = to]) /\ audio' = audio
  BY DEF TokenFetched, Quiet
<1>. DEFINE t == [s EXCEPT !.flight = to]
<1>2. s \in Call /\ Sound(s) /\ Bounded(s) /\ audio \in {"off", "on", "stray"}
      /\ (HasAudio(s) => audio = "on")
  BY OfMount
<1>. HIDE DEF s
<1>3. t \in Call /\ Bounded(t)
  BY <1>2 DEF Call, Bounded
<1>4. t.view = s.view
  BY <1>2 DEF Call
<1>5. HasAudio(t) => HasAudio(s)
  BY <1>1, <1>2 DEF Call, HasAudio
<1>6. AsksOf(t)
  BY <1>1, <1>2, <1>3, SameAsks DEF Call, Sound
<1>7. Sound(t)
  BY <1>1, <1>2, <1>3, <1>6 DEF Call, Sound, MountOf, RoomOf, ShownOf, IsShowing, Untouched
<1>. HIDE DEF t
<1>8. Becomes(m, t)
  BY <1>1 DEF t
<1>. QED
  BY <1>1, <1>2, <1>3, <1>4, <1>5, <1>7, <1>8, MountMoves DEF s

LEMMA AudioStep ==
    ASSUME VoiceInv, NEW m \in Mounts, AudioStarted(m)
    PROVE  VoiceInv'
<1>. DEFINE s == call[m]
            t == [s EXCEPT !.flight = "output"]
<1>1. /\ s.flight = "audio" /\ Becomes(m, t)
      /\ audio' = IF s.stale /\ audio = "off" THEN "stray"
                  ELSE IF s.stale THEN audio ELSE "on"
  BY DEF AudioStarted, AudioOn
<1>2. s \in Call /\ Sound(s) /\ Bounded(s) /\ audio \in {"off", "on", "stray"}
      /\ (HasAudio(s) => audio = "on")
  BY OfMount
<1>. HIDE DEF s
<1>3. t \in Call /\ Bounded(t)
  BY <1>2 DEF Call, Bounded
<1>4. t.view = s.view
  BY <1>2 DEF Call
<1>5. AsksOf(t)
  BY <1>1, <1>2, <1>3, SameAsks DEF Call, Sound
<1>6. Sound(t)
  BY <1>1, <1>2, <1>3, <1>5 DEF Call, Sound, MountOf, RoomOf, ShownOf, IsShowing, Untouched
<1>7. HasAudio(t) => ~s.stale
  BY <1>2 DEF HasAudio, Call
<1>8. ~s.stale => s.view = "open"
  BY <1>1, <1>2 DEF Sound, MountOf
<1>. HIDE DEF t
<1>9. HasAudio(t) => audio' = "on"
  BY <1>1, <1>7
<1>10. /\ audio' \in {"off", "on", "stray"}
       /\ audio = "on" => audio' = "on"
       /\ audio' = "on" => audio = "on" \/ s.view = "open"
  BY <1>1, <1>2, <1>8
<1>. QED
  BY <1>1, <1>2, <1>3, <1>4, <1>6, <1>9, <1>10, MountMoves DEF s

LEMMA MadeStep ==
    ASSUME VoiceInv, NEW m \in Mounts, RoomMade(m)
    PROVE  VoiceInv'
<1>. DEFINE s == call[m]
            t == [s EXCEPT !.flight = "connect", !.room = "connecting", !.ref = "own"]
<1>1. s.flight = "output" /\ Becomes(m, t) /\ audio' = audio
  BY DEF RoomMade, Quiet
<1>2. s \in Call /\ Sound(s) /\ Bounded(s) /\ audio \in {"off", "on", "stray"}
      /\ (HasAudio(s) => audio = "on")
  BY OfMount
<1>. HIDE DEF s
<1>3. t \in Call /\ Bounded(t)
  BY <1>2 DEF Call, Bounded
<1>4. t.view = s.view
  BY <1>2 DEF Call
<1>5. s.room = "none"
  BY <1>1, <1>2 DEF Sound, RoomOf, Call
<1>6. AsksOf(t)
  BY <1>2, <1>3, <1>5, NoAsks DEF Call, Sound, RoomOf
<1>7. Sound(t)
  BY <1>1, <1>2, <1>3, <1>5, <1>6 DEF Call, Sound, MountOf, RoomOf, ShownOf, IsShowing, Untouched, Active
<1>8. HasAudio(t) => HasAudio(s)
  BY <1>1, <1>2 DEF Call, HasAudio
<1>. HIDE DEF t
<1>. QED
  BY <1>1, <1>2, <1>3, <1>4, <1>7, <1>8, MountMoves DEF s

\* A room that is left when it has connected or failed, for an attempt that is
\* not the latest any more.
LEMMA RoomGone ==
    ASSUME VoiceInv, NEW m \in Mounts, ~IsCurrent(m), call[m].flight # "idle",
           call[m].stale \/ call[m].room # "none",
           Becomes(m, [Roomless(call[m]) EXCEPT !.flight = "idle"]), audio' = audio
    PROVE  VoiceInv'
<1>. DEFINE s == call[m]
            r == Roomless(s)
            t == [r EXCEPT !.flight = "idle"]
<1>1. s \in Call /\ Sound(s) /\ Bounded(s) /\ audio \in {"off", "on", "stray"}
  BY OfMount
<1>2. s.stale \/ (s.astray /\ s.ref # "own")
  BY <1>1 DEF IsCurrent, Sound, RoomOf
<1>3. s.view # "unopened" /\ Becomes(m, t)
  BY <1>1 DEF Sound, MountOf, Untouched
<1>. HIDE DEF s
<1>4. /\ r \in Call /\ Bounded(r) /\ AsksOf(r) /\ r.view = s.view
      /\ r = [s EXCEPT !.room = "none", !.mic = "off", !.heard = FALSE,
                       !.asks = <<>>, !.ahead = 0, !.lost = r.lost]
      /\ r.lost = s.lost \o s.asks
  <2>1. r.lost = s.lost \o s.asks
    BY <1>1 DEF Roomless, Call
  <2>. HIDE DEF r
  <2>. QED
    BY <1>1, <2>1, LeavingRooms DEF r
<1>. HIDE DEF r
<1>5. r.asks = <<>> /\ r.mic = "off" /\ r.room = "none" /\ r.ahead = 0 /\ r.stale = s.stale
      /\ r.ref = s.ref /\ r.ending = s.ending /\ r.wish = s.wish /\ r.astray = s.astray
  BY <1>1, <1>4 DEF Call
<1>6. /\ t \in Call /\ t.view = r.view /\ t.asks = r.asks /\ t.lost = r.lost /\ t.mic = r.mic
      /\ t.room = r.room /\ t.ahead = r.ahead /\ t.flight = "idle" /\ t.stale = r.stale
      /\ t.ref = r.ref /\ t.ending = r.ending /\ t.wish = r.wish /\ t.astray = r.astray
  BY <1>4 DEF Call
<1>. HIDE DEF t
<1>7. Bounded(t)
  BY <1>4, <1>6 DEF Bounded
<1>8. AsksOf(t)
  BY <1>5, <1>6, NoAsks
<1>9. s.view = "closed" /\ ~s.astray => t.lost = <<>>
  BY <1>1, <1>4, <1>6 DEF Sound, MountOf
<1>10. MountOf(t)
  BY <1>1, <1>3, <1>4, <1>5, <1>6, <1>9 DEF Sound, MountOf
<1>11. RoomOf(t)
  BY <1>2, <1>5, <1>6 DEF RoomOf
<1>12. ShownOf(t)
  BY <1>1, <1>2, <1>4, <1>5, <1>6 DEF Sound, MountOf, ShownOf, IsShowing
<1>13. Sound(t) /\ ~HasAudio(t)
  BY <1>5, <1>6, <1>8, <1>10, <1>11, <1>12 DEF Sound, HasAudio
<1>14. t.view = call[m].view
  BY <1>4, <1>6 DEF s
<1>. QED
  BY <1>1, <1>3, <1>6, <1>7, <1>13, <1>14, MountMoves

LEMMA ConnectedStep ==
    ASSUME VoiceInv, NEW m \in Mounts, RoomConnected(m)
    PROVE  VoiceInv'
<1>. DEFINE s == call[m]
<1>1. s.flight = "connect" /\ s.room = "connecting" /\ audio' = audio
  BY DEF RoomConnected, Quiet
<1>2. s \in Call /\ Sound(s) /\ Bounded(s) /\ audio \in {"off", "on", "stray"}
      /\ (HasAudio(s) => audio = "on")
  BY OfMount
<1>3. CASE ~StillWanted(m)
  <2>1. ~IsCurrent(m) /\ s.flight # "idle" /\ s.room # "none"
    BY <1>1, <1>3 DEF StillWanted
  <2>. QED
    BY <1>1, <1>3, <2>1, RoomGone DEF RoomConnected
<1>4. CASE StillWanted(m)
  <2>1. PICK to \in {"connected", "waiting_for_agent"} :
           Becomes(m, [s EXCEPT !.flight = "mic", !.room = "live", !.status = to,
                           !.first = s.wish, !.ahead = Len(s.asks)])
    BY <1>4 DEF RoomConnected, FirstAsk
  <2>. DEFINE t == [s EXCEPT !.flight = "mic", !.room = "live", !.status = to,
                             !.first = s.wish, !.ahead = Len(s.asks)]
  <2>2. s.ref = "own" /\ ~s.stale
    BY <1>4 DEF StillWanted, IsCurrent
  <2>. HIDE DEF s
  <2>3. Len(s.asks) \in Nat
    BY <1>2 DEF Call
  <2>4. t \in Call
    BY <1>2, <2>3 DEF Call, Active
  <2>5. /\ t.view = s.view /\ t.asks = s.asks /\ t.lost = s.lost /\ t.wish = s.wish
        /\ t.mic = s.mic /\ t.crossed = s.crossed /\ t.first = s.wish /\ t.ahead = Len(s.asks)
        /\ t.flight = "mic" /\ t.room = "live" /\ t.stale = s.stale /\ t.ref = s.ref
        /\ t.ending = s.ending /\ t.status = to /\ t.overrun = s.overrun /\ t.astray = s.astray
    BY <1>2 DEF Call
  <2>. HIDE DEF t
  <2>6. Bounded(t)
    BY <1>2, <2>5 DEF Bounded
  <2>7. s.mic = "off" /\ s.view = "open" /\ s.flight # "mic"
    BY <1>1, <1>2, <2>2 DEF Sound, RoomOf, MountOf
  <2>8. AsksOf(t)
    <3>1. AsksOf(s)
      BY <1>2 DEF Sound
    <3>2. ~(t.ahead < Len(t.asks))
      BY <2>3, <2>5
    <3>3. t.mic # "on"
      BY <2>5, <2>7
    <3>. QED
      BY <2>5, <2>7, <3>1, <3>2, <3>3 DEF AsksOf
  <2>9. MountOf(t)
    BY <1>2, <2>2, <2>5, <2>7 DEF MountOf
  <2>10. t.ahead <= Len(t.asks)
    BY <2>3, <2>5
  <2>11. RoomOf(t)
    BY <2>2, <2>5, <2>7, <2>10 DEF RoomOf
  <2>12. ShownOf(t)
    BY <2>5 DEF ShownOf, IsShowing, Active
  <2>13. HasAudio(t) => HasAudio(s)
    BY <1>1, <2>2, <2>5, <2>7 DEF HasAudio
  <2>14. Sound(t) /\ (HasAudio(t) => audio = "on")
    BY <1>2, <2>8, <2>9, <2>11, <2>12, <2>13 DEF Sound
  <2>15. Becomes(m, t)
    BY <2>1 DEF t
  <2>. QED
    BY <1>1, <1>2, <2>4, <2>5, <2>6, <2>14, <2>15, MountMoves DEF s
<1>. QED
  BY <1>3, <1>4

(***************************************************************************)
(* An overtaken attempt goes on, and may lose the call's room from sight.  *)
(***************************************************************************)
LEMMA OlderIsTyped ==
    ASSUME NEW s \in Call, NEW older \in {"none", "audio", "output", "connect"},
           NEW ref \in {"none", "own", "older"}, NEW astray \in BOOLEAN
    PROVE  [s EXCEPT !.older = older, !.ref = ref, !.astray = astray] \in Call
<1>1. [s EXCEPT !.older = older] \in Call
  BY DEF Call
<1>2. ASSUME NEW u \in Call PROVE [u EXCEPT !.ref = ref] \in Call
  BY DEF Call
<1>3. ASSUME NEW u \in Call PROVE [u EXCEPT !.astray = astray] \in Call
  BY DEF Call
<1>4. [[[s EXCEPT !.older = older] EXCEPT !.ref = ref] EXCEPT !.astray = astray]
      = [s EXCEPT !.older = older, !.ref = ref, !.astray = astray]
  OBVIOUS
<1>. QED
  BY <1>1, <1>2, <1>3, <1>4

LEMMA OlderStep ==
    ASSUME VoiceInv, NEW m \in Mounts, OlderGoesOn(m)
    PROVE  VoiceInv'
<1>. DEFINE s == call[m]
<1>1. PICK older \in {"none", "output", "connect"}, ref \in {s.ref, "older"},
           astray \in BOOLEAN :
         /\ Becomes(m, [s EXCEPT !.older = older, !.ref = ref, !.astray = astray])
         /\ (s.astray => astray) /\ (~astray => s.room = "none" \/ ref = s.ref)
         /\ s.older # "none"
         /\ audio' \in {audio, "stray"} /\ (audio' = "on" <=> audio = "on")
  <2>1. s \in Call
    BY OfMount
  <2>2. \A older, ref, astray : [s EXCEPT !.older = older, !.ref = s.ref, !.astray = s.astray]
                               = [s EXCEPT !.older = older]
    <3>. HIDE DEF s
    <3>. QED
      BY <2>1 DEF Call
  <2>3. s.astray \in BOOLEAN /\ s.ref \in {s.ref, "older"}
    BY <2>1 DEF Call
  <2>4. CASE s.older \in {"audio", "connect"} /\ ~(s.older = "output")
             /\ \E older \in {"none", "output"} : Becomes(m, [s EXCEPT !.older = older])
             /\ audio' \in {audio, "stray"} /\ (audio' = "on" <=> audio = "on")
    BY <2>2, <2>3, <2>4
  <2>5. CASE s.older = "output"
    <3>. DEFINE f == s.astray \/ s.room # "none"
    <3>1. Becomes(m, [s EXCEPT !.older = "connect", !.ref = "older", !.astray = f])
          /\ audio' = audio
      BY <2>5 DEF OlderGoesOn, Quiet
    <3>2. PICK b \in BOOLEAN : b = f
      <4>1. f \in BOOLEAN
        OBVIOUS
      <4>. QED
        BY <4>1
    <3>3. (s.astray => b) /\ (~b => s.room = "none")
      BY <3>2
    <3>4. Becomes(m, [s EXCEPT !.older = "connect", !.ref = "older", !.astray = b])
      BY <3>1, <3>2
    <3>. HIDE DEF s, f
    <3>. QED
      BY <2>5, <3>1, <3>3, <3>4
  <2>6. s.older # "output" =>
             /\ s.older \in {"audio", "connect"}
             /\ \E older \in {"none", "output"} : Becomes(m, [s EXCEPT !.older = older])
             /\ audio' \in {audio, "stray"} /\ (audio' = "on" <=> audio = "on")
    BY DEF OlderGoesOn, Quiet, AudioOn
  <2>. QED
    BY <2>4, <2>5, <2>6
<1>. DEFINE t == [s EXCEPT !.older = older, !.ref = ref, !.astray = astray]
<1>2. s \in Call /\ Sound(s) /\ Bounded(s) /\ audio \in {"off", "on", "stray"}
      /\ (HasAudio(s) => audio = "on")
  BY OfMount
<1>. HIDE DEF s
<1>3. s.view # "unopened" /\ ref \in {"none", "own", "older"}
  BY <1>1, <1>2 DEF Sound, MountOf, Untouched, Call
<1>4. /\ t \in Call /\ t.view = s.view /\ t.asks = s.asks /\ t.lost = s.lost
      /\ t.wish = s.wish /\ t.mic = s.mic /\ t.ahead = s.ahead
      /\ t.flight = s.flight /\ t.room = s.room /\ t.stale = s.stale /\ t.ref = ref
      /\ t.ending = s.ending /\ t.status = s.status /\ t.drops = s.drops
      /\ t.stops = s.stops /\ t.overrun = s.overrun /\ t.astray = astray
      /\ t.crossed = s.crossed /\ t.first = s.first
  <2>1. older \in {"none", "audio", "output", "connect"} /\ astray \in BOOLEAN
    BY <1>1
  <2>2. t \in Call
    BY <1>2, <1>3, <2>1, OlderIsTyped
  <2>3. t.ref = ref /\ t.astray = astray
    BY <1>2 DEF Call
  <2>. QED
    BY <1>2, <2>2, <2>3 DEF Call
<1>. HIDE DEF t
<1>5. AsksOf(t)
  <2>1. CASE astray = s.astray
    BY <1>2, <1>4, <2>1, SameAsks DEF Sound
  <2>2. CASE astray # s.astray
    BY <1>1, <1>2, <1>4, <2>2 DEF AsksOf, Call
  <2>. QED
    BY <2>1, <2>2
<1>6. MountOf(t) /\ ShownOf(t)
  BY <1>1, <1>2, <1>3, <1>4 DEF Sound, MountOf, ShownOf, IsShowing
<1>7. RoomOf(t)
  BY <1>1, <1>2, <1>4 DEF Sound, RoomOf
<1>8. Sound(t) /\ Bounded(t) /\ (HasAudio(t) => audio = "on")
  BY <1>1, <1>2, <1>4, <1>5, <1>6, <1>7 DEF Sound, Bounded, HasAudio
<1>9. Becomes(m, t) /\ audio' \in {"off", "on", "stray"}
  BY <1>1, <1>2 DEF t
<1>10. t.view = call[m].view
  BY <1>4 DEF s
<1>. QED
  BY <1>1, <1>4, <1>8, <1>9, <1>10, MountMoves

(***************************************************************************)
(* The catch of the latest attempt drops its room, and leaves the rest of  *)
(* the cleaning up to do.                                                  *)
(***************************************************************************)
LEMMA CaughtStep ==
    ASSUME VoiceInv, NEW m \in Mounts, ~call[m].stale,
           call[m].flight \in {"token", "audio", "connect", "mic"}, Caught(m, call[m])
    PROVE  VoiceInv'
<1>. DEFINE s == call[m]
            r == Roomless(s)
<1>1. s \in Call /\ Sound(s) /\ Bounded(s) /\ audio \in {"off", "on", "stray"}
  BY OfMount
<1>2. s.view = "open" /\ (s.flight \notin {"connect", "mic"} => s.room = "none")
  BY <1>1 DEF Sound, MountOf, RoomOf, Call
<1>3. /\ r \in Call /\ Bounded(r) /\ AsksOf(r) /\ r.view = s.view
      /\ r = [s EXCEPT !.room = "none", !.mic = "off", !.heard = FALSE,
                       !.asks = <<>>, !.ahead = 0, !.lost = r.lost]
  BY <1>1, LeavingRooms
<1>4. PICK drops \in Nat, stops \in Nat :
         /\ Becomes(m, [r EXCEPT !.ref = "none", !.flight = "idle", !.drops = drops,
                                 !.stops = stops])
         /\ drops # 0 \/ stops # 0
         /\ audio' = "off" \/ audio' = audio
  <2>. DEFINE d == [r EXCEPT !.ref = "none"]
  <2>1. /\ \/ Becomes(m, [d EXCEPT !.flight = "idle", !.drops = @ + 1]) /\ audio' = audio
           \/ Becomes(m, [d EXCEPT !.flight = "idle", !.stops = @ + 1]) /\ audio' = "off"
    BY DEF Caught, Dropped, Quiet
  <2>. HIDE DEF r
  <2>2. r.drops \in Nat /\ r.stops \in Nat /\ d.drops = r.drops /\ d.stops = r.stops
    BY <1>3 DEF Call
  <2>3. r.drops + 1 \in Nat /\ r.drops + 1 # 0 /\ r.stops + 1 \in Nat /\ r.stops + 1 # 0
    BY <2>2
  <2>4. \A k : /\ [d EXCEPT !.flight = "idle", !.drops = k]
                  = [r EXCEPT !.ref = "none", !.flight = "idle", !.drops = k, !.stops = r.stops]
               /\ [d EXCEPT !.flight = "idle", !.stops = k]
                  = [r EXCEPT !.ref = "none", !.flight = "idle", !.drops = r.drops, !.stops = k]
    BY <1>3 DEF Call
  <2>5. \/ Becomes(m, [r EXCEPT !.ref = "none", !.flight = "idle", !.drops = r.drops + 1,
                                !.stops = r.stops]) /\ audio' = audio
        \/ Becomes(m, [r EXCEPT !.ref = "none", !.flight = "idle", !.drops = r.drops,
                                !.stops = r.stops + 1]) /\ audio' = "off"
    BY <2>1, <2>2, <2>4
  <2>. QED
    BY <2>2, <2>3, <2>5
<1>. DEFINE t == [r EXCEPT !.ref = "none", !.flight = "idle", !.drops = drops, !.stops = stops]
<1>. HIDE DEF s
<1>5. r.asks = <<>> /\ r.mic = "off" /\ r.room = "none" /\ r.ahead = 0 /\ r.stale = s.stale
      /\ r.astray = s.astray
  BY <1>1, <1>3 DEF Call
<1>. HIDE DEF r
<1>6. /\ t \in Call /\ t.view = r.view /\ t.asks = r.asks /\ t.lost = r.lost /\ t.mic = r.mic
      /\ t.room = r.room /\ t.ahead = r.ahead /\ t.stale = r.stale /\ t.astray = r.astray
      /\ t.flight = "idle" /\ t.ref = "none" /\ t.drops = drops /\ t.stops = stops
  BY <1>3 DEF Call
<1>. HIDE DEF t
<1>7. Bounded(t) /\ AsksOf(t)
  BY <1>3, <1>5, <1>6, NoAsks DEF Bounded
<1>8. ~t.stale
  BY <1>5, <1>6 DEF s
<1>9. MountOf(t) /\ RoomOf(t) /\ ShownOf(t)
  BY <1>2, <1>3, <1>4, <1>5, <1>6, <1>8 DEF MountOf, RoomOf, ShownOf, IsShowing
<1>10. Sound(t) /\ ~HasAudio(t)
  BY <1>5, <1>6, <1>7, <1>9 DEF Sound, HasAudio
<1>11. Becomes(m, t) /\ audio' \in {"off", "on", "stray"} /\ (audio' = "on" => audio = "on")
  BY <1>1, <1>4 DEF t
<1>12. call[m].view = "open" /\ t.view = "open"
  BY <1>2, <1>3, <1>6 DEF s
<1>. QED
  BY <1>6, <1>7, <1>10, <1>11, <1>12, MountMoves

(***************************************************************************)
(* The audio is stopped over whatever was started meanwhile: of the one    *)
(* call that may need it, what is shown is not held to any more.           *)
(***************************************************************************)
LEMMA Overrunning ==
    ASSUME NEW s \in Call, Sound(s), Bounded(s), s.view = "open"
    PROVE  LET t == [s EXCEPT !.overrun = TRUE] IN
           t \in Call /\ Sound(t) /\ Bounded(t) /\ t.view = "open" /\ t.overrun
<1>. DEFINE t == [s EXCEPT !.overrun = TRUE]
<1>1. /\ t \in Call /\ t.view = s.view /\ t.asks = s.asks /\ t.lost = s.lost
      /\ t.wish = s.wish /\ t.mic = s.mic /\ t.crossed = s.crossed /\ t.ahead = s.ahead
      /\ t.flight = s.flight /\ t.room = s.room /\ t.stale = s.stale /\ t.ref = s.ref
      /\ t.ending = s.ending /\ t.status = s.status /\ t.first = s.first
      /\ t.overrun /\ t.astray = s.astray
  BY DEF Call
<1>. HIDE DEF t
<1>2. AsksOf(t)
  BY <1>1, SameAsks DEF Sound
<1>3. MountOf(t) /\ RoomOf(t) /\ ShownOf(t)
  BY <1>1 DEF Sound, MountOf, RoomOf, ShownOf, IsShowing
<1>. QED
  BY <1>1, <1>2, <1>3 DEF Sound, Bounded, t

LEMMA SilencedStep ==
    ASSUME VoiceInv, NEW m \in Mounts, NEW s \in Call, Sound(s), Bounded(s),
           s.view = call[m].view, Silenced([call EXCEPT ![m] = s])
    PROVE  VoiceInv'
<1>. DEFINE calls == [call EXCEPT ![m] = s]
            next == [n \in Mounts |-> IF NeedsAudio(calls[n])
                                      THEN [calls[n] EXCEPT !.overrun = TRUE] ELSE calls[n]]
<1>1. audio' = "off" /\ call' = next
  BY DEF Silenced
<1>2. \A n \in Mounts : /\ calls[n] \in Call /\ Sound(calls[n]) /\ Bounded(calls[n])
                        /\ calls[n].view = call[n].view
  BY DEF VoiceInv, VoiceTypeOK, Bounded
<1>. HIDE DEF calls
<1>3. ASSUME NEW n \in Mounts
      PROVE  /\ next[n] \in Call /\ Sound(next[n]) /\ Bounded(next[n]) /\ ~HasAudio(next[n])
             /\ next[n].view = call[n].view
  <2>1. CASE NeedsAudio(calls[n])
    <3>. DEFINE t == [calls[n] EXCEPT !.overrun = TRUE]
    <3>1. calls[n].view = "open" /\ next[n] = t
      BY <2>1 DEF NeedsAudio
    <3>2. t \in Call /\ Sound(t) /\ Bounded(t) /\ t.view = "open" /\ t.overrun
      BY <1>2, <3>1, Overrunning
    <3>. HIDE DEF t, next
    <3>. QED
      BY <1>2, <3>1, <3>2 DEF HasAudio
  <2>2. CASE ~NeedsAudio(calls[n])
    BY <1>2, <2>2 DEF NeedsAudio, HasAudio
  <2>. QED
    BY <2>1, <2>2
<1>4. next \in [Mounts -> Call]
  <2>1. next = [n \in Mounts |-> next[n]]
    OBVIOUS
  <2>. HIDE DEF next
  <2>. QED
    BY <1>3, <2>1
<1>. HIDE DEF next
<1>5. VoiceTypeOK'
  BY <1>1, <1>3, <1>4 DEF VoiceTypeOK, Bounded
<1>6. \A n \in Mounts : Sound(call[n])'
  BY <1>1, <1>3 DEF Sound, MountOf, RoomOf, ShownOf, AsksOf, IsShowing
<1>7. \A n \in Mounts : ~(HasAudio(call[n])')
  BY <1>1, <1>3 DEF HasAudio
<1>. QED
  BY <1>1, <1>3, <1>5, <1>6, <1>7 DEF VoiceInv

LEMMA CatchLeavesStep ==
    ASSUME VoiceInv, NEW m \in Mounts, CatchLeaves(m)
    PROVE  VoiceInv'
<1>. DEFINE s == call[m]
            t == [s EXCEPT !.drops = @ - 1, !.stops = @ + 1]
<1>1. s \in Call /\ Sound(s) /\ Bounded(s) /\ s.drops > 0
  BY OfMount DEF CatchLeaves
<1>2. Silenced([call EXCEPT ![m] = t])
  BY DEF CatchLeaves
<1>3. s.view # "unopened"
  BY <1>1 DEF Sound, MountOf, Untouched
<1>. HIDE DEF s
<1>4. s.drops \in Nat /\ s.stops \in Nat
  BY <1>1 DEF Call
<1>5. s.drops - 1 \in Nat /\ s.stops + 1 \in Nat /\ s.stops + 1 # 0
  BY <1>1, <1>4
<1>6. /\ t \in Call /\ t.view = s.view /\ t.asks = s.asks /\ t.lost = s.lost
      /\ t.wish = s.wish /\ t.mic = s.mic /\ t.crossed = s.crossed /\ t.ahead = s.ahead
      /\ t.flight = s.flight /\ t.room = s.room /\ t.stale = s.stale /\ t.ref = s.ref
      /\ t.ending = s.ending /\ t.status = s.status /\ t.first = s.first
      /\ t.overrun = s.overrun /\ t.astray = s.astray /\ t.stops = s.stops + 1
  BY <1>1, <1>5 DEF Call
<1>. HIDE DEF t
<1>7. AsksOf(t)
  BY <1>1, <1>6, SameAsks DEF Sound
<1>8. MountOf(t) /\ RoomOf(t) /\ ShownOf(t)
  BY <1>1, <1>3, <1>5, <1>6 DEF Sound, MountOf, RoomOf, ShownOf, IsShowing
<1>9. Sound(t) /\ Bounded(t)
  BY <1>1, <1>6, <1>7, <1>8 DEF Sound, Bounded
<1>10. t.view = call[m].view
  BY <1>6 DEF s
<1>. QED
  BY <1>2, <1>6, <1>9, <1>10, SilencedStep

(***************************************************************************)
(* The error is shown, over whatever was started meanwhile.                *)
(***************************************************************************)
LEMMA CatchShowsStep ==
    ASSUME VoiceInv, NEW m \in Mounts, CatchShows(m)
    PROVE  VoiceInv'
<1>. DEFINE s == call[m]
            busy == s.flight \in {"token", "audio", "output"} \/ s.room # "none"
            f == s.overrun \/ (s.view = "open" /\ busy)
            to == IF s.view = "open" THEN "error" ELSE s.status
<1>1. /\ s.stops > 0 /\ audio' = audio
      /\ Becomes(m, [s EXCEPT !.stops = @ - 1, !.status = to, !.overrun = f])
  BY DEF CatchShows, Quiet
<1>2. s \in Call /\ Sound(s) /\ Bounded(s) /\ audio \in {"off", "on", "stray"}
      /\ (HasAudio(s) => audio = "on")
  BY OfMount
<1>3. PICK o \in BOOLEAN : o = f
  <2>1. f \in BOOLEAN
    OBVIOUS
  <2>. QED
    BY <2>1
<1>4. /\ s.overrun => o
      /\ s.view = "open" /\ busy => o
  BY <1>3
<1>. DEFINE t == [s EXCEPT !.stops = s.stops - 1, !.status = to, !.overrun = o]
<1>5. Becomes(m, t)
  BY <1>1, <1>3
<1>6. s.view # "unopened"
  BY <1>1, <1>2 DEF Sound, MountOf, Untouched
<1>. HIDE DEF s, f
<1>7. s.stops - 1 \in Nat /\ to \in Active \cup {"disconnected", "error"}
  <2>1. s.stops \in Nat
    BY <1>2 DEF Call
  <2>. QED
    BY <1>1, <1>2, <2>1 DEF Call
<1>8. to = (IF s.view = "open" THEN "error" ELSE s.status)
  OBVIOUS
<1>. HIDE DEF to
<1>9. /\ t \in Call /\ t.view = s.view /\ t.asks = s.asks /\ t.lost = s.lost
      /\ t.wish = s.wish /\ t.mic = s.mic /\ t.crossed = s.crossed /\ t.ahead = s.ahead
      /\ t.flight = s.flight /\ t.room = s.room /\ t.stale = s.stale /\ t.ref = s.ref
      /\ t.ending = s.ending /\ t.status = to /\ t.first = s.first
      /\ t.overrun = o /\ t.astray = s.astray
  BY <1>2, <1>7 DEF Call
<1>. HIDE DEF t
<1>10. AsksOf(t)
  BY <1>2, <1>9, SameAsks DEF Sound
<1>11. MountOf(t) /\ RoomOf(t)
  BY <1>2, <1>6, <1>9 DEF Sound, MountOf, RoomOf
<1>12. ShownOf(t)
  BY <1>4, <1>8, <1>9 DEF ShownOf, IsShowing, Active
<1>13. Sound(t) /\ Bounded(t) /\ (HasAudio(t) => audio = "on")
  BY <1>2, <1>4, <1>9, <1>10, <1>11, <1>12 DEF Sound, Bounded, HasAudio
<1>14. t.view = call[m].view
  BY <1>9 DEF s
<1>. QED
  BY <1>1, <1>2, <1>5, <1>9, <1>13, <1>14, MountMoves

LEMMA FailsStep ==
    ASSUME VoiceInv, NEW m \in Mounts, StartFails(m)
    PROVE  VoiceInv'
<1>1. call[m].flight \in {"token", "audio", "connect"}
  BY DEF StartFails
<1>2. CASE call[m].stale
  <2>1. Caught(m, Roomless(call[m])) /\ ~IsCurrent(m)
    BY <1>2 DEF StartFails, IsCurrent
  <2>2. Roomless(call[m]).stale
    <3>1. call[m] \in Call
      BY OfMount
    <3>. QED
      BY <1>2, <3>1 DEF Roomless, Call
  <2>3. Becomes(m, [Roomless(call[m]) EXCEPT !.flight = "idle"]) /\ audio' = audio
    BY <2>1, <2>2 DEF Caught, Quiet
  <2>. QED
    BY <1>1, <1>2, <2>1, <2>3, RoomGone
<1>3. CASE ~call[m].stale
  <2>1. Caught(m, call[m])
    BY <1>3 DEF StartFails
  <2>. QED
    BY <1>1, <1>3, <2>1, CaughtStep
<1>. QED
  BY <1>2, <1>3

-----------------------------------------------------------------------------
(***************************************************************************)
(* The answers to the calls to the microphone.                             *)
(***************************************************************************)
LEMMA FirstStep ==
    ASSUME VoiceInv, NEW m \in Mounts, NEW ok \in BOOLEAN, FirstAnswered(m, ok)
    PROVE  VoiceInv'
<1>. DEFINE s == call[m]
            t == [s EXCEPT !.mic = s.first, !.flight = "idle"]
<1>1. s.flight = "mic" /\ s.ahead = 0
  BY DEF FirstAnswered
<1>2. s \in Call /\ Sound(s) /\ Bounded(s) /\ audio \in {"off", "on", "stray"}
      /\ (HasAudio(s) => audio = "on")
  BY OfMount
<1>3. CASE Caught(m, s) /\ ~s.stale
  BY <1>1, <1>3, CaughtStep
<1>5. CASE Caught(m, s) /\ s.stale
  <2>. DEFINE u == [s EXCEPT !.flight = "idle"]
  <2>1. Becomes(m, u) /\ audio' = audio
    BY <1>5 DEF Caught, Quiet
  <2>. HIDE DEF s
  <2>2. /\ u \in Call /\ u.view = s.view /\ u.asks = s.asks /\ u.lost = s.lost
        /\ u.wish = s.wish /\ u.mic = s.mic /\ u.crossed = s.crossed /\ u.ahead = 0
        /\ u.flight = "idle" /\ u.room = s.room /\ u.stale = s.stale /\ u.ref = s.ref
        /\ u.ending = s.ending /\ u.status = s.status /\ u.astray = s.astray
    BY <1>1, <1>2 DEF Call
  <2>. HIDE DEF u
  <2>3. s.astray \/ s.room = "none"
    BY <1>1, <1>2, <1>5 DEF Sound, RoomOf, Call
  <2>4. AsksOf(u)
    <3>1. CASE s.astray
      BY <2>2, <3>1 DEF AsksOf
    <3>2. CASE s.room = "none"
      <4>1. s.asks = <<>> /\ s.mic = "off"
        BY <1>2, <3>2 DEF Sound, RoomOf
      <4>. QED
        BY <2>2, <3>2, <4>1, NoAsks
    <3>. QED
      BY <2>3, <3>1, <3>2
  <2>5. MountOf(u) /\ RoomOf(u) /\ ShownOf(u)
    BY <1>1, <1>2, <1>5, <2>2 DEF Sound, MountOf, RoomOf, ShownOf, IsShowing, Untouched
  <2>6. Sound(u) /\ Bounded(u) /\ ~HasAudio(u)
    BY <1>2, <1>5, <2>2, <2>4, <2>5 DEF Sound, Bounded, HasAudio
  <2>7. u.view = call[m].view
    BY <2>2 DEF s
  <2>. QED
    BY <1>2, <2>1, <2>2, <2>6, <2>7, MountMoves
<1>4. CASE s.room = "live" /\ Becomes(m, t) /\ audio' = audio
  <2>. HIDE DEF s
  <2>1. /\ t \in Call /\ t.view = s.view /\ t.asks = s.asks /\ t.lost = s.lost
        /\ t.wish = s.wish /\ t.mic = s.first /\ t.crossed = s.crossed /\ t.ahead = 0
        /\ t.flight = "idle" /\ t.room = "live" /\ t.stale = s.stale /\ t.ref = s.ref
        /\ t.ending = s.ending /\ t.status = s.status /\ t.drops = s.drops
        /\ t.stops = s.stops /\ t.overrun = s.overrun /\ t.astray = s.astray
    BY <1>1, <1>2, <1>4 DEF Call
  <2>. HIDE DEF t
  <2>2. Bounded(t)
    BY <1>2, <2>1 DEF Bounded
  <2>3. s.view # "unopened" /\ (s.astray \/ s.view = "open")
    BY <1>1, <1>2, <1>4 DEF Sound, RoomOf, MountOf, Untouched
  <2>4. MountOf(t)
    BY <1>2, <2>1, <2>3 DEF Sound, MountOf
  <2>5. RoomOf(t)
    BY <1>2, <1>4, <2>1, <2>3 DEF Sound, RoomOf
  <2>6. ShownOf(t)
    BY <1>2, <1>4, <2>1 DEF Sound, ShownOf, IsShowing
  <2>7. AsksOf(t)
    <3>. SUFFICES ASSUME ~s.crossed, ~s.astray PROVE AsksOf(t)
      BY <2>1 DEF AsksOf
    <3>1. s.asks \in Seq(Switch)
      BY <1>2 DEF Call
    <3>2. CASE s.asks = <<>>
      <4>1. s.ahead = Len(s.asks)
        BY <1>1, <3>2
      <4>2. s.first = s.wish
        BY <1>1, <1>2, <1>4, <4>1 DEF Sound, AsksOf
      <4>. QED
        BY <1>2, <2>1, <3>2, <4>2 DEF Sound, AsksOf, Call
    <3>3. CASE s.asks # <<>>
      <4>1. Len(s.asks) > 0 /\ s.ahead < Len(s.asks) /\ s.ahead + 1 = 1
        BY <1>1, <3>1, <3>3
      <4>2. s.asks[1] # s.first
        BY <1>1, <1>2, <4>1 DEF Sound, AsksOf
      <4>. QED
        BY <1>2, <2>1, <3>3, <4>2 DEF Sound, AsksOf, Call
    <3>. QED
      BY <3>2, <3>3
  <2>8. Sound(t) /\ (HasAudio(t) => audio = "on")
    BY <1>2, <1>4, <2>1, <2>4, <2>5, <2>6, <2>7 DEF Sound, HasAudio
  <2>. QED
    BY <1>2, <1>4, <2>1, <2>2, <2>8, MountMoves DEF s
<1>. QED
  BY <1>3, <1>4, <1>5 DEF FirstAnswered, Quiet

(***************************************************************************)
(* What the calls of a room look like when the first of them is answered.  *)
(***************************************************************************)
LEMMA Tails ==
    ASSUME NEW q \in Seq(Switch), q # <<>>
    PROVE  /\ Tail(q) \in Seq(Switch) /\ Len(Tail(q)) = Len(q) - 1 /\ Len(q) \in Nat \ {0}
           /\ Head(q) \in Switch /\ Head(q) = q[1]
           /\ \A i \in 1..(Len(q) - 1) : Tail(q)[i] = q[i + 1]
           /\ Tail(q) = <<>> <=> Len(q) = 1
<1>1. /\ Tail(q) \in Seq(Switch) /\ Len(Tail(q)) = Len(q) - 1 /\ Len(q) \in Nat \ {0}
      /\ Head(q) = q[1]
  OBVIOUS
<1>2. \A i \in 1..(Len(q) - 1) : Tail(q)[i] = q[i + 1]
  OBVIOUS
<1>3. q[1] \in Switch
  OBVIOUS
<1>4. Tail(q) = <<>> <=> Len(Tail(q)) = 0
  <2>1. \A r \in Seq(Switch) : r = <<>> <=> Len(r) = 0
    OBVIOUS
  <2>. QED
    BY <1>1, <2>1
<1>5. Len(Tail(q)) = 0 <=> Len(q) = 1
  BY <1>1
<1>. QED
  BY <1>1, <1>2, <1>3, <1>4, <1>5

LEMMA ToggleStep ==
    ASSUME VoiceInv, NEW m \in Mounts, NEW ok \in BOOLEAN, ToggleAnswered(m, ok)
    PROVE  VoiceInv'
<1>. DEFINE s == call[m]
            q == s.asks
            ahead == IF s.ahead > 0 THEN s.ahead - 1 ELSE 0
<1>1. /\ q # <<>> /\ (s.flight = "mic" => s.ahead > 0) /\ audio' = audio
      /\ \/ /\ ok /\ s.room = "live"
            /\ Becomes(m, [[s EXCEPT !.asks = Tail(q), !.ahead = ahead] EXCEPT !.mic = Head(q)])
         \/ /\ ~ok
            /\ Becomes(m, [[s EXCEPT !.asks = Tail(q), !.ahead = ahead] EXCEPT
                  !.wish = Other(Head(q)),
                  !.crossed = s.crossed \/ Tail(q) # <<>> \/ s.flight = "mic"])
  <2>1. s \in Call
    BY OfMount
  <2>2. /\ [s EXCEPT !.asks = Tail(q), !.ahead = ahead].asks = Tail(q)
        /\ [s EXCEPT !.asks = Tail(q), !.ahead = ahead].flight = s.flight
        /\ [s EXCEPT !.asks = Tail(q), !.ahead = ahead].crossed = s.crossed
    BY <2>1 DEF Call
  <2>. QED
    BY <2>2 DEF ToggleAnswered, Quiet
<1>2. s \in Call /\ Sound(s) /\ Bounded(s) /\ audio \in {"off", "on", "stray"}
      /\ (HasAudio(s) => audio = "on")
  BY OfMount
<1>3. q \in Seq(Switch) /\ s.lost \in Seq(Switch) /\ s.ahead \in Nat
  BY <1>2 DEF Call
<1>4. s.room # "none"
  BY <1>1, <1>2 DEF Sound, RoomOf
<1>5. ahead \in Nat /\ (s.flight # "mic" => ahead = 0) /\ (s.flight = "mic" => ahead = s.ahead - 1)
      /\ (s.flight = "mic" => ahead <= Len(Tail(q)))
  <2>1. s.flight # "mic" => s.ahead = 0
    BY <1>2 DEF Sound, RoomOf
  <2>2. s.flight = "mic" => s.ahead <= Len(q)
    BY <1>2 DEF Sound, RoomOf
  <2>3. Len(Tail(q)) = Len(q) - 1 /\ Len(q) \in Nat
    BY <1>1, <1>3, Tails
  <2>. HIDE DEF s, q
  <2>. QED
    BY <1>1, <1>3, <2>1, <2>2, <2>3
<1>. HIDE DEF ahead
<1>6. PICK mic \in Switch, wish \in Switch, c \in BOOLEAN :
         /\ Becomes(m, [s EXCEPT !.asks = Tail(q), !.ahead = ahead, !.mic = mic, !.wish = wish,
                                 !.crossed = c])
         /\ c <=> s.crossed \/ (~ok /\ (Tail(q) # <<>> \/ s.flight = "mic"))
         /\ ok => s.room = "live" /\ mic = q[1] /\ wish = s.wish
         /\ ~ok => mic = s.mic /\ wish = Other(q[1])
  <2>1. Head(q) = q[1] /\ Head(q) \in Switch /\ Other(Head(q)) \in Switch
    BY <1>1, <1>3, Tails DEF Other, Switch
  <2>2. CASE ok
    <3>1. [[s EXCEPT !.asks = Tail(q), !.ahead = ahead] EXCEPT !.mic = Head(q)]
          = [s EXCEPT !.asks = Tail(q), !.ahead = ahead, !.mic = Head(q), !.wish = s.wish,
                      !.crossed = s.crossed]
      <4>. HIDE DEF s, q
      <4>. QED
        BY <1>2 DEF Call
    <3>2. s.wish \in Switch /\ s.crossed \in BOOLEAN
      BY <1>2 DEF Call
    <3>3. s.room = "live" /\ Becomes(m, [s EXCEPT !.asks = Tail(q), !.ahead = ahead,
                                   !.mic = Head(q), !.wish = s.wish, !.crossed = s.crossed])
      BY <1>1, <2>2, <3>1
    <3>. HIDE DEF s, q
    <3>. QED
      BY <2>1, <2>2, <3>2, <3>3
  <2>3. CASE ~ok
    <3>. DEFINE f == s.crossed \/ Tail(q) # <<>> \/ s.flight = "mic"
    <3>1. f \in BOOLEAN
      OBVIOUS
    <3>2. \A b \in BOOLEAN :
             [[s EXCEPT !.asks = Tail(q), !.ahead = ahead] EXCEPT
                  !.wish = Other(Head(q)), !.crossed = b]
             = [s EXCEPT !.asks = Tail(q), !.ahead = ahead, !.mic = s.mic,
                         !.wish = Other(Head(q)), !.crossed = b]
      <4>. HIDE DEF s, q
      <4>. QED
        BY <1>2 DEF Call
    <3>3. s.mic \in Switch
      BY <1>2 DEF Call
    <3>4. Becomes(m, [[s EXCEPT !.asks = Tail(q), !.ahead = ahead] EXCEPT
                  !.wish = Other(Head(q)), !.crossed = f])
      BY <1>1, <2>3
    <3>5. f <=> s.crossed \/ (~ok /\ (Tail(q) # <<>> \/ s.flight = "mic"))
      BY <2>3
    <3>. HIDE DEF f, s, q
    <3>6. PICK b \in BOOLEAN : b = f
      BY <3>1
    <3>7. Becomes(m, [s EXCEPT !.asks = Tail(q), !.ahead = ahead, !.mic = s.mic,
                         !.wish = Other(Head(q)), !.crossed = b])
      BY <3>2, <3>4, <3>6
    <3>8. b <=> s.crossed \/ (~ok /\ (Tail(q) # <<>> \/ s.flight = "mic"))
      BY <3>5, <3>6
    <3>. QED
      BY <2>1, <2>3, <3>3, <3>7, <3>8
  <2>. QED
    BY <2>2, <2>3
<1>. DEFINE t == [s EXCEPT !.asks = Tail(q), !.ahead = ahead, !.mic = mic, !.wish = wish,
                           !.crossed = c]
<1>7. /\ Tail(q) \in Seq(Switch) /\ Len(Tail(q)) = Len(q) - 1 /\ Len(q) \in Nat \ {0}
      /\ q[1] \in Switch /\ (Tail(q) = <<>> <=> Len(q) = 1)
      /\ \A i \in 1..(Len(q) - 1) : Tail(q)[i] = q[i + 1]
  BY <1>1, <1>3, Tails
<1>8. /\ t \in Call /\ t.view = s.view /\ t.asks = Tail(q) /\ t.lost = s.lost
      /\ t.wish = wish /\ t.mic = mic /\ t.crossed = c /\ t.ahead = ahead
      /\ t.flight = s.flight /\ t.room = s.room /\ t.stale = s.stale /\ t.ref = s.ref
      /\ t.ending = s.ending /\ t.status = s.status /\ t.first = s.first /\ t.drops = s.drops
      /\ t.stops = s.stops /\ t.overrun = s.overrun /\ t.astray = s.astray
  <2>. HIDE DEF s, q
  <2>. QED
    BY <1>2, <1>5, <1>7 DEF Call
<1>. HIDE DEF t
<1>9. Bounded(t)
  <2>1. Len(q) + Len(s.lost) <= MaxToggles
    BY <1>2 DEF Bounded
  <2>2. Len(s.lost) \in Nat /\ Len(q) \in Nat /\ MaxToggles \in Nat
    BY <1>3, VoiceAssumption
  <2>. HIDE DEF s, q
  <2>3. (Len(q) - 1) + Len(s.lost) <= MaxToggles
    BY <2>1, <2>2
  <2>. QED
    BY <1>7, <1>8, <2>3 DEF Bounded
<1>10. s.view # "unopened" /\ (s.view = "closed" => s.astray)
  BY <1>1, <1>2 DEF Sound, MountOf, Untouched
<1>11. MountOf(t)
  BY <1>2, <1>8, <1>10 DEF Sound, MountOf
<1>12. RoomOf(t)
  <2>1. t.room = "connecting" => t.mic = "off"
    BY <1>2, <1>6, <1>8 DEF Sound, RoomOf
  <2>. QED
    BY <1>2, <1>4, <1>5, <1>8, <1>10, <2>1 DEF Sound, RoomOf
<1>13. ShownOf(t)
  BY <1>2, <1>8 DEF Sound, ShownOf, IsShowing
<1>14. AsksOf(t)
  <2>. SUFFICES ASSUME ~c, ~s.astray PROVE AsksOf(t)
    BY <1>8 DEF AsksOf
  <2>1. AsksOf(s) /\ ~s.crossed
    BY <1>2, <1>6 DEF Sound
  <2>2. /\ \A i \in 1..(Len(q) - 1) : q[i + 1] # q[i]
        /\ q[Len(q)] = s.wish
        /\ s.flight = "mic" /\ s.ahead = Len(q) /\ s.room = "live" => s.first = s.wish
        /\ s.flight = "mic" /\ s.ahead < Len(q) => q[s.ahead + 1] # s.first
        /\ ~(s.mic = "on" /\ q[1] = "on")
    BY <1>1, <2>1 DEF AsksOf
  <2>3. CASE ok
    <3>1. mic = q[1] /\ wish = s.wish
      BY <1>6, <2>3
    <3>2. CASE Len(q) = 1
      <4>1. Tail(q) = <<>> /\ Len(Tail(q)) = 0 /\ mic = wish
        BY <1>7, <2>2, <3>1, <3>2
      <4>2. s.flight = "mic" => s.ahead = 1 /\ ahead = 0
        <5>1. s.flight = "mic" => s.ahead <= 1 /\ s.ahead > 0
          BY <1>1, <1>2, <3>2 DEF Sound, RoomOf
        <5>. HIDE DEF s
        <5>. QED
          BY <1>3, <1>5, <5>1
      <4>3. s.flight = "mic" => s.first = s.wish \/ s.room # "live"
        BY <2>2, <3>2, <4>2
      <4>. QED
        BY <1>8, <3>1, <4>1, <4>2, <4>3 DEF AsksOf
    <3>3. CASE Len(q) # 1
      <4>1. /\ Len(q) - 1 \in Nat /\ Len(q) - 1 >= 1 /\ Tail(q) # <<>>
            /\ 1 \in 1..(Len(q) - 1) /\ 1 + 1 = 2
        BY <1>7, <3>3
      <4>2. Tail(q)[1] # mic
        BY <1>7, <2>2, <3>1, <4>1
      <4>3. ASSUME NEW i \in 1..(Len(Tail(q)) - 1)
            PROVE  Tail(q)[i + 1] # Tail(q)[i]
        <5>1. i \in 1..(Len(q) - 1) /\ i + 1 \in 1..(Len(q) - 1)
          BY <1>7
        <5>2. Tail(q)[i] = q[i + 1] /\ Tail(q)[i + 1] = q[(i + 1) + 1]
          BY <1>7, <5>1
        <5>3. q[(i + 1) + 1] # q[i + 1]
          BY <2>2, <5>1
        <5>. QED
          BY <5>2, <5>3
      <4>4. Tail(q)[Len(Tail(q))] = wish
        <5>1. Len(q) - 1 \in 1..(Len(q) - 1) /\ (Len(q) - 1) + 1 = Len(q)
          BY <1>7, <4>1
        <5>2. Tail(q)[Len(q) - 1] = q[Len(q)]
          BY <1>7, <5>1
        <5>. QED
          BY <1>7, <2>2, <3>1, <5>2
      <4>5. s.flight = "mic" /\ ahead = Len(Tail(q)) /\ s.room = "live" => s.first = wish
        <5>1. s.flight = "mic" /\ ahead = Len(Tail(q)) => s.ahead = Len(q)
          <6>. HIDE DEF s
          <6>. QED
            BY <1>3, <1>5, <1>7
        <5>. QED
          BY <2>2, <3>1, <5>1
      <4>6. s.flight = "mic" /\ ahead < Len(Tail(q)) => Tail(q)[ahead + 1] # s.first
        <5>. SUFFICES ASSUME s.flight = "mic", ahead < Len(Tail(q))
                      PROVE  Tail(q)[ahead + 1] # s.first
          OBVIOUS
        <5>1. s.ahead < Len(q) /\ ahead + 1 \in 1..(Len(q) - 1) /\ (ahead + 1) + 1 = s.ahead + 1
          <6>1. s.flight = "mic"
            OBVIOUS
          <6>. HIDE DEF s
          <6>. QED
            BY <1>3, <1>5, <1>7, <6>1
        <5>2. Tail(q)[ahead + 1] = q[s.ahead + 1]
          BY <1>7, <5>1
        <5>. QED
          BY <2>2, <5>1, <5>2
      <4>. QED
        BY <1>8, <4>1, <4>2, <4>3, <4>4, <4>5, <4>6 DEF AsksOf
    <3>. QED
      BY <3>2, <3>3
  <2>4. CASE ~ok
    <3>1. Tail(q) = <<>> /\ s.flight # "mic" /\ mic = s.mic /\ wish = Other(q[1])
      BY <1>6, <2>4
    <3>2. Len(Tail(q)) = 0 /\ 1..(Len(Tail(q)) - 1) = {}
      <4>1. Len(Tail(q)) = 0
        BY <1>7, <3>1
      <4>2. 1..(0 - 1) = {}
        OBVIOUS
      <4>. QED
        BY <4>1, <4>2
    <3>3. ~(wish = "off" /\ mic = "on")
      BY <2>2, <1>7, <3>1 DEF Other, Switch
    <3>. QED
      BY <1>8, <3>1, <3>2, <3>3 DEF AsksOf
  <2>. QED
    BY <2>3, <2>4
<1>15. Sound(t) /\ (HasAudio(t) => audio = "on")
  BY <1>2, <1>8, <1>11, <1>12, <1>13, <1>14 DEF Sound, HasAudio
<1>16. Becomes(m, t)
  BY <1>6 DEF t
<1>17. t.view = "open" <=> call[m].view = "open"
  BY <1>8
<1>. QED
  BY <1>1, <1>2, <1>8, <1>9, <1>15, <1>16, <1>17, MountMoves

LEMMA LostStep ==
    ASSUME VoiceInv, NEW m \in Mounts, LostRefused(m)
    PROVE  VoiceInv'
<1>. DEFINE s == call[m]
            q == s.lost
            f == s.crossed \/ s.asks # <<>> \/ s.room = "live"
<1>1. q # <<>> /\ audio' = audio
      /\ Becomes(m, [s EXCEPT !.lost = Tail(q), !.wish = Other(Head(q)), !.crossed = f])
  BY DEF LostRefused, Quiet
<1>2. s \in Call /\ Sound(s) /\ Bounded(s) /\ audio \in {"off", "on", "stray"}
      /\ (HasAudio(s) => audio = "on")
  BY OfMount
<1>3. PICK c \in BOOLEAN : c = f
  <2>1. f \in BOOLEAN
    OBVIOUS
  <2>. QED
    BY <2>1
<1>4. ~c => ~s.crossed /\ s.asks = <<>> /\ s.room # "live"
  BY <1>3
<1>. DEFINE w == Other(Head(q))
            t == [s EXCEPT !.lost = Tail(q), !.wish = w, !.crossed = c]
<1>5. w \in Switch
  BY DEF Other, Switch
<1>6. Becomes(m, t)
  BY <1>1, <1>3
<1>7. q \in Seq(Switch) /\ s.asks \in Seq(Switch)
  BY <1>2 DEF Call
<1>8. Tail(q) \in Seq(Switch) /\ Len(Tail(q)) = Len(q) - 1 /\ Len(q) \in Nat
  BY <1>1, <1>7, Tails
<1>. HIDE DEF s, q, w
<1>9. /\ t \in Call /\ t.view = s.view /\ t.asks = s.asks /\ t.lost = Tail(q)
      /\ t.wish = w /\ t.mic = s.mic /\ t.crossed = c /\ t.ahead = s.ahead
      /\ t.flight = s.flight /\ t.room = s.room /\ t.stale = s.stale /\ t.ref = s.ref
      /\ t.ending = s.ending /\ t.status = s.status /\ t.first = s.first /\ t.drops = s.drops
      /\ t.stops = s.stops /\ t.overrun = s.overrun /\ t.astray = s.astray
  BY <1>2, <1>5, <1>8 DEF Call
<1>. HIDE DEF t
<1>10. Bounded(t)
  <2>1. Len(s.asks) + Len(q) <= MaxToggles
    BY <1>2 DEF Bounded, q
  <2>2. Len(s.asks) \in Nat /\ MaxToggles \in Nat
    BY <1>7, VoiceAssumption
  <2>3. Len(s.asks) + (Len(q) - 1) <= MaxToggles
    BY <1>8, <2>1, <2>2
  <2>. QED
    BY <1>8, <1>9, <2>3 DEF Bounded
<1>11. s.view # "unopened" /\ (s.view = "closed" => s.astray)
  BY <1>1, <1>2 DEF Sound, MountOf, Untouched, q
<1>12. MountOf(t) /\ RoomOf(t) /\ ShownOf(t)
  BY <1>2, <1>9, <1>11 DEF Sound, MountOf, RoomOf, ShownOf, IsShowing
<1>13. AsksOf(t)
  <2>. SUFFICES ASSUME ~c PROVE AsksOf(t)
    BY <1>9 DEF AsksOf
  <2>1. s.room = "none" \/ s.room = "connecting"
    BY <1>2, <1>4 DEF Call
  <2>2. s.mic = "off" /\ s.ahead = 0
    BY <1>2, <2>1 DEF Sound, RoomOf
  <2>. QED
    BY <1>4, <1>9, <2>2, NoAsks
<1>14. Sound(t) /\ (HasAudio(t) => audio = "on")
  BY <1>2, <1>9, <1>12, <1>13 DEF Sound, HasAudio
<1>. QED
  BY <1>1, <1>2, <1>6, <1>9, <1>10, <1>14, MountMoves DEF s

LEMMA MuteStep ==
    ASSUME VoiceInv, NEW m \in Mounts, ToggleMute(m)
    PROVE  VoiceInv'
<1>. DEFINE s == call[m]
            w == Other(s.wish)
            gone == s.room = "none" \/ s.ref = "older"
            A == IF s.ref # "none" /\ ~gone THEN Append(s.asks, w) ELSE s.asks
            L == IF s.ref # "none" /\ gone THEN Append(s.lost, w) ELSE s.lost
            t == [s EXCEPT !.wish = w, !.asks = A, !.lost = L]
<1>1. /\ s.view = "open" /\ Len(s.asks) + Len(s.lost) < MaxToggles
      /\ audio' = audio /\ Becomes(m, t)
  BY DEF ToggleMute, Quiet
<1>2. s \in Call /\ Sound(s) /\ Bounded(s) /\ audio \in {"off", "on", "stray"}
      /\ (HasAudio(s) => audio = "on")
  BY OfMount
<1>3. s.asks \in Seq(Switch) /\ s.lost \in Seq(Switch) /\ s.ahead \in Nat /\ s.wish \in Switch
  BY <1>2 DEF Call
<1>4. w \in Switch /\ w # s.wish
  BY <1>3 DEF Other, Switch
<1>. HIDE DEF w
<1>5. /\ A \in Seq(Switch) /\ L \in Seq(Switch) /\ Len(A) \in Nat /\ Len(L) \in Nat
      /\ Len(s.asks) \in Nat /\ Len(s.lost) \in Nat
      /\ Len(A) = Len(s.asks) \/ Len(A) = Len(s.asks) + 1
      /\ Len(L) = Len(s.lost) \/ Len(L) = Len(s.lost) + 1
      /\ Len(A) = Len(s.asks) \/ Len(L) = Len(s.lost)
  <2>. HIDE DEF s
  <2>. QED
    BY <1>3, <1>4
<1>6. /\ s.room = "none" => A = s.asks
      /\ s.room # "none" /\ ~s.astray => A = Append(s.asks, w) /\ L = s.lost
  BY <1>2 DEF Sound, RoomOf
<1>. HIDE DEF s, A, L
<1>7. /\ t \in Call /\ t.view = s.view /\ t.asks = A /\ t.lost = L
      /\ t.wish = w /\ t.mic = s.mic /\ t.crossed = s.crossed /\ t.ahead = s.ahead
      /\ t.flight = s.flight /\ t.room = s.room /\ t.stale = s.stale /\ t.ref = s.ref
      /\ t.ending = s.ending /\ t.status = s.status /\ t.first = s.first /\ t.drops = s.drops
      /\ t.stops = s.stops /\ t.overrun = s.overrun /\ t.astray = s.astray
  BY <1>2, <1>4, <1>5 DEF Call
<1>. HIDE DEF t
<1>8. Bounded(t)
  <2>0. \A a, b, c, d, k \in Nat :
          a + b < k /\ (c = a \/ c = a + 1) /\ (d = b \/ d = b + 1) /\ (c = a \/ d = b)
              => c + d <= k
    OBVIOUS
  <2>1. Len(A) + Len(L) <= MaxToggles
    <3>1. MaxToggles \in Nat
      BY VoiceAssumption
    <3>. QED
      BY <1>1, <1>5, <2>0, <3>1, Zenon
  <2>. QED
    BY <1>7, <2>1 DEF Bounded
<1>9. MountOf(t) /\ ShownOf(t)
  BY <1>1, <1>2, <1>7 DEF Sound, MountOf, ShownOf, IsShowing
<1>10. RoomOf(t)
  <2>1. s.ahead <= Len(s.asks) => s.ahead <= Len(A)
    BY <1>3, <1>5
  <2>. QED
    BY <1>2, <1>6, <1>7, <2>1 DEF Sound, RoomOf
<1>11. AsksOf(t)
  <2>. SUFFICES ASSUME ~s.astray PROVE AsksOf(t)
    BY <1>7 DEF AsksOf
  <2>1. CASE s.room = "none"
    BY <1>2, <1>6, <1>7, <2>1, NoAsks DEF Sound, RoomOf
  <2>2. CASE s.room # "none"
    <3>. SUFFICES ASSUME ~s.crossed PROVE AsksOf(t)
      BY <1>7 DEF AsksOf
    <3>. DEFINE q == s.asks
                n == Len(s.asks)
    <3>1. AsksOf(s) /\ RoomOf(s)
      BY <1>2 DEF Sound
    <3>2. /\ \A i \in 1..(n - 1) : q[i + 1] # q[i]
          /\ q # <<>> => q[n] = s.wish
          /\ s.flight = "mic" /\ s.ahead = n /\ s.room = "live" => s.first = s.wish
          /\ s.flight = "mic" /\ s.ahead < n => q[s.ahead + 1] # s.first
          /\ q # <<>> /\ (s.flight = "mic" => s.ahead > 0) => ~(s.mic = "on" /\ q[1] = "on")
          /\ q = <<>> /\ s.flight # "mic" => ~(s.wish = "off" /\ s.mic = "on")
      BY <3>1 DEF AsksOf
    <3>. HIDE DEF n
    <3>3. /\ A \in Seq(Switch) /\ Len(A) = n + 1 /\ n \in Nat /\ A[n + 1] = w
          /\ \A i \in 1..n : A[i] = q[i]
          /\ A # <<>>
      <4>1. A = Append(q, w)
        BY <1>6, <2>2
      <4>. HIDE DEF q
      <4>. QED
        BY <1>3, <1>4, <4>1 DEF n, q
    <3>4. q = <<>> <=> n = 0
      BY <1>3 DEF n
    <3>5. ASSUME NEW i \in 1..(Len(A) - 1) PROVE A[i + 1] # A[i]
      <4>1. CASE i = n
        <5>1. n \in 1..n /\ q # <<>>
          BY <3>3, <3>4, <4>1
        <5>2. A[i] = s.wish /\ A[i + 1] = w
          BY <3>2, <3>3, <4>1, <5>1
        <5>. QED
          BY <1>4, <5>2
      <4>2. CASE i # n
        <5>1. i \in 1..n /\ i + 1 \in 1..n /\ i \in 1..(n - 1)
          BY <3>3, <4>2
        <5>. QED
          BY <3>2, <3>3, <5>1
      <4>. QED
        BY <4>1, <4>2
    <3>6. A[Len(A)] = w
      BY <3>3
    <3>7. s.flight = "mic" => s.ahead # Len(A)
      <4>1. s.flight = "mic" => s.ahead <= n
        BY <3>1 DEF RoomOf, n
      <4>. QED
        BY <1>3, <3>3, <4>1
    <3>8. s.flight = "mic" => A[s.ahead + 1] # s.first
      <4>. SUFFICES ASSUME s.flight = "mic" PROVE A[s.ahead + 1] # s.first
        OBVIOUS
      <4>0. s.ahead <= n
        BY <3>1 DEF RoomOf, n
      <4>1. CASE s.ahead = n
        <5>1. s.room = "live"
          BY <1>2, <2>2, <3>1 DEF RoomOf, Call
        <5>2. s.first = s.wish
          BY <3>2, <4>1, <5>1
        <5>. QED
          BY <1>4, <3>3, <4>1, <5>2
      <4>2. CASE s.ahead # n
        <5>1. s.ahead < n /\ s.ahead + 1 \in 1..n
          BY <1>3, <3>3, <4>0, <4>2
        <5>. QED
          BY <3>2, <3>3, <5>1
      <4>. QED
        BY <4>1, <4>2
    <3>9. (s.flight = "mic" => s.ahead > 0) => ~(s.mic = "on" /\ A[1] = "on")
      <4>. SUFFICES ASSUME s.flight = "mic" => s.ahead > 0, s.mic = "on", A[1] = "on"
                    PROVE  FALSE
        OBVIOUS
      <4>1. CASE n = 0
        <5>1. A[1] = w /\ s.flight # "mic"
          <6>1. s.flight = "mic" => s.ahead <= 0
            BY <3>1, <4>1 DEF RoomOf, n
          <6>2. ~(s.ahead <= 0 /\ s.ahead > 0)
            BY <1>3
          <6>3. n + 1 = 1
            BY <4>1
          <6>. QED
            BY <3>3, <6>1, <6>2, <6>3
        <5>2. s.wish # "off"
          BY <3>2, <3>4, <4>1, <5>1
        <5>. QED
          BY <1>3, <1>4, <5>1, <5>2 DEF Switch
      <4>2. CASE n # 0
        <5>1. 1 \in 1..n /\ q # <<>>
          BY <3>3, <3>4, <4>2
        <5>2. A[1] = q[1]
          BY <3>3, <5>1
        <5>. QED
          BY <3>2, <5>1, <5>2
      <4>. QED
        BY <4>1, <4>2
    <3>. QED
      BY <1>7, <3>3, <3>5, <3>6, <3>7, <3>8, <3>9 DEF AsksOf
  <2>. QED
    BY <2>1, <2>2
<1>12. Sound(t) /\ (HasAudio(t) => audio = "on")
  BY <1>2, <1>7, <1>9, <1>10, <1>11 DEF Sound, HasAudio
<1>. QED
  BY <1>1, <1>2, <1>7, <1>8, <1>12, MountMoves DEF s

-----------------------------------------------------------------------------
(***************************************************************************)
(* The room's events; those of the current room only are listened to.      *)
(***************************************************************************)
LEMMA ShowsStep ==
    ASSUME VoiceInv, NEW m \in Mounts, IsCurrent(m), call[m].room # "none",
           NEW agent \in BOOLEAN, NEW status \in Active,
           Becomes(m, [call[m] EXCEPT !.heard = agent, !.status = status]),
           UNCHANGED audio
    PROVE  VoiceInv'
<1>. DEFINE s == call[m]
            t == [s EXCEPT !.heard = agent, !.status = status]
<1>1. s \in Call /\ Sound(s) /\ Bounded(s) /\ audio \in {"off", "on", "stray"}
      /\ (HasAudio(s) => audio = "on")
  BY OfMount
<1>2. s.room # "none" /\ ~s.stale /\ s.ref = "own" /\ Becomes(m, t)
  BY DEF IsCurrent
<1>. HIDE DEF s
<1>3. /\ t \in Call /\ t.view = s.view /\ t.asks = s.asks /\ t.lost = s.lost
      /\ t.wish = s.wish /\ t.mic = s.mic /\ t.crossed = s.crossed /\ t.ahead = s.ahead
      /\ t.flight = s.flight /\ t.room = s.room /\ t.stale = s.stale /\ t.ref = s.ref
      /\ t.ending = s.ending /\ t.status = status /\ t.first = s.first /\ t.drops = s.drops
      /\ t.stops = s.stops /\ t.overrun = s.overrun /\ t.astray = s.astray
  BY <1>1 DEF Call
<1>. HIDE DEF t
<1>4. AsksOf(t)
  BY <1>1, <1>3, SameAsks DEF Sound
<1>5. s.view # "unopened" /\ s.flight \in {"connect", "mic", "idle"}
  BY <1>1, <1>2 DEF Sound, MountOf, RoomOf, Untouched, Call
<1>6. MountOf(t) /\ RoomOf(t) /\ ShownOf(t)
  BY <1>1, <1>2, <1>3, <1>5 DEF Sound, MountOf, RoomOf, ShownOf, IsShowing, Active
<1>7. Sound(t) /\ Bounded(t) /\ (HasAudio(t) => audio = "on")
  BY <1>1, <1>3, <1>4, <1>6 DEF Sound, Bounded, HasAudio
<1>. QED
  BY <1>1, <1>2, <1>3, <1>7, MountMoves DEF s

LEMMA EventSteps ==
    ASSUME VoiceInv, NEW m \in Mounts,
           AgentHeard(m) \/ AgentLost(m) \/ Reconnecting(m) \/ Reconnected(m)
    PROVE  VoiceInv'
<1>1. call[m] \in Call /\ Sound(call[m])
  BY OfMount
<1>2. CASE AgentHeard(m)
  <2>1. TRUE \in BOOLEAN /\ "connected" \in Active
    BY DEF Active
  <2>. QED
    BY <1>2, <2>1, ShowsStep DEF AgentHeard, Quiet
<1>3. CASE AgentLost(m)
  <2>1. /\ IsCurrent(m) /\ call[m].room # "none" /\ UNCHANGED audio
        /\ Becomes(m, [call[m] EXCEPT !.heard = FALSE,
               !.status = IF call[m].room = "live" THEN "waiting_for_agent" ELSE call[m].status])
    BY <1>3 DEF AgentLost, Quiet
  <2>2. CASE call[m].status \in Active \/ call[m].room = "live"
    <3>. DEFINE status == IF call[m].room = "live" THEN "waiting_for_agent" ELSE call[m].status
    <3>1. status \in Active
      BY <2>2 DEF Active
    <3>. HIDE DEF status
    <3>2. Becomes(m, [call[m] EXCEPT !.heard = FALSE, !.status = status])
      BY <2>1 DEF status
    <3>3. FALSE \in BOOLEAN
      OBVIOUS
    <3>. QED
      BY <2>1, <3>1, <3>2, <3>3, ShowsStep
  <2>3. CASE call[m].status \notin Active /\ call[m].room # "live"
    <3>. DEFINE s == call[m]
                t == [s EXCEPT !.heard = FALSE, !.status = s.status]
    <3>1. Becomes(m, t)
      BY <2>1, <2>3
    <3>2. s \in Call /\ Sound(s) /\ Bounded(s) /\ audio \in {"off", "on", "stray"}
          /\ (HasAudio(s) => audio = "on")
      BY OfMount
    <3>3. s.view # "unopened"
      BY <2>1, <3>2 DEF Sound, MountOf, Untouched
    <3>. HIDE DEF s
    <3>4. /\ t \in Call /\ t.view = s.view /\ t.asks = s.asks /\ t.lost = s.lost
          /\ t.wish = s.wish /\ t.mic = s.mic /\ t.crossed = s.crossed /\ t.ahead = s.ahead
          /\ t.flight = s.flight /\ t.room = s.room /\ t.stale = s.stale /\ t.ref = s.ref
          /\ t.ending = s.ending /\ t.status = s.status /\ t.first = s.first /\ t.drops = s.drops
          /\ t.stops = s.stops /\ t.overrun = s.overrun /\ t.astray = s.astray
      BY <3>2 DEF Call
    <3>. HIDE DEF t
    <3>5. AsksOf(t)
      BY <3>2, <3>4, SameAsks DEF Sound
    <3>6. MountOf(t) /\ RoomOf(t) /\ ShownOf(t)
      BY <3>2, <3>3, <3>4 DEF Sound, MountOf, RoomOf, ShownOf, IsShowing
    <3>7. Sound(t) /\ Bounded(t) /\ (HasAudio(t) => audio = "on")
      BY <3>2, <3>4, <3>5, <3>6 DEF Sound, Bounded, HasAudio
    <3>. QED
      BY <2>1, <3>1, <3>2, <3>4, <3>7, MountMoves DEF s
  <2>. QED
    BY <2>2, <2>3
<1>4. CASE Reconnecting(m)
  <2>1. [call[m] EXCEPT !.status = "reconnecting"]
        = [call[m] EXCEPT !.heard = call[m].heard, !.status = "reconnecting"]
    BY <1>1 DEF Call
  <2>2. call[m].heard \in BOOLEAN /\ "reconnecting" \in Active
    BY <1>1 DEF Call, Active
  <2>. QED
    BY <1>4, <2>1, <2>2, ShowsStep DEF Reconnecting, Quiet
<1>5. CASE Reconnected(m)
  <2>. DEFINE status == IF call[m].heard THEN "connected" ELSE "waiting_for_agent"
  <2>1. [call[m] EXCEPT !.status = status]
        = [call[m] EXCEPT !.heard = call[m].heard, !.status = status]
    BY <1>1 DEF Call
  <2>2. call[m].heard \in BOOLEAN /\ status \in Active
    BY <1>1 DEF Call, Active
  <2>3. IsCurrent(m) /\ Becomes(m, [call[m] EXCEPT !.heard = call[m].heard, !.status = status])
        /\ UNCHANGED audio /\ call[m].status = "reconnecting"
    BY <1>5, <2>1 DEF Reconnected, Quiet
  <2>. HIDE DEF status
  <2>4. CASE call[m].room # "none"
    BY <2>2, <2>3, <2>4, ShowsStep
  <2>5. CASE call[m].room = "none"
    BY <1>1, <2>3, <2>5 DEF IsCurrent, Sound, RoomOf
  <2>. QED
    BY <2>4, <2>5
<1>. QED
  BY <1>2, <1>3, <1>4, <1>5

(***************************************************************************)
(* A room is left: by the server, by "End", and by the screen closing.     *)
(***************************************************************************)
LEMMA RoomDroppedStep ==
    ASSUME VoiceInv, NEW m \in Mounts, RoomDropped(m)
    PROVE  VoiceInv'
<1>. DEFINE s == call[m]
            r == Roomless(s)
            t == [r EXCEPT !.ref = "none", !.status = "error"]
<1>1. s \in Call /\ Sound(s) /\ Bounded(s)
  BY OfMount
<1>2. s.room # "none" /\ ~s.stale /\ audio' = "off" /\ Becomes(m, [Dropped(s) EXCEPT !.status = "error"])
  BY DEF RoomDropped, IsCurrent
<1>3. s.view = "open"
  BY <1>1, <1>2 DEF Sound, MountOf, Untouched, Call
<1>. HIDE DEF s
<1>4. /\ r \in Call /\ Bounded(r) /\ AsksOf(r) /\ r.view = s.view
      /\ r = [s EXCEPT !.room = "none", !.mic = "off", !.heard = FALSE,
                       !.asks = <<>>, !.ahead = 0, !.lost = r.lost]
  BY <1>1, LeavingRooms
<1>5. Dropped(s) = [r EXCEPT !.ref = "none"]
  BY DEF Dropped
<1>. HIDE DEF r
<1>6. [Dropped(s) EXCEPT !.status = "error"] = t
  BY <1>4, <1>5
<1>7. r.asks = <<>> /\ r.mic = "off" /\ r.room = "none" /\ r.ahead = 0 /\ r.stale = s.stale
      /\ r.flight = s.flight
  BY <1>1, <1>4 DEF Call
<1>8. /\ t \in Call /\ t.view = r.view /\ t.asks = r.asks /\ t.lost = r.lost /\ t.mic = r.mic
      /\ t.room = r.room /\ t.ahead = r.ahead /\ t.stale = r.stale /\ t.flight = r.flight
      /\ t.ref = "none" /\ t.status = "error"
  BY <1>4 DEF Call
<1>9. s.flight \in {"connect", "mic", "idle"}
  BY <1>1, <1>2 DEF Sound, RoomOf, Call
<1>. HIDE DEF t
<1>10. Bounded(t) /\ AsksOf(t)
  BY <1>4, <1>7, <1>8, NoAsks DEF Bounded
<1>11. 0 <= Len(<<>>)
  OBVIOUS
<1>12. MountOf(t) /\ RoomOf(t) /\ ShownOf(t)
  BY <1>2, <1>3, <1>4, <1>7, <1>8, <1>9, <1>11 DEF MountOf, RoomOf, ShownOf, IsShowing, Active
<1>13. Sound(t) /\ ~HasAudio(t)
  BY <1>7, <1>8, <1>9, <1>10, <1>12 DEF Sound, HasAudio
<1>14. Becomes(m, t) /\ call[m].view = "open" /\ t.view = "open"
  BY <1>2, <1>3, <1>4, <1>6, <1>8 DEF s
<1>. QED
  BY <1>2, <1>8, <1>10, <1>13, <1>14, MountMoves

\* roomRef is emptied; a room it did not hold goes on.
LEMMA LettingGo ==
    ASSUME NEW s \in Call, RoomOf(s), Bounded(s), AsksOf(s)
    PROVE  LET t == LetGo(s) IN
           /\ t \in Call /\ Bounded(t) /\ AsksOf(t) /\ RoomOf([t EXCEPT !.stale = TRUE])
           /\ t.ref = "none" /\ t.view = s.view /\ t.astray = s.astray
           /\ s.astray \/ (t.room = "none" /\ t.mic = "off" /\ t.asks = <<>> /\ t.ahead = 0)
<1>. DEFINE r == Roomless(s)
            t == LetGo(s)
<1>1. CASE s.ref = "own"
  <2>1. /\ r \in Call /\ Bounded(r) /\ AsksOf(r) /\ r.view = s.view
        /\ r = [s EXCEPT !.room = "none", !.mic = "off", !.heard = FALSE,
                         !.asks = <<>>, !.ahead = 0, !.lost = r.lost]
    BY LeavingRooms
  <2>2. t = [r EXCEPT !.ref = "none"]
    BY <1>1 DEF LetGo, Dropped
  <2>. HIDE DEF r, t
  <2>3. r.asks = <<>> /\ r.mic = "off" /\ r.room = "none" /\ r.ahead = 0 /\ r.astray = s.astray
    BY <2>1 DEF Call
  <2>4. /\ t \in Call /\ t.view = r.view /\ t.asks = r.asks /\ t.lost = r.lost /\ t.mic = r.mic
        /\ t.room = r.room /\ t.ahead = r.ahead /\ t.ref = "none" /\ t.astray = r.astray
    BY <2>1, <2>2 DEF Call
  <2>5. Bounded(t) /\ AsksOf(t)
    BY <2>1, <2>3, <2>4, NoAsks DEF Bounded
  <2>6. RoomOf([t EXCEPT !.stale = TRUE])
    <3>. DEFINE u == [t EXCEPT !.stale = TRUE]
    <3>1. /\ u.asks = <<>> /\ u.mic = "off" /\ u.room = "none" /\ u.ahead = 0
          /\ u.ref = "none"
      BY <2>3, <2>4 DEF Call
    <3>2. 0 <= Len(<<>>)
      OBVIOUS
    <3>. HIDE DEF u
    <3>. QED
      BY <3>1, <3>2 DEF RoomOf, u
  <2>. QED
    BY <2>1, <2>3, <2>4, <2>5, <2>6 DEF t
<1>2. CASE s.ref # "own"
  <2>1. t = [s EXCEPT !.ref = "none"]
    BY <1>2 DEF LetGo
  <2>. HIDE DEF t
  <2>2. /\ t \in Call /\ t.view = s.view /\ t.asks = s.asks /\ t.lost = s.lost
        /\ t.wish = s.wish /\ t.mic = s.mic /\ t.crossed = s.crossed /\ t.ahead = s.ahead
        /\ t.flight = s.flight /\ t.room = s.room /\ t.ref = "none"
        /\ t.first = s.first /\ t.astray = s.astray
    BY <2>1 DEF Call
  <2>3. s.astray \/ s.room = "none"
    BY <1>2 DEF RoomOf
  <2>4. s.room = "none" => s.mic = "off" /\ s.asks = <<>> /\ s.ahead = 0
    BY DEF RoomOf
  <2>5. Bounded(t) /\ AsksOf(t)
    BY <2>2, SameAsks DEF Bounded
  <2>6. RoomOf([t EXCEPT !.stale = TRUE])
    <3>. DEFINE u == [t EXCEPT !.stale = TRUE]
    <3>1. /\ u.view = s.view /\ u.asks = s.asks /\ u.mic = s.mic /\ u.ahead = s.ahead
          /\ u.flight = s.flight /\ u.room = s.room /\ u.ref = "none" /\ u.astray = s.astray
      BY <2>2 DEF Call
    <3>. HIDE DEF u
    <3>2. RoomOf(u)
      BY <2>3, <3>1 DEF RoomOf
    <3>. QED
      BY <3>2 DEF u
  <2>. QED
    BY <2>2, <2>3, <2>4, <2>5, <2>6 DEF t
<1>. QED
  BY <1>1, <1>2

LEMMA EndStep ==
    ASSUME VoiceInv, NEW m \in Mounts, End(m)
    PROVE  VoiceInv'
<1>. DEFINE s == call[m]
            g == LetGo(s)
            ending == IF s.ref # "none" THEN "leaving" ELSE "stopping"
            t == [g EXCEPT !.stale = TRUE, !.ending = ending]
<1>1. s \in Call /\ Sound(s) /\ Bounded(s) /\ audio \in {"off", "on", "stray"}
  BY OfMount
<1>2. /\ s.view = "open" /\ Becomes(m, t)
      /\ audio' = "off" \/ audio' = audio
  BY DEF End
<1>. HIDE DEF s
<1>3. /\ g \in Call /\ Bounded(g) /\ AsksOf(g) /\ RoomOf([g EXCEPT !.stale = TRUE])
      /\ g.view = s.view
  BY <1>1, LettingGo DEF Sound
<1>. HIDE DEF g
<1>4. ending \in {"leaving", "stopping"}
  OBVIOUS
<1>. HIDE DEF ending
<1>5. /\ t \in Call /\ t.view = g.view /\ t.asks = g.asks /\ t.lost = g.lost
      /\ t.wish = g.wish /\ t.mic = g.mic /\ t.crossed = g.crossed /\ t.ahead = g.ahead
      /\ t.flight = g.flight /\ t.room = g.room /\ t.stale /\ t.ref = g.ref
      /\ t.ending = ending /\ t.first = g.first /\ t.astray = g.astray
  BY <1>3, <1>4 DEF Call
<1>6. RoomOf(t)
  <2>. DEFINE u == [g EXCEPT !.stale = TRUE]
  <2>1. /\ u.view = g.view /\ u.asks = g.asks /\ u.mic = g.mic /\ u.ahead = g.ahead
        /\ u.flight = g.flight /\ u.room = g.room /\ u.stale /\ u.ref = g.ref
        /\ u.astray = g.astray
    BY <1>3 DEF Call
  <2>2. RoomOf(u)
    BY <1>3
  <2>. HIDE DEF t, u
  <2>. QED
    BY <1>5, <2>1, <2>2 DEF RoomOf
<1>. HIDE DEF t
<1>7. Bounded(t) /\ AsksOf(t)
  BY <1>3, <1>5, SameAsks DEF Bounded
<1>8. MountOf(t) /\ ShownOf(t)
  BY <1>2, <1>3, <1>4, <1>5 DEF MountOf, ShownOf, IsShowing
<1>9. Sound(t) /\ ~HasAudio(t)
  BY <1>5, <1>6, <1>7, <1>8 DEF Sound, HasAudio
<1>10. /\ Becomes(m, t) /\ call[m].view = "open" /\ t.view = "open"
       /\ audio' \in {"off", "on", "stray"} /\ (audio' = "on" => audio = "on")
  BY <1>1, <1>2, <1>3, <1>5 DEF s
<1>. QED
  BY <1>5, <1>7, <1>9, <1>10, MountMoves

LEMMA LeftStep ==
    ASSUME VoiceInv, NEW m \in Mounts, RoomLeft(m)
    PROVE  VoiceInv'
<1>. DEFINE s == call[m]
            t == [s EXCEPT !.ending = "stopping"]
<1>1. s.ending = "leaving" /\ Silenced([call EXCEPT ![m] = t])
  BY DEF RoomLeft
<1>2. s \in Call /\ Sound(s) /\ Bounded(s)
  BY OfMount
<1>. HIDE DEF s
<1>3. /\ t \in Call /\ t.view = s.view /\ t.asks = s.asks /\ t.lost = s.lost
      /\ t.wish = s.wish /\ t.mic = s.mic /\ t.crossed = s.crossed /\ t.ahead = s.ahead
      /\ t.flight = s.flight /\ t.room = s.room /\ t.stale = s.stale /\ t.ref = s.ref
      /\ t.ending = "stopping" /\ t.status = s.status /\ t.first = s.first
      /\ t.astray = s.astray
  BY <1>2 DEF Call
<1>. HIDE DEF t
<1>4. AsksOf(t)
  BY <1>2, <1>3, SameAsks DEF Sound
<1>5. s.view # "unopened"
  BY <1>1, <1>2 DEF Sound, MountOf, Untouched
<1>6. MountOf(t) /\ RoomOf(t) /\ ShownOf(t)
  BY <1>2, <1>3, <1>5 DEF Sound, MountOf, RoomOf, ShownOf, IsShowing
<1>7. Sound(t) /\ Bounded(t)
  BY <1>2, <1>3, <1>4, <1>6 DEF Sound, Bounded
<1>8. t.view = call[m].view
  BY <1>3 DEF s
<1>. QED
  BY <1>1, <1>3, <1>7, <1>8, SilencedStep

LEMMA UnderWayIsTyped ==
    ASSUME NEW s \in Call, NEW flight \in {"idle", "token", "audio", "output", "connect", "mic"},
           NEW ending \in {"idle", "leaving", "stopping"},
           NEW older \in {"none", "audio", "output", "connect"}
    PROVE  /\ [s EXCEPT !.flight = flight] \in Call
           /\ [s EXCEPT !.ending = ending] \in Call
           /\ [s EXCEPT !.older = older] \in Call
<1>1. [s EXCEPT !.flight = flight] \in Call
  BY DEF Call
<1>2. [s EXCEPT !.ending = ending] \in Call
  BY DEF Call
<1>3. [s EXCEPT !.older = older] \in Call
  BY DEF Call
<1>. QED
  BY <1>1, <1>2, <1>3

(***************************************************************************)
(* Closing a screen leaves nothing of it but what is in flight, and a room *)
(* it had lost from sight.                                                 *)
(***************************************************************************)
LEMMA Unmounting ==
    ASSUME NEW s \in Call, RoomOf(s), AsksOf(s), Bounded(s)
    PROVE  /\ Unmounted(s) \in Call /\ Sound(Unmounted(s)) /\ Bounded(Unmounted(s))
           /\ Unmounted(s).view = "closed"
<1>. DEFINE g == IF s.astray THEN LetGo(s) ELSE Untouched
            t == Unmounted(s)
<1>1. /\ s.flight \in {"idle", "token", "audio", "output", "connect", "mic"}
      /\ s.ending \in {"idle", "leaving", "stopping"} /\ s.drops \in Nat /\ s.stops \in Nat
      /\ s.older \in {"none", "audio", "output", "connect"}
  BY DEF Call
<1>2. t = [g EXCEPT !.view = "closed", !.stale = TRUE, !.flight = s.flight,
                    !.ending = s.ending, !.drops = s.drops, !.stops = s.stops,
                    !.older = s.older]
  BY DEF Unmounted
<1>3. /\ g \in Call /\ Bounded(g) /\ g.ref = "none" /\ g.astray = s.astray
      /\ s.astray => g.flight = s.flight /\ RoomOf([g EXCEPT !.stale = TRUE])
      /\ ~s.astray => g = Untouched
  <2>1. CASE s.astray
    <3>1. LetGo(s).flight = s.flight
      BY DEF LetGo, Dropped, Roomless, Call
    <3>. QED
      BY <2>1, <3>1, LettingGo
  <2>2. CASE ~s.astray
    BY <2>2, Untouching DEF Untouched, Call
  <2>. QED
    BY <2>1, <2>2
<1>. HIDE DEF g, t
<1>4. t \in Call
  <2>. DEFINE a == [g EXCEPT !.view = "closed", !.stale = TRUE]
              b == [[a EXCEPT !.flight = s.flight] EXCEPT !.ending = s.ending]
              c == [b EXCEPT !.drops = s.drops, !.stops = s.stops]
              d == [c EXCEPT !.older = s.older]
  <2>1. t = d
    BY <1>2, <1>3 DEF Call
  <2>2. a \in Call
    BY <1>3 DEF Call
  <2>. HIDE DEF a
  <2>3. b \in Call
    BY <1>1, <2>2, UnderWayIsTyped
  <2>. HIDE DEF b
  <2>4. c \in Call
    BY <1>1, <2>3 DEF Call
  <2>. HIDE DEF c
  <2>5. d \in Call
    BY <1>1, <2>4, UnderWayIsTyped
  <2>. QED
    BY <2>1, <2>5
<1>5. /\ t.view = "closed" /\ t.stale /\ t.flight = s.flight /\ t.asks = g.asks
      /\ t.lost = g.lost /\ t.mic = g.mic /\ t.wish = g.wish /\ t.room = g.room
      /\ t.ahead = g.ahead /\ t.ref = g.ref /\ t.astray = g.astray
  BY <1>2, <1>3 DEF Call
<1>6. Bounded(t) /\ ShownOf(t)
  BY <1>3, <1>5 DEF Bounded, ShownOf, IsShowing
<1>7. CASE s.astray
  <2>. DEFINE u == [g EXCEPT !.stale = TRUE]
  <2>1. /\ u.view = g.view /\ u.asks = g.asks /\ u.mic = g.mic /\ u.ahead = g.ahead
        /\ u.flight = g.flight /\ u.room = g.room /\ u.stale /\ u.ref = g.ref
        /\ u.astray = g.astray
    BY <1>3 DEF Call
  <2>2. RoomOf(u) /\ g.flight = s.flight
    BY <1>3, <1>7
  <2>. HIDE DEF u
  <2>3. RoomOf(t)
    BY <1>3, <1>5, <1>7, <2>1, <2>2 DEF RoomOf
  <2>4. MountOf(t) /\ AsksOf(t)
    BY <1>3, <1>5, <1>7 DEF MountOf, AsksOf
  <2>. QED
    BY <1>4, <1>5, <1>6, <2>3, <2>4 DEF Sound, t
<1>8. CASE ~s.astray
  <2>1. /\ t.asks = <<>> /\ t.lost = <<>> /\ t.mic = "off" /\ t.wish = "on"
        /\ t.room = "none" /\ t.ahead = 0
    BY <1>3, <1>5, <1>8 DEF Untouched
  <2>2. AsksOf(t)
    BY <1>4, <2>1, NoAsks
  <2>3. 0 <= Len(<<>>)
    OBVIOUS
  <2>4. MountOf(t) /\ RoomOf(t)
    BY <1>3, <1>5, <2>1, <2>3 DEF MountOf, RoomOf
  <2>. QED
    BY <1>4, <1>5, <1>6, <2>2, <2>4 DEF Sound, t
<1>. QED
  BY <1>7, <1>8

LEMMA ClosedStep ==
    ASSUME VoiceInv, audio' \in {"off", "stray"},
           NEW next \in [Mounts -> Call], call' = next,
           \A n \in Mounts : /\ next[n].view # "open"
                              /\ Sound(next[n]) /\ Bounded(next[n])
    PROVE  VoiceInv'
<1>1. VoiceTypeOK'
  BY DEF VoiceTypeOK, Bounded
<1>2. \A n \in Mounts : Sound(call[n])'
  BY DEF Sound, MountOf, RoomOf, ShownOf, AsksOf, IsShowing
<1>3. \A n \in Mounts : ~(HasAudio(call[n])')
  BY DEF HasAudio
<1>. QED
  BY <1>1, <1>2, <1>3 DEF VoiceInv

LEMMA LeaveStep ==
    ASSUME VoiceInv, NEW m \in Mounts, LeaveCall(m)
    PROVE  VoiceInv'
<1>. DEFINE next == [call EXCEPT ![m] = Unmounted(call[m])]
<1>1. call[m].view = "open" /\ call' = next /\ audio' = "off"
  BY DEF LeaveCall, Becomes
<1>2. call \in [Mounts -> Call] /\ \A n \in Mounts : Sound(call[n]) /\ Bounded(call[n])
  BY DEF VoiceInv, VoiceTypeOK, Bounded
<1>3. /\ Unmounted(call[m]) \in Call /\ Sound(Unmounted(call[m]))
      /\ Bounded(Unmounted(call[m])) /\ Unmounted(call[m]).view = "closed"
  BY <1>2, Unmounting DEF Sound
<1>4. next \in [Mounts -> Call]
      /\ \A n \in Mounts : next[n] = IF n = m THEN Unmounted(call[m]) ELSE call[n]
  BY <1>2, <1>3
<1>5. \A n \in Mounts : n # m => call[n].view # "open"
  BY <1>1 DEF VoiceInv
<1>. HIDE DEF next
<1>6. \A n \in Mounts : next[n].view # "open" /\ Sound(next[n]) /\ Bounded(next[n])
  BY <1>2, <1>3, <1>4, <1>5
<1>. QED
  BY <1>1, <1>4, <1>6, ClosedStep

LEMMA EndedStep ==
    ASSUME VoiceInv, NEW m \in Mounts, Ended(m)
    PROVE  VoiceInv'
<1>. DEFINE s == call[m]
            t == [s EXCEPT !.ending = "idle", !.status = "disconnected"]
            of(n) == IF n = m THEN t ELSE call[n]
            next == [n \in Mounts |-> IF of(n).view = "open" THEN Unmounted(of(n)) ELSE of(n)]
<1>1. s.ending = "stopping" /\ call' = next
  BY DEF Ended
\* With no screen open, the audio session is off or astray already.
<1>0. audio' \in {"off", "stray"}
  <2>1. audio' = IF \E n \in Mounts : call[n].view = "open" THEN "off" ELSE audio
    BY DEF Ended
  <2>. QED
    BY <2>1 DEF VoiceInv, VoiceTypeOK
<1>2. \A n \in Mounts : call[n] \in Call /\ Sound(call[n]) /\ Bounded(call[n])
  BY DEF VoiceInv, VoiceTypeOK, Bounded
<1>3. t \in Call /\ t.view = s.view
  <2>1. s \in Call
    BY <1>2
  <2>. HIDE DEF s
  <2>. QED
    BY <2>1 DEF Call
<1>4. /\ RoomOf(t) /\ AsksOf(t) /\ Bounded(t)
      /\ t.view # "open" => Sound(t)
  <2>1. s \in Call /\ Sound(s) /\ Bounded(s)
    BY <1>2
  <2>2. s.view # "unopened"
    BY <1>1, <2>1 DEF Sound, MountOf, Untouched
  <2>. HIDE DEF s
  <2>3. /\ t.asks = s.asks /\ t.lost = s.lost
        /\ t.wish = s.wish /\ t.mic = s.mic /\ t.crossed = s.crossed /\ t.ahead = s.ahead
        /\ t.flight = s.flight /\ t.room = s.room /\ t.stale = s.stale /\ t.ref = s.ref
        /\ t.first = s.first /\ t.astray = s.astray
    BY <2>1 DEF Call
  <2>4. t.view = s.view /\ t \in Call
    BY <1>3
  <2>. HIDE DEF t
  <2>5. AsksOf(t)
    BY <2>1, <2>3, <2>4, SameAsks DEF Sound
  <2>6. RoomOf(t) /\ Bounded(t)
    BY <2>1, <2>3, <2>4 DEF Sound, RoomOf, Bounded
  <2>7. t.view # "open" => MountOf(t) /\ ShownOf(t)
    BY <2>1, <2>2, <2>3, <2>4 DEF Sound, MountOf, ShownOf, IsShowing
  <2>. QED
    BY <2>5, <2>6, <2>7 DEF Sound
<1>. HIDE DEF t
<1>5. \A n \in Mounts : /\ of(n) \in Call /\ RoomOf(of(n)) /\ AsksOf(of(n)) /\ Bounded(of(n))
                        /\ of(n).view # "open" => Sound(of(n))
  BY <1>2, <1>3, <1>4 DEF Sound
<1>. HIDE DEF of
<1>6. \A n \in Mounts : /\ next[n] \in Call /\ next[n].view # "open"
                        /\ Sound(next[n]) /\ Bounded(next[n])
  BY <1>5, Unmounting
<1>7. next \in [Mounts -> Call]
  <2>1. next = [n \in Mounts |-> next[n]]
    OBVIOUS
  <2>. HIDE DEF next
  <2>. QED
    BY <1>6, <2>1
<1>. HIDE DEF next
<1>. QED
  BY <1>0, <1>1, <1>6, <1>7, ClosedStep

-----------------------------------------------------------------------------
LEMMA VoiceInductive == VoiceInv /\ [VoiceNext]_voiceVars => VoiceInv'
<1>. SUFFICES ASSUME VoiceInv, [VoiceNext]_voiceVars PROVE VoiceInv'
  OBVIOUS
<1>1. CASE UNCHANGED voiceVars
  <2>1. call' = call /\ audio' = audio
    BY <1>1 DEF voiceVars
  <2>2. VoiceTypeOK'
    BY <2>1 DEF VoiceInv, VoiceTypeOK
  <2>3. \A m \in Mounts : Sound(call'[m]) /\ (HasAudio(call'[m]) => audio' = "on")
    BY <2>1 DEF VoiceInv
  <2>4. \A m \in Mounts : Sound(call[m])'
    BY <2>3 DEF Sound, MountOf, RoomOf, ShownOf, AsksOf, IsShowing
  <2>5. \A m \in Mounts : HasAudio(call[m])' => audio' = "on"
    BY <2>3 DEF HasAudio
  <2>. QED
    BY <2>1, <2>2, <2>4, <2>5 DEF VoiceInv
<1>2. CASE VoiceNext
  BY <1>2, OpenStep, StartStep, TokenStep, AudioStep, MadeStep, ConnectedStep, FailsStep,
     OlderStep, CatchLeavesStep, CatchShowsStep, FirstStep, ToggleStep, LostStep, MuteStep,
     EventSteps, RoomDroppedStep, EndStep, LeftStep, EndedStep, LeaveStep
     DEF VoiceNext
<1>. QED
  BY <1>1, <1>2

(***************************************************************************)
(* What the screen shows and what the phone holds follow.                  *)
(***************************************************************************)
LEMMA PhoneHolds == VoiceInv => PhoneHoldsWhatItShows /\ MutedIsSilent
<1>. SUFFICES ASSUME VoiceInv PROVE PhoneHoldsWhatItShows /\ MutedIsSilent
  OBVIOUS
<1>1. \A m \in Mounts : call[m] \in Call /\ Sound(call[m]) /\ (HasAudio(call[m]) => audio = "on")
  BY OfMount
<1>2. HungUpIsReleased
  BY <1>1 DEF HungUpIsReleased, VoiceInv, Sound, MountOf, RoomOf, Call
<1>3. ShownCallIsTrue
  <2>. SUFFICES ASSUME NEW m \in Mounts, call[m].view = "open", call[m].ending = "idle",
                       call[m].drops = 0, call[m].stops = 0, ~call[m].overrun, ~call[m].astray
                PROVE  IF call[m].status \in Active \ {"connecting"}
                       THEN IsCurrent(m) /\ call[m].room # "none" /\ audio = "on"
                       ELSE call[m].status # "connecting"
                                => call[m].room = "none" /\ call[m].mic = "off"
    BY DEF ShownCallIsTrue
  <2>1. MountOf(call[m]) /\ RoomOf(call[m]) /\ ShownOf(call[m])
    BY <1>1 DEF Sound
  <2>2. ~call[m].stale
    BY <2>1 DEF MountOf
  <2>3. CASE call[m].status \in Active \ {"connecting"}
    BY <1>1, <2>1, <2>2, <2>3 DEF ShownOf, IsShowing, RoomOf, IsCurrent, HasAudio
  <2>4. CASE call[m].status \notin Active \ {"connecting"}
    BY <2>1, <2>4 DEF ShownOf, IsShowing, RoomOf
  <2>. QED
    BY <2>3, <2>4
<1>4. MutedIsSilent
  BY <1>1 DEF MutedIsSilent, Sound, AsksOf, Call, Switch
<1>. QED
  BY <1>2, <1>3, <1>4 DEF PhoneHoldsWhatItShows

-----------------------------------------------------------------------------
(***************************************************************************)
(* What works for a company is what its owner chose last: the published    *)
(* version of the assistant, and the Google account of the credential.     *)
(***************************************************************************)

(***************************************************************************)
(* The version a transaction is to store: a new one under the advisory     *)
(* lock, or one that exists and is to be published again.                  *)
(***************************************************************************)
Asks(t) == tx[t].at \notin {"outside", "committed"}
HasTarget(t) ==
    /\ tx[t].target \in Numbers
    /\ \/ saveLock = t /\ version[tx[t].target] = "none"
       \/ tx[t].publish /\ version[tx[t].target] # "none"
    /\ tx[t].seen # 0 => version[tx[t].seen] # "none"

(***************************************************************************)
(* The unique index lets one publication at a time to its commit, and only *)
(* one that supersedes what is published.                                  *)
(***************************************************************************)
OneIndexed ==
    /\ \A t, u \in Transactions : tx[t].at = "indexed" /\ tx[u].at = "indexed" => t = u
    /\ \A t \in Transactions : tx[t].at = "indexed" => Published \subseteq {tx[t].seen}

VersionsInv == /\ VersionsTypeOK
               /\ \A t \in Transactions : Asks(t) => HasTarget(t)
               /\ OneIndexed
               /\ PublishedIsTheChosenOne

LEMMA VersionsInitial == VersionsInit => VersionsInv
<1>. SUFFICES ASSUME VersionsInit PROVE VersionsInv
  OBVIOUS
<1>1. VersionsTypeOK
  BY ProfilesAssumption DEF VersionsInit, VersionsTypeOK, Numbers, Outside
<1>2. /\ Published = {} /\ chosen = 0 /\ unsaid = 0
      /\ \A t \in Transactions : tx[t].at = "outside"
  BY DEF VersionsInit, Published, Outside
<1>. QED
  BY <1>1, <1>2 DEF VersionsInv, OneIndexed, PublishedIsTheChosenOne, Told, Asks

\* A transaction that moves on, and what it is to supersede.
TxState == [at : {"outside", "locked", "superseding", "superseded", "indexed", "committed"},
            target : 0..MaxDrafts, publish : BOOLEAN, seen : 0..MaxDrafts]

LEMMA SeenIsTyped ==
    ASSUME VersionsTypeOK, NEW t \in Transactions, NEW s \in 0..MaxDrafts,
           NEW at \in {"superseding", "superseded"},
           tx' = [tx EXCEPT ![t].at = at, ![t].seen = s]
    PROVE  tx' \in [Transactions -> TxState]
<1>1. tx \in [Transactions -> TxState]
  BY DEF VersionsTypeOK, TxState
<1>2. tx[t] \in TxState
  BY <1>1
<1>3. [tx[t] EXCEPT !.at = at, !.seen = s] \in TxState
  BY <1>2 DEF TxState
<1>4. tx' = [tx EXCEPT ![t] = [tx[t] EXCEPT !.at = at, !.seen = s]]
  BY <1>1 DEF TxState
<1>. QED
  BY <1>1, <1>3, <1>4

\* Steps that only move one transaction on.
LEMMA OneTransactionMoves ==
    ASSUME VersionsInv, NEW t \in Transactions, Asks(t),
           UNCHANGED <<version, saveLock, historyVars>>, VersionsTypeOK',
           \A u \in Transactions : u # t => tx'[u] = tx[u],
           tx'[t].target = tx[t].target, tx'[t].publish = tx[t].publish,
           tx'[t].seen \in {0, tx[t].seen} \cup Published,
           tx'[t].at = "indexed" => /\ Published \subseteq {tx'[t].seen}
                                    /\ \A u \in Transactions : tx[u].at # "indexed"
    PROVE  VersionsInv'
<1>1. Published' = Published
  BY DEF Published
<1>2. \A v \in Published : version[v] # "none"
  BY DEF Published
<1>3. ASSUME NEW u \in Transactions, Asks(u)' PROVE HasTarget(u)'
  BY <1>2, <1>3 DEF VersionsInv, HasTarget, Asks
<1>4. OneIndexed'
  BY <1>1 DEF VersionsInv, OneIndexed
<1>5. PublishedIsTheChosenOne'
  <2>1. \A u \in Transactions : tx[u].at = "committed" => tx'[u] = tx[u]
    BY DEF Asks
  <2>. QED
    BY <1>1, <2>1 DEF VersionsInv, PublishedIsTheChosenOne, Told, historyVars
<1>. QED
  BY <1>3, <1>4, <1>5 DEF VersionsInv

\* A transaction that has ended, whatever it stored, asks nothing any more.
LEMMA TransactionEnds ==
    ASSUME VersionsTypeOK, NEW t \in Transactions, LocksFreed(t),
           \/ tx' = [tx EXCEPT ![t] = Outside]
           \/ tx' = [tx EXCEPT ![t].at = "committed"]
    PROVE  /\ tx' \in [Transactions -> TxState]
           /\ saveLock' \in Transactions \cup {NoOne}
           /\ rowLock' \in [Numbers -> Transactions \cup {NoOne}]
           /\ tx'[t].at \in {"outside", "committed"}
           /\ \A u \in Transactions : u # t => tx'[u] = tx[u] /\ (saveLock = u => saveLock' = u)
<1>1. Outside \in TxState /\ Outside.at = "outside"
  BY ProfilesAssumption DEF Outside, TxState
<1>2. tx \in [Transactions -> TxState] /\ tx[t] \in TxState
  BY DEF VersionsTypeOK, TxState
<1>3. [tx[t] EXCEPT !.at = "committed"] \in TxState /\ [tx[t] EXCEPT !.at = "committed"].at = "committed"
  BY <1>2 DEF TxState
<1>4. PICK s \in {Outside, [tx[t] EXCEPT !.at = "committed"]} : tx' = [tx EXCEPT ![t] = s]
  OBVIOUS
<1>5. s \in TxState /\ s.at \in {"outside", "committed"}
  BY <1>1, <1>3
<1>6. /\ tx' \in [Transactions -> TxState] /\ tx'[t] = s
      /\ \A u \in Transactions : u # t => tx'[u] = tx[u]
  BY <1>2, <1>4, <1>5
<1>. QED
  BY <1>5, <1>6 DEF LocksFreed, VersionsTypeOK

LEMMA BeginSaveKeeps ==
    ASSUME VersionsInv, NEW t \in Transactions, NEW publish \in BOOLEAN,
           BeginSave(t, publish)
    PROVE  VersionsInv'
<1>0. VersionsTypeOK
  BY DEF VersionsInv
<1>1. PICK v \in Numbers :
         /\ version[v] = "none"
         /\ tx' = [tx EXCEPT ![t] =
                     [at |-> "locked", publish |-> publish, seen |-> 0, target |-> v]]
  BY DEF BeginSave
<1>2. /\ saveLock = NoOne /\ saveLock' = t /\ tx[t].at = "outside"
      /\ UNCHANGED <<version, rowLock, historyVars>>
  BY DEF BeginSave
<1>3. v \in 0..MaxDrafts
  BY ProfilesAssumption DEF Numbers
<1>4. /\ tx'[t] = [at |-> "locked", publish |-> publish, seen |-> 0, target |-> v]
      /\ \A u \in Transactions : u # t => tx'[u] = tx[u]
  BY <1>0, <1>1 DEF VersionsTypeOK
<1>5. VersionsTypeOK'
  BY <1>0, <1>1, <1>2, <1>3, ProfilesAssumption DEF VersionsTypeOK, historyVars
<1>6. Published' = Published
  BY <1>2 DEF Published
<1>7. ASSUME NEW u \in Transactions, Asks(u)' PROVE HasTarget(u)'
  <2>1. CASE u = t
    BY <1>1, <1>2, <1>4, <2>1 DEF HasTarget
  <2>2. CASE u # t
    BY <1>2, <1>4, <1>7, <2>2, ProfilesAssumption DEF VersionsInv, HasTarget, Asks
  <2>. QED BY <2>1, <2>2
<1>8. OneIndexed'
  BY <1>4, <1>6 DEF VersionsInv, OneIndexed
<1>9. PublishedIsTheChosenOne'
  BY <1>2, <1>4, <1>6 DEF VersionsInv, PublishedIsTheChosenOne, Told, historyVars
<1>. QED
  BY <1>5, <1>7, <1>8, <1>9 DEF VersionsInv

LEMMA BeginRollbackKeeps ==
    ASSUME VersionsInv, NEW t \in Transactions, NEW v \in Numbers, BeginRollback(t, v)
    PROVE  VersionsInv'
<1>0. VersionsTypeOK
  BY DEF VersionsInv
<1>1. /\ version[v] = "superseded" /\ tx[t].at = "outside"
      /\ UNCHANGED <<version, saveLock, historyVars>>
      /\ tx' = [tx EXCEPT ![t] = [at |-> "locked", publish |-> TRUE, seen |-> 0, target |-> v]]
      /\ rowLock' = [rowLock EXCEPT ![v] = t]
  BY DEF BeginRollback
<1>2. v \in 0..MaxDrafts
  BY ProfilesAssumption DEF Numbers
<1>3. /\ tx'[t] = [at |-> "locked", publish |-> TRUE, seen |-> 0, target |-> v]
      /\ \A u \in Transactions : u # t => tx'[u] = tx[u]
  BY <1>0, <1>1 DEF VersionsTypeOK
<1>4. VersionsTypeOK'
  BY <1>0, <1>1, <1>2, ProfilesAssumption DEF VersionsTypeOK, historyVars
<1>5. Published' = Published
  BY <1>1 DEF Published
<1>6. ASSUME NEW u \in Transactions, Asks(u)' PROVE HasTarget(u)'
  BY <1>1, <1>3, <1>6 DEF VersionsInv, HasTarget, Asks
<1>7. OneIndexed'
  BY <1>3, <1>5 DEF VersionsInv, OneIndexed
<1>8. PublishedIsTheChosenOne'
  BY <1>1, <1>3, <1>5 DEF VersionsInv, PublishedIsTheChosenOne, Told, historyVars
<1>. QED
  BY <1>4, <1>6, <1>7, <1>8 DEF VersionsInv

LEMMA MiddleStepsKeep ==
    ASSUME VersionsInv, NEW t \in Transactions, BeginSupersede(t) \/ Supersede(t) \/ Publish(t)
    PROVE  VersionsInv'
<1>0. VersionsTypeOK /\ Published \subseteq 0..MaxDrafts
  BY ProfilesAssumption DEF VersionsInv, Published, Numbers
<1>1. CASE BeginSupersede(t)
  <2> DEFINE s == IF Published = {} THEN 0 ELSE CHOOSE v \in Published : TRUE
  <2>1. s \in {0} \cup Published
    OBVIOUS
  <2>2. tx' = [tx EXCEPT ![t].at = "superseding", ![t].seen = s]
    BY <1>1 DEF BeginSupersede
  <2> HIDE DEF s
  <2>3. s \in 0..MaxDrafts
    BY <1>0, <2>1, ProfilesAssumption
  <2>4. VersionsTypeOK'
    BY <1>0, <1>1, <2>2, <2>3, SeenIsTyped DEF BeginSupersede, VersionsTypeOK, TxState, historyVars
  <2>5. /\ tx'[t].at = "superseding" /\ tx'[t].seen = s
        /\ tx'[t].target = tx[t].target /\ tx'[t].publish = tx[t].publish
        /\ \A u \in Transactions : u # t => tx'[u] = tx[u]
    BY <1>0, <2>2 DEF VersionsTypeOK
  <2>. QED
    BY <1>1, <2>1, <2>4, <2>5, OneTransactionMoves DEF BeginSupersede, Asks
<1>2. CASE Supersede(t)
  <2>1. PICK s \in {0, tx[t].seen} :
           /\ tx' = [tx EXCEPT ![t].at = "superseded", ![t].seen = s]
           /\ rowLock' \in {rowLock, [rowLock EXCEPT ![tx[t].seen] = t]}
    BY <1>2 DEF Supersede
  <2>2. s \in 0..MaxDrafts
    BY <1>0, <2>1, ProfilesAssumption DEF VersionsTypeOK
  <2>3. VersionsTypeOK'
    <3>1. tx' \in [Transactions -> TxState]
      BY <1>0, <2>1, <2>2, SeenIsTyped
    <3>2. rowLock' \in [Numbers -> Transactions \cup {NoOne}]
      BY <1>0, <2>1 DEF VersionsTypeOK
    <3>. QED
      BY <1>0, <1>2, <3>1, <3>2 DEF Supersede, VersionsTypeOK, TxState, historyVars
  <2>4. /\ tx'[t].at = "superseded" /\ tx'[t].seen = s
        /\ tx'[t].target = tx[t].target /\ tx'[t].publish = tx[t].publish
        /\ \A u \in Transactions : u # t => tx'[u] = tx[u]
    BY <1>0, <2>1 DEF VersionsTypeOK
  <2>. QED
    BY <1>2, <2>1, <2>3, <2>4, OneTransactionMoves DEF Supersede, Asks
<1>3. CASE Publish(t)
  <2>1. tx' = [tx EXCEPT ![t].at = "indexed"] /\ UNCHANGED <<version, saveLock, rowLock, historyVars>>
    BY <1>3 DEF Publish
  <2>2. VersionsTypeOK'
    BY <1>0, <2>1 DEF VersionsTypeOK, historyVars
  <2>3. /\ tx'[t].seen = tx[t].seen
        /\ tx'[t].target = tx[t].target /\ tx'[t].publish = tx[t].publish
        /\ \A u \in Transactions : u # t => tx'[u] = tx[u]
    BY <1>0, <2>1 DEF VersionsTypeOK
  <2>. QED
    BY <1>3, <2>1, <2>2, <2>3, OneTransactionMoves DEF Publish, IndexAllows, Asks
<1>. QED
  BY <1>1, <1>2, <1>3

\* The versions other transactions are about are not this one's.
LEMMA CommitKeeps ==
    ASSUME VersionsInv, NEW t \in Transactions, CommitPublication(t) \/ CommitDraft(t)
    PROVE  VersionsInv'
<1>0. /\ VersionsTypeOK /\ Asks(t) /\ HasTarget(t) /\ LocksFreed(t)
      /\ \/ tx' = [tx EXCEPT ![t] = Outside]
         \/ tx' = [tx EXCEPT ![t].at = "committed"]
      /\ UNCHANGED historyVars
  BY DEF VersionsInv, CommitPublication, CommitDraft, Asks, TxEnded
<1>1. /\ tx' \in [Transactions -> TxState]
      /\ saveLock' \in Transactions \cup {NoOne}
      /\ rowLock' \in [Numbers -> Transactions \cup {NoOne}]
      /\ tx'[t].at \in {"outside", "committed"}
      /\ \A u \in Transactions : u # t => tx'[u] = tx[u] /\ (saveLock = u => saveLock' = u)
  BY <1>0, TransactionEnds
<1>2. \A v \in Numbers : version[v] # "none" => version'[v] # "none"
  BY <1>0 DEF CommitPublication, CommitDraft, VersionsTypeOK
\* A version that is new to a save is neither stored nor superseded by others.
<1>3. ASSUME NEW u \in Transactions, u # t, saveLock = u, NEW v \in Numbers, version[v] = "none"
      PROVE  version'[v] = "none"
  <2>1. tx[t].publish /\ version[tx[t].target] # "none"
    BY <1>0, <1>3 DEF HasTarget
  <2>2. v # tx[t].target /\ v # tx[t].seen
    BY <1>0, <1>3, <2>1 DEF HasTarget, Numbers
  <2>. QED
    BY <1>0, <1>3, <2>1, <2>2 DEF CommitPublication, CommitDraft, VersionsTypeOK
<1>4. ASSUME NEW u \in Transactions, Asks(u)' PROVE HasTarget(u)'
  <2>1. u # t /\ tx'[u] = tx[u] /\ HasTarget(u) /\ tx[u].seen \in 0..MaxDrafts
    BY <1>0, <1>1, <1>4 DEF VersionsInv, VersionsTypeOK, Asks
  <2>2. tx[u].seen # 0 => version'[tx[u].seen] # "none"
    <3>1. tx[u].seen # 0 => tx[u].seen \in Numbers
      BY <2>1, ProfilesAssumption DEF Numbers
    <3>. QED BY <1>2, <2>1, <3>1 DEF HasTarget
  <2>. QED
    BY <1>1, <1>2, <1>3, <2>1, <2>2 DEF HasTarget
<1>5. ASSUME version' \in [Numbers -> {"none", "draft", "published", "superseded"}]
      PROVE  VersionsTypeOK'
  BY <1>0, <1>1, <1>5 DEF VersionsTypeOK, TxState, historyVars
<1>6. CASE CommitPublication(t)
  <2>1. /\ tx[t].at = "indexed" /\ tx' = [tx EXCEPT ![t].at = "committed"]
        /\ version' = [v \in Numbers |-> IF v = tx[t].target THEN "published"
                                         ELSE IF v = tx[t].seen THEN "superseded" ELSE version[v]]
    BY <1>6 DEF CommitPublication
  <2>2. tx[t].target \in Numbers
    BY <1>0 DEF HasTarget
  <2>3. Published \subseteq {tx[t].seen}
    BY <2>1 DEF VersionsInv, OneIndexed
  <2>4. Published' = {tx[t].target}
    BY <2>1, <2>2, <2>3 DEF Published
  <2>5. VersionsTypeOK'
    BY <1>0, <1>5, <2>1 DEF VersionsTypeOK
  <2>6. OneIndexed'
    BY <1>1, <2>1 DEF VersionsInv, OneIndexed
  <2>7. tx'[t].at = "committed" /\ tx'[t].target = tx[t].target
    BY <1>0, <2>1 DEF VersionsTypeOK
  <2>8. PublishedIsTheChosenOne'
    BY <2>4, <2>7 DEF PublishedIsTheChosenOne
  <2>. QED
    BY <1>4, <2>5, <2>6, <2>8 DEF VersionsInv
<1>7. CASE CommitDraft(t)
  <2>1. /\ ~tx[t].publish /\ tx[t].at = "locked"
        /\ version' = [version EXCEPT ![tx[t].target] = "draft"]
    BY <1>7 DEF CommitDraft
  <2>2. tx[t].target \in Numbers /\ version[tx[t].target] = "none"
    BY <1>0, <2>1 DEF HasTarget
  <2>3. Published' = Published
    BY <1>0, <2>1, <2>2 DEF Published, VersionsTypeOK
  <2>4. VersionsTypeOK'
    BY <1>0, <1>5, <2>1 DEF VersionsTypeOK
  <2>5. OneIndexed'
    BY <1>1, <2>3 DEF VersionsInv, OneIndexed
  <2>6. PublishedIsTheChosenOne'
    BY <1>0, <1>1, <2>1, <2>3 DEF VersionsInv, PublishedIsTheChosenOne, Told, historyVars
  <2>. QED
    BY <1>4, <2>4, <2>5, <2>6 DEF VersionsInv
<1>. QED
  BY <1>6, <1>7

\* Whether the owner is told of a publication or of an error, what is
\* published if it still is that version is the one told of, or left unsaid.
LEMMA TellingKeeps ==
    ASSUME VersionsInv, NEW t \in Transactions, AnswerPublication(t) \/ AcknowledgementLost(t)
    PROVE  VersionsInv'
<1>0. /\ VersionsTypeOK /\ tx[t].at = "committed" /\ tx' = [tx EXCEPT ![t] = Outside]
      /\ UNCHANGED <<version, saveLock, rowLock>>
  BY DEF VersionsInv, AnswerPublication, AcknowledgementLost
<1>1. Outside \in TxState /\ Outside.at = "outside"
  BY ProfilesAssumption DEF Outside, TxState
<1>2. /\ tx' \in [Transactions -> TxState] /\ tx'[t].at = "outside"
      /\ \A u \in Transactions : u # t => tx'[u] = tx[u]
  BY <1>0, <1>1 DEF VersionsTypeOK, TxState
<1>3. Published' = Published /\ (\A v \in Published : v # 0)
  BY <1>0, ProfilesAssumption DEF Published, Numbers
<1>4. tx[t].target \in 0..MaxDrafts
  BY <1>0 DEF VersionsTypeOK
<1>5. chosen' \in 0..MaxDrafts /\ unsaid' \in 0..MaxDrafts
  <2>1. 0 \in 0..MaxDrafts /\ chosen \in 0..MaxDrafts /\ unsaid \in 0..MaxDrafts
    BY <1>0, ProfilesAssumption DEF VersionsTypeOK
  <2>. QED
    BY <1>4, <2>1 DEF AnswerPublication, AcknowledgementLost, historyVars
<1>6. VersionsTypeOK'
  BY <1>0, <1>2, <1>5 DEF VersionsTypeOK, TxState
<1>7. ASSUME NEW u \in Transactions, Asks(u)' PROVE HasTarget(u)'
  BY <1>0, <1>2, <1>7 DEF VersionsInv, HasTarget, Asks
<1>8. OneIndexed'
  BY <1>2, <1>3 DEF VersionsInv, OneIndexed
<1>9. PublishedIsTheChosenOne'
  <2>1. CASE tx[t].target \in Published
    <3>1. tx[t].target # 0 /\ Told' = {tx[t].target}
      BY <1>3, <2>1 DEF AnswerPublication, AcknowledgementLost, Told
    <3>2. Published = {tx[t].target} \/ \E u \in Transactions \ {t} :
              tx[u].at = "committed" /\ Published = {tx[u].target}
      BY <2>1 DEF VersionsInv, PublishedIsTheChosenOne, Told
    <3>. QED
      BY <1>2, <1>3, <3>1, <3>2 DEF PublishedIsTheChosenOne
  <2>2. CASE tx[t].target \notin Published
    <3>1. Told' = Told
      BY <2>2 DEF AnswerPublication, AcknowledgementLost, Told, historyVars
    <3>. QED
      BY <1>2, <1>3, <2>2, <3>1 DEF VersionsInv, PublishedIsTheChosenOne
  <2>. QED
    BY <2>1, <2>2
<1>. QED
  BY <1>6, <1>7, <1>8, <1>9 DEF VersionsInv

LEMMA AbortKeeps ==
    ASSUME VersionsInv, NEW t \in Transactions, PublishRefused(t) \/ RollbackTransaction(t)
    PROVE  VersionsInv'
<1>0. /\ VersionsTypeOK /\ LocksFreed(t) /\ tx' = [tx EXCEPT ![t] = Outside]
      /\ UNCHANGED <<version, historyVars>> /\ tx[t].at # "committed"
  BY DEF VersionsInv, PublishRefused, RollbackTransaction, TxEnded
<1>1. /\ tx' \in [Transactions -> TxState]
      /\ saveLock' \in Transactions \cup {NoOne}
      /\ rowLock' \in [Numbers -> Transactions \cup {NoOne}]
      /\ \A u \in Transactions : u # t => tx'[u] = tx[u] /\ (saveLock = u => saveLock' = u)
  BY <1>0, TransactionEnds
<1>2. tx'[t].at = "outside"
  BY <1>0 DEF VersionsTypeOK, Outside
<1>3. VersionsTypeOK'
  BY <1>0, <1>1 DEF VersionsTypeOK, TxState, historyVars
<1>4. Published' = Published
  BY <1>0 DEF Published
<1>5. ASSUME NEW u \in Transactions, Asks(u)' PROVE HasTarget(u)'
  BY <1>0, <1>1, <1>2, <1>5 DEF VersionsInv, HasTarget, Asks
<1>6. OneIndexed'
  BY <1>1, <1>2, <1>4 DEF VersionsInv, OneIndexed
<1>7. PublishedIsTheChosenOne'
  BY <1>0, <1>1, <1>4 DEF VersionsInv, PublishedIsTheChosenOne, Told, historyVars
<1>. QED
  BY <1>3, <1>5, <1>6, <1>7 DEF VersionsInv

(***************************************************************************)
(* A publication that was answered with success stays the published        *)
(* version until the next is committed, whatever saves and rollbacks run   *)
(* beside it, and one whose acknowledgement was lost likewise:             *)
(* the unique index, and the lock that keeps a new version to its save,    *)
(* are enough, for any number of transactions and versions.                *)
(***************************************************************************)
LEMMA VersionsInductive == VersionsInv /\ [VersionsNext]_profileVersionVars => VersionsInv'
<1>. SUFFICES ASSUME VersionsInv, [VersionsNext]_profileVersionVars PROVE VersionsInv'
  OBVIOUS
<1>1. CASE VersionsNext
  BY <1>1, BeginSaveKeeps, BeginRollbackKeeps, MiddleStepsKeep, CommitKeeps,
     TellingKeeps, AbortKeeps
     DEF VersionsNext
<1>2. CASE UNCHANGED profileVersionVars
  BY <1>2 DEF profileVersionVars, VersionsInv, VersionsTypeOK, HasTarget, OneIndexed,
              PublishedIsTheChosenOne, Published, historyVars, Told, Asks
<1>. QED
  BY <1>1, <1>2

-----------------------------------------------------------------------------
Going(c) == change[c].at # "idle"
Working(r) == request[r].at # "idle"

(***************************************************************************)
(* Who is under way while the owner changes something is crossed: of two   *)
(* changes both are, and so is every request beside a change.              *)
(***************************************************************************)
AllAreCrossed ==
    /\ \A c, d \in Changes : c # d /\ Going(c) /\ Going(d) => change[c].crossed
    /\ \A r \in Requests : Working(r) /\ Deciding => request[r].crossed

\* What is not crossed and holds a credential holds the linked one.
UncrossedIsLinked ==
    /\ \A r \in Requests :
          request[r].at \in {"read", "refreshed", "saved"} /\ ~request[r].crossed
          => request[r].account = linked
    /\ \A c \in Changes :
          change[c].at = "saved" /\ ~change[c].crossed => change[c].account = linked

(***************************************************************************)
(* The row is of the linked account at every moment; the cache may be of   *)
(* the former one until the new connection is cached, and a disconnection  *)
(* has emptied it before it deletes the row.                               *)
(***************************************************************************)
RowIsLinked == row.account # linked => row.crossed

CacheIsLinked ==
    /\ cached.account \notin {0, linked} /\ ~cached.crossed
       => \E c \in Changes : change[c].at = "saved"
    /\ \A c \in Changes : change[c].at \in {"emptied", "revoking"}
                          => cached.account = 0 \/ cached.crossed

OAuthInv == /\ OAuthTypeOK /\ AllAreCrossed /\ UncrossedIsLinked
            /\ RowIsLinked /\ CacheIsLinked

LEMMA OAuthInitial == OAuthInit => OAuthInv
BY OAuthAssumption DEF OAuthInit, OAuthInv, OAuthTypeOK, Account, NoCredential, AllAreCrossed,
   Going, Working, UncrossedIsLinked, RowIsLinked, CacheIsLinked

Stages == {"exchanging", "saved", "emptied", "revoking"}

\* What a step of the owner does to everybody under way.
Crossed(c) ==
    /\ \A r \in Requests : /\ request'[r].at = request[r].at
                           /\ Working(r) => request'[r].crossed
    /\ \A d \in Changes \ {c} : /\ change'[d].at = change[d].at
                                /\ change'[d].account = change[d].account
                                /\ Going(d) => change'[d].crossed

LEMMA CrossingEffect ==
    ASSUME OAuthTypeOK, NEW c \in Changes, NEW at \in Stages \cup {"idle"}, Crossing(c, at)
    PROVE  /\ Crossed(c)
           /\ request' \in [Requests -> [at : {"idle", "waiting", "locked", "read", "refreshed", "saved"},
                                         account : Account, crossed : BOOLEAN]]
           /\ change' \in [Changes -> [at : {"idle"} \cup Stages,
                                       account : Account, crossed : BOOLEAN]]
           /\ change'[c].at = at /\ change'[c].account = change[c].account
           /\ change'[c].crossed = change[c].crossed
<1>1. \A r \in Requests :
         /\ request'[r] = [request[r] EXCEPT !.crossed = request[r].at # "idle"]
         /\ request[r] \in [at : {"idle", "waiting", "locked", "read", "refreshed", "saved"},
                            account : Account, crossed : BOOLEAN]
  BY DEF OAuthTypeOK, Crossing
<1>2. \A d \in Changes :
         change[d] \in [at : {"idle"} \cup Stages, account : Account, crossed : BOOLEAN]
  BY DEF OAuthTypeOK, Stages
<1>3. /\ \A d \in Changes \ {c} :
            change'[d] = [change[d] EXCEPT !.crossed = change[d].at # "idle"]
      /\ change'[c] = [change[c] EXCEPT !.at = at]
  BY DEF Crossing
<1>4. Crossed(c)
  <2>1. ASSUME NEW r \in Requests
        PROVE  request'[r].at = request[r].at /\ (Working(r) => request'[r].crossed)
    BY <1>1 DEF Working
  <2>2. ASSUME NEW d \in Changes \ {c}
        PROVE  /\ change'[d].at = change[d].at /\ change'[d].account = change[d].account
               /\ Going(d) => change'[d].crossed
    BY <1>2, <1>3 DEF Going
  <2>. QED BY <2>1, <2>2 DEF Crossed
<1>5. request' \in [Requests -> [at : {"idle", "waiting", "locked", "read", "refreshed", "saved"},
                                account : Account, crossed : BOOLEAN]]
  BY <1>1 DEF Crossing
<1>6. change' \in [Changes -> [at : {"idle"} \cup Stages, account : Account, crossed : BOOLEAN]]
  BY <1>2 DEF Crossing
<1>. QED
  BY <1>2, <1>3, <1>4, <1>5, <1>6

LEMMA ConnectingEffect ==
    ASSUME OAuthTypeOK, NEW c \in Changes, NEW at \in Stages, NEW grant \in Account,
           Connecting(c, at, grant)
    PROVE  /\ Crossed(c)
           /\ request' \in [Requests -> [at : {"idle", "waiting", "locked", "read", "refreshed", "saved"},
                                         account : Account, crossed : BOOLEAN]]
           /\ change' \in [Changes -> [at : {"idle"} \cup Stages,
                                       account : Account, crossed : BOOLEAN]]
           /\ change'[c].at = at /\ change'[c].account = grant
           /\ change'[c].crossed = Deciding
<1>1. Deciding \in BOOLEAN
  BY DEF Deciding
<1>2. \A r \in Requests :
         /\ request'[r] = [request[r] EXCEPT !.crossed = request[r].at # "idle"]
         /\ request[r] \in [at : {"idle", "waiting", "locked", "read", "refreshed", "saved"},
                            account : Account, crossed : BOOLEAN]
  BY DEF OAuthTypeOK, Connecting
<1>3. \A d \in Changes :
         change[d] \in [at : {"idle"} \cup Stages, account : Account, crossed : BOOLEAN]
  BY DEF OAuthTypeOK, Stages
<1>4. /\ \A d \in Changes \ {c} :
            change'[d] = [change[d] EXCEPT !.crossed = change[d].at # "idle"]
      /\ change'[c] = [at |-> at, account |-> grant, crossed |-> Deciding]
  BY DEF Connecting
<1>5. Crossed(c)
  <2>1. ASSUME NEW r \in Requests
        PROVE  request'[r].at = request[r].at /\ (Working(r) => request'[r].crossed)
    BY <1>2 DEF Working
  <2>2. ASSUME NEW d \in Changes \ {c}
        PROVE  /\ change'[d].at = change[d].at /\ change'[d].account = change[d].account
               /\ Going(d) => change'[d].crossed
    BY <1>3, <1>4 DEF Going
  <2>. QED BY <2>1, <2>2 DEF Crossed
<1>6. request' \in [Requests -> [at : {"idle", "waiting", "locked", "read", "refreshed", "saved"},
                                account : Account, crossed : BOOLEAN]]
  BY <1>2 DEF Connecting
<1>7. change' \in [Changes -> [at : {"idle"} \cup Stages, account : Account, crossed : BOOLEAN]]
  BY <1>1, <1>3 DEF Connecting
<1>. QED
  BY <1>4, <1>5, <1>6, <1>7

\* The owner's step crosses all others; c is crossed by those it meets.
LEMMA OwnerCrosses ==
    ASSUME AllAreCrossed, NEW c \in Changes, Crossed(c),
           \/ Going(c) /\ change'[c].crossed = change[c].crossed
           \/ change'[c].crossed = Deciding
    PROVE  /\ AllAreCrossed'
           /\ \A r \in Requests : Working(r)' => request'[r].crossed
           /\ \A d \in Changes \ {c} : Going(d)' => change'[d].crossed
<1>1. \A r \in Requests : Working(r)' => request'[r].crossed
  BY DEF Crossed, Working
<1>2. \A d \in Changes \ {c} : Going(d)' => Going(d) /\ change'[d].crossed
  BY DEF Crossed, Going
<1>3. ASSUME NEW d \in Changes \ {c}, Going(d)' PROVE change'[c].crossed
  BY <1>2, <1>3 DEF AllAreCrossed, Going, Deciding
<1>. QED
  BY <1>1, <1>2, <1>3 DEF AllAreCrossed

LEMMA OwnerKeeps ==
    ASSUME OAuthInv, NEW c \in Changes,
           \/ Connect(c) \/ ExchangeFails(c) \/ SaveConnection(c) \/ SaveConnectionFails(c)
           \/ CacheConnection(c) \/ Disconnect(c) \/ ReadToRevoke(c) \/ DeleteTokens(c)
           \/ DisconnectFails(c) \/ DeleteTokensFails(c)
    PROVE  OAuthInv'
<1>0. OAuthTypeOK /\ AllAreCrossed /\ 0 \in Account
  BY OAuthAssumption DEF OAuthInv, Account
<1>1. CASE Connect(c)
  <2>0. granted + 1 \in Account /\ "exchanging" \in Stages
    BY <1>0, <1>1, OAuthAssumption DEF Connect, OAuthTypeOK, Account, Stages
  <2>1. Connecting(c, "exchanging", granted + 1)
    BY <1>1 DEF Connect
  <2>2. Crossed(c) /\ change'[c].at = "exchanging" /\ change'[c].crossed = Deciding
    BY <1>0, <2>0, <2>1, ConnectingEffect
  <2>3. OAuthTypeOK'
    BY <1>0, <1>1, <2>0, <2>1, ConnectingEffect DEF Connect, OAuthTypeOK, Stages
  <2>4. /\ AllAreCrossed'
        /\ \A r \in Requests : Working(r)' => request'[r].crossed
        /\ \A d \in Changes \ {c} : Going(d)' => change'[d].crossed
    BY <1>0, <2>2, OwnerCrosses
  <2>5. UncrossedIsLinked'
    BY <2>2, <2>4 DEF UncrossedIsLinked, Working, Going
  <2>6. change[c].at = "idle"
    BY <2>1 DEF Connecting
  <2>7. RowIsLinked' /\ CacheIsLinked'
    BY <1>1, <2>2, <2>6 DEF Connect, OAuthInv, RowIsLinked, CacheIsLinked, Crossed
  <2>. QED
    BY <2>3, <2>4, <2>5, <2>7 DEF OAuthInv
<1>2. CASE Disconnect(c)
  <2>1. Connecting(c, "emptied", 0) /\ "emptied" \in Stages
    BY <1>2 DEF Disconnect, Stages
  <2>2. Crossed(c) /\ change'[c].at = "emptied" /\ change'[c].crossed = Deciding
    BY <1>0, <2>1, ConnectingEffect
  <2>3. OAuthTypeOK'
    BY <1>0, <1>2, <2>1, ConnectingEffect
       DEF Disconnect, EmptyCache, NoCredential, OAuthTypeOK, Stages
  <2>4. /\ AllAreCrossed'
        /\ \A r \in Requests : Working(r)' => request'[r].crossed
        /\ \A d \in Changes \ {c} : Going(d)' => change'[d].crossed
    BY <1>0, <2>2, OwnerCrosses
  <2>5. UncrossedIsLinked'
    BY <2>2, <2>4 DEF UncrossedIsLinked, Working, Going
  <2>6. RowIsLinked' /\ CacheIsLinked'
    BY <1>2 DEF Disconnect, EmptyCache, NoCredential, OAuthInv, RowIsLinked, CacheIsLinked
  <2>. QED
    BY <2>3, <2>4, <2>5, <2>6 DEF OAuthInv
\* The other steps are of a change under way.
<1>3. ASSUME NEW at \in Stages \cup {"idle"}, Going(c), Crossing(c, at),
             linked' \in Account, granted' = granted, lock' = lock,
             row' \in [account : Account, crossed : BOOLEAN, valid : BOOLEAN],
             cached' \in [account : Account, crossed : BOOLEAN],
             at = "saved" => change[c].crossed \/ change[c].account = linked',
             RowIsLinked', CacheIsLinked'
      PROVE  OAuthInv'
  <2>1. /\ Crossed(c) /\ change'[c].at = at /\ change'[c].account = change[c].account
        /\ change'[c].crossed = change[c].crossed
    BY <1>0, <1>3, CrossingEffect
  <2>2. OAuthTypeOK'
    BY <1>0, <1>3, CrossingEffect DEF OAuthTypeOK, Stages
  <2>3. /\ AllAreCrossed'
        /\ \A r \in Requests : Working(r)' => request'[r].crossed
        /\ \A d \in Changes \ {c} : Going(d)' => change'[d].crossed
    BY <1>0, <1>3, <2>1, OwnerCrosses
  <2>4. UncrossedIsLinked'
    BY <1>3, <2>1, <2>3 DEF UncrossedIsLinked, Working, Going
  <2>. QED
    BY <1>3, <2>2, <2>3, <2>4 DEF OAuthInv
<1>4. \A at \in Stages \cup {"idle"} : Crossing(c, at) =>
         /\ change'[c].at = at
         /\ \A d \in Changes \ {c} : change'[d].at = change[d].at
  BY <1>0, CrossingEffect DEF Crossed
<1>5. "saved" \in Stages /\ "revoking" \in Stages
  BY DEF Stages
<1>6. CASE ExchangeFails(c) \/ DisconnectFails(c)
  <2>1. Crossing(c, "idle") /\ Going(c) /\ change[c].at # "saved"
        /\ UNCHANGED <<linked, granted, row, cached, lock>>
    BY <1>6 DEF ExchangeFails, DisconnectFails, Going
  <2>2. RowIsLinked' /\ CacheIsLinked'
    BY <1>4, <2>1 DEF OAuthInv, RowIsLinked, CacheIsLinked
  <2>. QED
    BY <1>0, <1>3, <2>1, <2>2 DEF OAuthTypeOK
<1>7. CASE SaveConnection(c)
  <2>1. Crossing(c, "saved") /\ Going(c) /\ change[c].at = "exchanging"
        /\ row' = [account |-> change[c].account, crossed |-> change[c].crossed, valid |-> TRUE]
        /\ linked' = change[c].account /\ UNCHANGED <<granted, cached, lock>>
    BY <1>7 DEF SaveConnection, Going
  <2>2. change[c].account \in Account /\ change[c].crossed \in BOOLEAN
    BY <1>0 DEF OAuthTypeOK
  <2>3. RowIsLinked'
    BY <2>1 DEF RowIsLinked
  <2>4. CacheIsLinked'
    BY <1>4, <1>5, <2>1 DEF OAuthInv, CacheIsLinked
  <2>. QED
    BY <1>0, <1>3, <1>5, <2>1, <2>2, <2>3, <2>4 DEF OAuthTypeOK
<1>8. CASE CacheConnection(c)
  <2>1. Crossing(c, "idle") /\ Going(c) /\ change[c].at = "saved"
        /\ cached' = [account |-> change[c].account, crossed |-> change[c].crossed]
        /\ UNCHANGED <<linked, granted, row, lock>>
    BY <1>8 DEF CacheConnection, Going
  <2>2. change[c].account \in Account /\ change[c].crossed \in BOOLEAN
    BY <1>0 DEF OAuthTypeOK
  <2>3. RowIsLinked'
    BY <2>1 DEF OAuthInv, RowIsLinked
  <2>4. ~change[c].crossed => change[c].account = linked
    BY <2>1 DEF OAuthInv, UncrossedIsLinked
  <2>5. ASSUME NEW d \in Changes, change'[d].at \in {"emptied", "revoking"}
        PROVE  change[c].crossed
    BY <1>0, <1>4, <2>1, <2>5 DEF AllAreCrossed, Going
  <2>6. CacheIsLinked'
    BY <2>1, <2>4, <2>5 DEF CacheIsLinked
  <2>. QED
    BY <1>0, <1>3, <2>1, <2>2, <2>3, <2>6 DEF OAuthTypeOK
<1>9. CASE ReadToRevoke(c)
  <2>1. Crossing(c, "revoking") /\ Going(c) /\ change[c].at = "emptied"
        /\ UNCHANGED <<linked, granted, row, cached, lock>>
    BY <1>9 DEF ReadToRevoke, Going
  <2>2. RowIsLinked' /\ CacheIsLinked'
    BY <1>4, <1>5, <2>1 DEF OAuthInv, RowIsLinked, CacheIsLinked
  <2>. QED
    BY <1>0, <1>3, <1>5, <2>1, <2>2 DEF OAuthTypeOK
<1>10. CASE DeleteTokens(c)
  <2>1. Crossing(c, "idle") /\ Going(c) /\ change[c].at = "revoking"
        /\ row' = [account |-> 0, crossed |-> change[c].crossed, valid |-> FALSE]
        /\ linked' = 0 /\ UNCHANGED <<granted, cached, lock>>
    BY <1>10 DEF DeleteTokens, Going
  <2>2. change[c].crossed \in BOOLEAN
    BY <1>0 DEF OAuthTypeOK
  <2>3. RowIsLinked'
    BY <2>1 DEF RowIsLinked
  <2>4. CacheIsLinked'
    BY <1>4, <2>1 DEF OAuthInv, CacheIsLinked
  <2>. QED
    BY <1>0, <1>3, <2>1, <2>2, <2>3, <2>4 DEF OAuthTypeOK
\* A change that took effect and is answered with a failure marks the row.
<1>11. CASE SaveConnectionFails(c) \/ DeleteTokensFails(c)
  <2>1. PICK whose \in {0, change[c].account}, valid \in BOOLEAN :
           row' = [account |-> whose, crossed |-> TRUE, valid |-> valid]
    BY <1>11 DEF SaveConnectionFails, DeleteTokensFails
  <2>2. Crossing(c, "idle") /\ Going(c) /\ change[c].at # "saved"
        /\ UNCHANGED <<linked, granted, cached, lock>>
    BY <1>11 DEF SaveConnectionFails, DeleteTokensFails, Going
  <2>3. whose \in Account
    BY <1>0, <2>1 DEF OAuthTypeOK
  <2>4. RowIsLinked' /\ CacheIsLinked'
    BY <1>4, <2>1, <2>2 DEF OAuthInv, RowIsLinked, CacheIsLinked
  <2>. QED
    BY <1>0, <1>3, <2>1, <2>2, <2>3, <2>4 DEF OAuthTypeOK
<1>. QED
  BY <1>1, <1>2, <1>6, <1>7, <1>8, <1>9, <1>10, <1>11

\* A request that has the linked credential, or is crossed, leaves no other behind.
LEMMA RequestMoves ==
    ASSUME OAuthInv, NEW r \in Requests, UNCHANGED <<linked, granted, change>>, OAuthTypeOK',
           \A q \in Requests \ {r} : request'[q] = request[q],
           request'[r].at # "idle" /\ Deciding => request'[r].crossed,
           request'[r].at \in {"read", "refreshed", "saved"}
              => request'[r].crossed \/ request'[r].account = linked,
           row' = row \/ (row'.account # linked => row'.crossed),
           \/ cached' = cached
           \/ cached'.account = 0
           \/ /\ cached'.account # linked => cached'.crossed
              /\ Deciding => cached'.crossed
    PROVE  OAuthInv'
<1>1. Deciding' = Deciding
  BY DEF Deciding
<1>2. AllAreCrossed'
  BY <1>1 DEF OAuthInv, AllAreCrossed, Going, Working
<1>3. UncrossedIsLinked'
  BY DEF OAuthInv, UncrossedIsLinked
<1>4. RowIsLinked'
  BY DEF OAuthInv, RowIsLinked
<1>5. CacheIsLinked'
  BY DEF OAuthInv, CacheIsLinked, Deciding
<1>. QED
  BY <1>2, <1>3, <1>4, <1>5 DEF OAuthInv

LEMMA RequestKeeps ==
    ASSUME OAuthInv, NEW r \in Requests,
           \/ AskToken(r) \/ Locked(r) \/ Coalesced(r) \/ ReadTokens(r) \/ RefreshAnswered(r)
           \/ RefreshFails(r) \/ SaveRefreshed(r) \/ SaveRefreshedFails(r) \/ CacheToken(r)
    PROVE  OAuthInv'
<1>0. OAuthTypeOK /\ 0 \in Account /\ Deciding \in BOOLEAN
  BY OAuthAssumption DEF OAuthInv, Account, Deciding
<1>1. /\ Working(r) /\ Deciding => request[r].crossed
      /\ request[r].at \in {"read", "refreshed", "saved"} /\ ~request[r].crossed
         => request[r].account = linked
  BY DEF OAuthInv, AllAreCrossed, UncrossedIsLinked
<1>2. CASE AskToken(r)
  <2>1. request' = [request EXCEPT ![r] = [at |-> "waiting", account |-> 0, crossed |-> Deciding]]
        /\ UNCHANGED <<linked, granted, row, cached, lock, change>>
    BY <1>2 DEF AskToken
  <2>2. OAuthTypeOK' /\ request'[r] = [at |-> "waiting", account |-> 0, crossed |-> Deciding]
        /\ \A q \in Requests \ {r} : request'[q] = request[q]
    BY <1>0, <2>1 DEF OAuthTypeOK
  <2>. QED BY <2>1, <2>2, RequestMoves
<1>3. CASE Locked(r) \/ RefreshAnswered(r)
  <2>1. PICK at \in {"locked", "refreshed"} : request' = [request EXCEPT ![r].at = at]
    BY <1>3 DEF Locked, RefreshAnswered
  <2>2. Working(r) /\ UNCHANGED <<linked, granted, row, cached, change>>
        /\ lock' \in Requests \cup {Free}
        /\ (at = "refreshed" => request[r].at = "read")
    BY <1>0, <1>3, <2>1 DEF Locked, RefreshAnswered, Working, OAuthTypeOK
  <2>3. /\ OAuthTypeOK' /\ request'[r].at = at /\ request'[r].account = request[r].account
        /\ request'[r].crossed = request[r].crossed
        /\ \A q \in Requests \ {r} : request'[q] = request[q]
    BY <1>0, <2>1, <2>2 DEF OAuthTypeOK
  <2>. QED BY <1>1, <2>1, <2>2, <2>3, RequestMoves
<1>4. CASE Coalesced(r) \/ RefreshFails(r)
  <2>1. Release(r) /\ UNCHANGED <<linked, granted, row, cached, change>>
    BY <1>4 DEF Coalesced, RefreshFails
  <2>2. OAuthTypeOK' /\ request'[r].at = "idle"
        /\ \A q \in Requests \ {r} : request'[q] = request[q]
    BY <1>0, <2>1 DEF Release, OAuthTypeOK
  <2>. QED BY <2>1, <2>2, RequestMoves
<1>5. CASE ReadTokens(r)
  <2>1. PICK at \in {"saved", "read"} :
           request' = [request EXCEPT ![r] = [at |-> at, account |-> row.account,
                                              crossed |-> request[r].crossed \/ row.crossed]]
    BY <1>5 DEF ReadTokens
  <2>2. Working(r) /\ UNCHANGED <<linked, granted, row, cached, lock, change>>
    BY <1>5 DEF ReadTokens, Working
  <2>3. request[r].crossed \in BOOLEAN /\ row.crossed \in BOOLEAN /\ row.account \in Account
    BY <1>0 DEF OAuthTypeOK
  <2>4. /\ OAuthTypeOK'
        /\ request'[r] = [at |-> at, account |-> row.account,
                          crossed |-> request[r].crossed \/ row.crossed]
        /\ \A q \in Requests \ {r} : request'[q] = request[q]
    BY <1>0, <2>1, <2>2, <2>3 DEF OAuthTypeOK
  <2>5. row.account # linked => row.crossed
    BY DEF OAuthInv, RowIsLinked
  <2>6. /\ Deciding => request'[r].crossed
        /\ request'[r].crossed \/ request'[r].account = linked
    <3>1. /\ request'[r].crossed = (request[r].crossed \/ row.crossed)
          /\ request'[r].account = row.account
      BY <2>4
    <3>. QED BY <1>1, <2>2, <2>3, <2>5, <3>1
  <2>. QED BY <2>2, <2>4, <2>6, RequestMoves
<1>6. CASE SaveRefreshed(r)
  <2>1. request[r].at = "refreshed" /\ Working(r) /\ request' = [request EXCEPT ![r].at = "saved"]
        /\ row' = [account |-> request[r].account, crossed |-> request[r].crossed, valid |-> TRUE]
        /\ UNCHANGED <<linked, granted, cached, lock, change>>
    BY <1>6 DEF SaveRefreshed, Working
  <2>2. /\ OAuthTypeOK' /\ request'[r].at = "saved" /\ request'[r].account = request[r].account
        /\ request'[r].crossed = request[r].crossed
        /\ \A q \in Requests \ {r} : request'[q] = request[q]
    BY <1>0, <2>1 DEF OAuthTypeOK
  <2>. QED BY <1>1, <2>1, <2>2, RequestMoves
<1>7. CASE CacheToken(r)
  <2>1. request[r].at = "saved" /\ Working(r) /\ Release(r)
        /\ cached' = [account |-> request[r].account, crossed |-> request[r].crossed]
        /\ UNCHANGED <<linked, granted, row, change>>
    BY <1>7 DEF CacheToken, Working
  <2>2. OAuthTypeOK' /\ request'[r].at = "idle"
        /\ \A q \in Requests \ {r} : request'[q] = request[q]
    BY <1>0, <2>1 DEF Release, OAuthTypeOK
  <2>. QED BY <1>1, <2>1, <2>2, RequestMoves
<1>8. CASE SaveRefreshedFails(r)
  <2>1. request[r].at = "refreshed" /\ Working(r) /\ Release(r)
        /\ row' = [account |-> request[r].account, crossed |-> request[r].crossed, valid |-> TRUE]
        /\ UNCHANGED <<linked, granted, cached, change>>
    BY <1>8 DEF SaveRefreshedFails, Working
  <2>2. OAuthTypeOK' /\ request'[r].at = "idle"
        /\ \A q \in Requests \ {r} : request'[q] = request[q]
    BY <1>0, <2>1 DEF Release, OAuthTypeOK
  <2>. QED BY <1>1, <2>1, <2>2, RequestMoves
<1>. QED
  BY <1>2, <1>3, <1>4, <1>5, <1>6, <1>7, <1>8

LEMMA AccessExpires == ASSUME OAuthInv, TokenExpires PROVE OAuthInv'
<1>1. /\ row'.account = row.account /\ row'.crossed = row.crossed
      /\ row' \in [account : Account, crossed : BOOLEAN, valid : BOOLEAN]
      /\ cached' = NoCredential /\ UNCHANGED <<linked, granted, lock, request, change>>
  BY DEF TokenExpires, OAuthInv, OAuthTypeOK
<1>2. OAuthTypeOK'
  BY <1>1, OAuthAssumption DEF OAuthInv, OAuthTypeOK, NoCredential, Account
<1>3. AllAreCrossed' /\ UncrossedIsLinked'
  BY <1>1 DEF OAuthInv, AllAreCrossed, UncrossedIsLinked, Going, Working, Deciding
<1>4. RowIsLinked' /\ CacheIsLinked'
  BY <1>1 DEF OAuthInv, RowIsLinked, CacheIsLinked, NoCredential
<1>. QED
  BY <1>2, <1>3, <1>4 DEF OAuthInv

(***************************************************************************)
(* Between the owner's changes the stored credential and the one in memory *)
(* are of the account linked last, but where a request or another change   *)
(* crossed the owner's, for any number of requests and changes.            *)
(***************************************************************************)
LEMMA OAuthInductive == OAuthInv /\ [OAuthNext]_oauthVars => OAuthInv'
<1>. SUFFICES ASSUME OAuthInv, [OAuthNext]_oauthVars PROVE OAuthInv'
  OBVIOUS
<1>1. CASE OAuthNext
  BY <1>1, OwnerKeeps, RequestKeeps, AccessExpires DEF OAuthNext
<1>2. CASE UNCHANGED oauthVars
  BY <1>2 DEF oauthVars, OAuthInv, OAuthTypeOK, AllAreCrossed, UncrossedIsLinked, Going,
              Working, Deciding, RowIsLinked, CacheIsLinked
<1>. QED
  BY <1>1, <1>2

LEMMA OAuthGives == OAuthInv => TokenIsOfTheLinkedAccount
BY DEF OAuthInv, RowIsLinked, CacheIsLinked, Deciding, TokenIsOfTheLinkedAccount

-----------------------------------------------------------------------------
(***************************************************************************)
(* The tools of a voice session.                                           *)
(***************************************************************************)

(***************************************************************************)
(* A run in hand holds the key of its question, and no other run has it.   *)
(***************************************************************************)
InHandRun(r) == run[r].stage # "idle"

RunsHoldKeys ==
    /\ asking # Unset => InHandRun(asking)
    /\ \A r \in Runs : InHandRun(r) => run[r].of \in Questions /\ kept[run[r].of] = "held"
    /\ \A r, s \in Runs : InHandRun(r) /\ InHandRun(s) /\ run[r].of = run[s].of => r = s

(***************************************************************************)
(* What a run has done when it is at a stage, and what a record says: a    *)
(* meeting is booked once, and cancelled on a confirmation of its own.     *)
(***************************************************************************)
BooksMeeting(r, m) == run[r].of = <<m, Unset>>
CancelsMeeting(r, m) == InHandRun(r) /\ run[r].of[1] = m /\ run[r].of[2] # Unset
Spent(m, t) == token[t] = [meeting |-> m, good |-> FALSE]

StagesAreReal ==
    \A r \in Runs :
        /\ run[r].stage = "confirmed" => run[r].of[2] \in Tokens
        /\ run[r].of[2] \in Tokens /\ run[r].stage \in {"confirmed", "done"} =>
              Spent(run[r].of[1], run[r].of[2])
        /\ run[r].of[2] \in Tokens /\ run[r].stage = "done" => event[run[r].of[1]] = "cancelled"

RecordsAreReal ==
    /\ \A q \in Questions :
        /\ q[2] = Unset => kept[q] \in {"free", "held", "confirmed"}
        /\ q[2] # Unset => kept[q] # "confirmed"
        /\ kept[q] = "cancelled" => event[q[1]] = "cancelled"
    /\ \A m \in Meetings :
         event[m] # "none" <=>
            \/ kept[<<m, Unset>>] = "confirmed"
            \/ \E r \in Runs : run[r].stage = "done" /\ BooksMeeting(r, m)

HeardIsReal ==
    \A m \in Meetings :
        /\ heard[m] = "confirmed" =>
             \/ m \in replayed
             \/ asking # Unset /\ run[asking].of[1] = m
             \/ event[m] = "booked" /\ \A r \in Runs : ~CancelsMeeting(r, m)
        /\ heard[m] = "cancelled" => event[m] = "cancelled"
        /\ event[m] = "cancelled" => \E t \in Tokens : Spent(m, t)

ToolsInv == ToolsTypeOK /\ RunsHoldKeys /\ StagesAreReal /\ RecordsAreReal /\ HeardIsReal

-----------------------------------------------------------------------------
LEMMA QuestionIsPair ==
    ASSUME NEW q \in Questions
    PROVE  /\ q[1] \in Meetings /\ q[2] \in Tokens \cup {Unset}
           /\ q = <<q[1], q[2]>>
BY DEF Questions

LEMMA PairIsQuestion ==
    ASSUME NEW m \in Meetings, NEW t \in Tokens \cup {Unset}
    PROVE  <<m, t>> \in Questions
BY DEF Questions

LEMMA RunInHand ==
    ASSUME ToolsInv, NEW r \in Runs, run[r].stage # "idle"
    PROVE  /\ run[r] \in [of : Questions, stage : {"locked", "confirmed", "done"}]
           /\ run[r].of \in Questions
           /\ run[r].of[1] \in Meetings /\ run[r].of[2] \in Tokens \cup {Unset}
           /\ run[r].of = <<run[r].of[1], run[r].of[2]>>
           /\ kept[run[r].of] = "held"
<1>1. run[r] \in [of : Questions, stage : {"locked", "confirmed", "done"}] \cup {Idle}
  BY DEF ToolsInv, ToolsTypeOK
<1>2. run[r] # Idle
  BY DEF Idle
<1>3. kept[run[r].of] = "held"
  BY DEF ToolsInv, RunsHoldKeys, InHandRun
<1>. QED
  BY <1>1, <1>2, <1>3, QuestionIsPair

LEMMA IdleRun ==
    ASSUME ToolsInv, NEW r \in Runs
    PROVE  run[r] = Idle <=> run[r].stage = "idle"
BY DEF ToolsInv, ToolsTypeOK, Idle

LEMMA ToolsInitial == ToolsInit => ToolsInv
<1>. SUFFICES ASSUME ToolsInit PROVE ToolsInv
  OBVIOUS
<1>1. ToolsTypeOK
  BY DEF ToolsInit, ToolsTypeOK
<1>2. \A r \in Runs : run[r].stage = "idle" /\ run[r].of = <<Unset, Unset>>
  BY DEF ToolsInit, Idle
<1>3. RunsHoldKeys
  BY <1>2 DEF ToolsInit, RunsHoldKeys, InHandRun
<1>4. StagesAreReal
  BY <1>2 DEF StagesAreReal
<1>5. RecordsAreReal
  <2>1. \A m \in Meetings : <<m, Unset>> \in Questions
    BY PairIsQuestion
  <2>. QED
    BY <1>2, <2>1 DEF ToolsInit, RecordsAreReal
<1>6. HeardIsReal
  BY DEF ToolsInit, HeardIsReal
<1>. QED
  BY <1>1, <1>3, <1>4, <1>5, <1>6 DEF ToolsInv

-----------------------------------------------------------------------------
(***************************************************************************)
(* An answer that is told: nothing but what was heard has changed.         *)
(***************************************************************************)
LEMMA CancelsInHand ==
    ASSUME ToolsInv, NEW m \in Meetings
    PROVE  InHand(m) <=> \E r \in Runs : CancelsMeeting(r, m)
BY IdleRun DEF InHand, CancelsMeeting, InHandRun

LEMMA TellIsTyped ==
    ASSUME ToolsInv, NEW m \in Meetings, NEW answer \in Answers, Tell(m, answer)
    PROVE  /\ heard' \in [Meetings -> {"nothing", "asked"} \cup Answers]
           /\ replayed' \subseteq Meetings
           /\ replayed \subseteq replayed'
           /\ heard'[m] = answer
           /\ \A n \in Meetings : n # m => heard'[n] = heard[n]
           /\ answer = "confirmed" /\ m \notin replayed' =>
                 event[m] # "cancelled" /\ \A r \in Runs : ~CancelsMeeting(r, m)
<1>1. /\ heard' = [heard EXCEPT ![m] = answer]
      /\ replayed' \in {replayed, replayed \cup {m}}
  BY DEF Tell
<1>2. answer = "confirmed" /\ m \notin replayed' => event[m] # "cancelled" /\ ~InHand(m)
  BY DEF Tell
<1>3. /\ heard \in [Meetings -> {"nothing", "asked"} \cup Answers]
      /\ replayed \subseteq Meetings
  BY DEF ToolsInv, ToolsTypeOK
<1>. QED
  BY <1>1, <1>2, <1>3, CancelsInHand

LEMMA AnsweredAtOnceKeeps ==
    ASSUME ToolsInv, NEW q \in Questions, AnsweredAtOnce(q)
    PROVE  ToolsInv'
<1>1. PICK answer \in Answers :
         /\ Tell(q[1], answer)
         /\ answer = "failed" \/ answer = kept[q]
  BY DEF AnsweredAtOnce, StableWriteKey, Answers
<1>2. UNCHANGED <<contextFresh, asking, run, kept, token, event>> /\ asking = Unset
  BY DEF AnsweredAtOnce
<1>3. q[1] \in Meetings /\ q[2] \in Tokens \cup {Unset} /\ q = <<q[1], q[2]>>
  BY QuestionIsPair
<1>. DEFINE m == q[1]
<1>4. /\ heard' \in [Meetings -> {"nothing", "asked"} \cup Answers]
      /\ replayed' \subseteq Meetings
      /\ replayed \subseteq replayed'
      /\ heard'[m] = answer
      /\ \A n \in Meetings : n # m => heard'[n] = heard[n]
      /\ answer = "confirmed" /\ m \notin replayed' =>
            event[m] # "cancelled" /\ \A r \in Runs : ~CancelsMeeting(r, m)
  BY <1>1, <1>3, TellIsTyped
<1>5. ToolsTypeOK'
  BY <1>2, <1>4 DEF ToolsInv, ToolsTypeOK
<1>6. RunsHoldKeys' /\ StagesAreReal' /\ RecordsAreReal'
  BY <1>2 DEF ToolsInv, RunsHoldKeys, InHandRun, StagesAreReal, Spent, RecordsAreReal, BooksMeeting
<1>7. answer = "cancelled" => event[m] = "cancelled"
  BY <1>1, <1>3 DEF ToolsInv, RecordsAreReal
<1>8. answer = "confirmed" => event[m] # "none"
  <2>1. answer = "confirmed" => q = <<m, Unset>> /\ kept[q] = "confirmed"
    BY <1>1, <1>3 DEF ToolsInv, RecordsAreReal
  <2>. QED
    BY <1>3, <2>1 DEF ToolsInv, RecordsAreReal
<1>9. event[m] \in {"none", "booked", "cancelled"}
  BY <1>3 DEF ToolsInv, ToolsTypeOK
<1>10. \A n \in Meetings, r \in Runs : CancelsMeeting(r, n)' <=> CancelsMeeting(r, n)
  BY <1>2 DEF CancelsMeeting, InHandRun
<1>11. HeardIsReal'
  BY <1>2, <1>3, <1>4, <1>7, <1>8, <1>9, <1>10 DEF ToolsInv, HeardIsReal, Spent
<1>. QED
  BY <1>5, <1>6, <1>11 DEF ToolsInv

(***************************************************************************)
(* The agent waits for a run that takes a free key.                        *)
(***************************************************************************)
LEMMA AskToolKeeps ==
    ASSUME ToolsInv, NEW q \in Questions, NEW r \in Runs, AskTool(q, r)
    PROVE  ToolsInv'
<1>1. /\ asking = Unset /\ run[r] = Idle /\ kept[q] = "free"
      /\ kept' = [kept EXCEPT ![q] = "held"]
      /\ run' = [run EXCEPT ![r] = [of |-> q, stage |-> "locked"]] /\ asking' = r
      /\ UNCHANGED <<contextFresh, token, event, heard, replayed>>
  BY DEF AskTool, StableWriteKey
<1>2. q[1] \in Meetings /\ q[2] \in Tokens \cup {Unset} /\ q = <<q[1], q[2]>>
  BY QuestionIsPair
<1>3. r # Unset
  BY ToolsAssumption
<1>4. ToolsTypeOK'
  BY <1>1 DEF ToolsInv, ToolsTypeOK
<1>5. /\ run'[r].of = q /\ run'[r].stage = "locked"
      /\ \A s \in Runs : s # r => run'[s] = run[s]
      /\ \A p \in Questions : p # q => kept'[p] = kept[p]
      /\ kept'[q] = "held"
  BY <1>1 DEF ToolsInv, ToolsTypeOK
<1>6. \A s \in Runs : run[s].stage # "idle" => run[s].of # q
  BY <1>1, RunInHand
<1>7. RunsHoldKeys'
  BY <1>1, <1>3, <1>5, <1>6 DEF ToolsInv, RunsHoldKeys, InHandRun
<1>8. StagesAreReal'
  BY <1>1, <1>5 DEF ToolsInv, StagesAreReal, Spent
<1>9. RecordsAreReal'
  <2>1. \A m \in Meetings : <<m, Unset>> \in Questions
    BY PairIsQuestion
  <2>2. run[r].stage = "idle"
    BY <1>1 DEF Idle
  <2>3. \A m \in Meetings :
           \/ kept'[<<m, Unset>>] = "confirmed" <=> kept[<<m, Unset>>] = "confirmed"
    BY <1>1, <1>5, <2>1
  <2>4. \A m \in Meetings :
           (\E s \in Runs : run[s].stage = "done" /\ BooksMeeting(s, m))'
             <=> \E s \in Runs : run[s].stage = "done" /\ BooksMeeting(s, m)
    BY <1>5, <2>2 DEF BooksMeeting
  <2>5. \A m \in Meetings : event'[m] = event[m]
    BY <1>1
  <2>6. \A p \in Questions :
           /\ p[2] = Unset => kept'[p] \in {"free", "held", "confirmed"}
           /\ p[2] # Unset => kept'[p] # "confirmed"
           /\ kept'[p] = "cancelled" => event'[p[1]] = "cancelled"
    BY <1>1, <1>5 DEF ToolsInv, RecordsAreReal
  <2>. QED
    BY <2>3, <2>4, <2>5, <2>6 DEF ToolsInv, RecordsAreReal
<1>10. HeardIsReal'
  <2>1. \A n \in Meetings, s \in Runs : n # q[1] => (CancelsMeeting(s, n)' <=> CancelsMeeting(s, n))
    BY <1>1, <1>5 DEF CancelsMeeting, InHandRun, Idle
  <2>. QED
    BY <1>1, <1>3, <1>5, <2>1 DEF ToolsInv, HeardIsReal, Spent
<1>. QED
  BY <1>4, <1>7, <1>8, <1>9, <1>10 DEF ToolsInv

LEMMA AskWithoutYesKeeps ==
    ASSUME ToolsInv, NEW m \in Meetings, NEW t \in Tokens, AskWithoutYes(m, t)
    PROVE  ToolsInv'
<1>1. /\ asking = Unset /\ token[t].meeting = Unset
      /\ token' = [token EXCEPT ![t] = [meeting |-> m, good |-> TRUE]]
      /\ heard' = [heard EXCEPT ![m] = "asked"]
      /\ UNCHANGED <<contextFresh, asking, run, kept, event, replayed>>
  BY DEF AskWithoutYes
<1>2. ToolsTypeOK'
  BY <1>1 DEF ToolsInv, ToolsTypeOK
<1>3. \A n \in Meetings, u \in Tokens : Spent(n, u) => Spent(n, u)'
  <2>1. SUFFICES ASSUME NEW n \in Meetings, NEW u \in Tokens, Spent(n, u) PROVE Spent(n, u)'
    OBVIOUS
  <2>2. u # t
    BY <1>1, <2>1, ToolsAssumption DEF Spent
  <2>3. token'[u] = token[u]
    BY <1>1, <2>2 DEF ToolsInv, ToolsTypeOK
  <2>. QED
    BY <2>1, <2>3 DEF Spent
<1>4. RunsHoldKeys' /\ RecordsAreReal'
  BY <1>1 DEF ToolsInv, RunsHoldKeys, InHandRun, RecordsAreReal, BooksMeeting
<1>5. StagesAreReal'
  <2>1. \A r \in Runs : run[r].stage \in {"confirmed", "done"} => run[r].of[1] \in Meetings
    BY RunInHand
  <2>2. UNCHANGED <<run, event>>
    BY <1>1
  <2>. QED
    BY <1>3, <2>1, <2>2 DEF ToolsInv, StagesAreReal
<1>6. HeardIsReal'
  <2>1. \A n \in Meetings, r \in Runs : CancelsMeeting(r, n)' <=> CancelsMeeting(r, n)
    BY <1>1 DEF CancelsMeeting, InHandRun
  <2>2. \A n \in Meetings : heard'[n] \in {"asked", heard[n]}
    BY <1>1 DEF ToolsInv, ToolsTypeOK
  <2>. QED
    BY <1>1, <1>3, <2>1, <2>2 DEF ToolsInv, HeardIsReal
<1>. QED
  BY <1>2, <1>4, <1>5, <1>6 DEF ToolsInv

-----------------------------------------------------------------------------
(***************************************************************************)
(* The end of a run: its key holds the answer, or is free after a failure, *)
(* and the caller hears of it only if the agent still waits for this run.  *)
(***************************************************************************)
LEMMA AnswerKeeps ==
    ASSUME ToolsInv, NEW r \in Runs, run[r].stage # "idle", NEW answer \in Answers,
           Answer(r, answer), UNCHANGED <<token, event>>,
           answer = "confirmed" => run[r].of[2] = Unset /\ run[r].stage = "done",
           run[r].of[2] = Unset /\ answer # "confirmed" =>
              answer = "failed" /\ run[r].stage # "done",
           answer = "cancelled" => event[run[r].of[1]] = "cancelled"
    PROVE  ToolsInv'
<1>. DEFINE q == run[r].of
            m == q[1]
<1>1. q \in Questions /\ m \in Meetings /\ q[2] \in Tokens \cup {Unset} /\ q = <<m, q[2]>>
      /\ kept[q] = "held"
  BY RunInHand
<1>2. /\ kept' = [kept EXCEPT ![q] = IF answer = "failed" THEN "free" ELSE answer]
      /\ run' = [run EXCEPT ![r] = Idle]
      /\ contextFresh' = contextFresh
  BY DEF Answer, StableWriteKey
<1>3. /\ run'[r] = Idle /\ run'[r].stage = "idle"
      /\ \A s \in Runs : s # r => run'[s] = run[s]
      /\ \A p \in Questions : p # q => kept'[p] = kept[p]
      /\ kept'[q] = IF answer = "failed" THEN "free" ELSE answer
  BY <1>1, <1>2 DEF ToolsInv, ToolsTypeOK, Idle
<1>4. \/ /\ asking = r /\ asking' = Unset
         /\ Tell(m, answer)
      \/ asking # r /\ UNCHANGED <<asking, heard, replayed>>
  BY DEF Answer
<1>5. /\ heard' \in [Meetings -> {"nothing", "asked"} \cup Answers]
      /\ replayed' \subseteq Meetings /\ replayed \subseteq replayed'
      /\ \A n \in Meetings : n # m => heard'[n] = heard[n]
  <2>1. CASE asking = r
    BY <1>1, <1>4, <2>1, TellIsTyped
  <2>2. CASE asking # r
    BY <1>4, <2>2 DEF ToolsInv, ToolsTypeOK
  <2>. QED BY <2>1, <2>2
<1>6. ToolsTypeOK'
  <2>1. kept' \in [Questions -> {"free", "held"} \cup Answers]
    BY <1>2 DEF ToolsInv, ToolsTypeOK
  <2>2. run' \in [Runs -> [of : Questions, stage : {"locked", "confirmed", "done"}] \cup {Idle}]
    BY <1>2 DEF ToolsInv, ToolsTypeOK
  <2>3. asking' \in Runs \cup {Unset} /\ contextFresh' \in BOOLEAN
    BY <1>2, <1>4 DEF ToolsInv, ToolsTypeOK
  <2>. QED
    BY <1>5, <2>1, <2>2, <2>3 DEF ToolsInv, ToolsTypeOK
<1>7. RunsHoldKeys'
  <2>1. asking' # Unset => asking' # r /\ asking' = asking
    BY <1>4
  <2>2. asking' # Unset => InHandRun(asking)'
    BY <1>3, <2>1, ToolsAssumption DEF ToolsInv, ToolsTypeOK, RunsHoldKeys, InHandRun
  <2>3. ASSUME NEW s \in Runs, InHandRun(s)' PROVE s # r /\ InHandRun(s) /\ run'[s] = run[s]
    BY <1>3, <2>3 DEF InHandRun
  <2>4. \A s \in Runs : s # r /\ InHandRun(s) => run[s].of # q
    BY DEF ToolsInv, RunsHoldKeys, InHandRun
  <2>5. \A s \in Runs : InHandRun(s)' => run'[s].of \in Questions /\ kept'[run'[s].of] = "held"
    BY <1>3, <2>3, <2>4 DEF ToolsInv, RunsHoldKeys
  <2>6. \A s, u \in Runs : InHandRun(s)' /\ InHandRun(u)' /\ run'[s].of = run'[u].of => s = u
    BY <2>3 DEF ToolsInv, RunsHoldKeys
  <2>. QED
    BY <2>2, <2>5, <2>6 DEF RunsHoldKeys
<1>8. StagesAreReal'
  <2>1. UNCHANGED <<token, event>>
    OBVIOUS
  <2>2. Idle.of[2] = Unset /\ Unset \notin Tokens
    BY ToolsAssumption DEF Idle
  <2>. QED
    BY <1>3, <2>1, <2>2 DEF ToolsInv, StagesAreReal, Spent
<1>9. RecordsAreReal'
  <2>1. ASSUME NEW p \in Questions
        PROVE  /\ p[2] = Unset => kept'[p] \in {"free", "held", "confirmed"}
               /\ p[2] # Unset => kept'[p] # "confirmed"
               /\ kept'[p] = "cancelled" => event'[p[1]] = "cancelled"
    BY <1>3, <2>1 DEF ToolsInv, RecordsAreReal, Answers
  <2>2. ASSUME NEW n \in Meetings
        PROVE  event'[n] # "none" <=>
                  \/ kept'[<<n, Unset>>] = "confirmed"
                  \/ \E s \in Runs : run'[s].stage = "done" /\ BooksMeeting(s, n)'
    <3>1. <<n, Unset>> \in Questions
      BY PairIsQuestion
    <3>2. event[n] # "none" <=>
             \/ kept[<<n, Unset>>] = "confirmed"
             \/ \E s \in Runs : run[s].stage = "done" /\ BooksMeeting(s, n)
      BY DEF ToolsInv, RecordsAreReal
    <3>3. CASE q = <<n, Unset>>
      <4>1. q[2] = Unset
        BY <3>3
      <4>2. CASE answer = "confirmed"
        <5>1. event[n] # "none"
          BY <3>2, <3>3, <4>2 DEF BooksMeeting
        <5>. QED
          BY <1>3, <3>3, <4>2, <5>1
      <4>3. CASE answer # "confirmed"
        <5>1. kept'[q] = "free" /\ run[r].stage # "done"
          BY <1>3, <4>1, <4>3
        <5>2. \A s \in Runs : run[s].stage = "done" => ~BooksMeeting(s, n)
          <6>1. \A s \in Runs : run[s].stage = "done" /\ BooksMeeting(s, n) => s = r
            BY <3>3 DEF ToolsInv, RunsHoldKeys, InHandRun, BooksMeeting
          <6>. QED BY <5>1, <6>1
        <5>3. event[n] = "none"
          BY <1>1, <3>2, <3>3, <5>2
        <5>4. \A s \in Runs : run'[s].stage = "done" => ~BooksMeeting(s, n)'
          BY <1>3, <5>2 DEF BooksMeeting
        <5>. QED
          BY <3>3, <5>1, <5>3, <5>4
      <4>. QED BY <4>2, <4>3
    <3>4. CASE q # <<n, Unset>>
      <4>1. kept'[<<n, Unset>>] = kept[<<n, Unset>>]
        BY <1>3, <3>1, <3>4
      <4>2. ~BooksMeeting(r, n)
        BY <3>4 DEF BooksMeeting
      <4>3. \A s \in Runs : run'[s].stage = "done" /\ BooksMeeting(s, n)'
                               <=> run[s].stage = "done" /\ BooksMeeting(s, n)
        BY <1>3, <4>2 DEF BooksMeeting
      <4>. QED
        BY <3>2, <4>1, <4>3
    <3>. QED BY <3>3, <3>4
  <2>. QED
    BY <2>1, <2>2 DEF RecordsAreReal
<1>10. HeardIsReal'
  <2>1. \A n \in Meetings, s \in Runs : CancelsMeeting(s, n)' => CancelsMeeting(s, n)
    BY <1>3 DEF CancelsMeeting, InHandRun
  <2>2. ASSUME NEW n \in Meetings, heard'[n] = "confirmed"
        PROVE  \/ n \in replayed'
               \/ asking' # Unset /\ run'[asking'].of[1] = n
               \/ event'[n] = "booked" /\ \A s \in Runs : ~CancelsMeeting(s, n)'
    <3>1. CASE asking = r /\ n = m
      <4>1. /\ heard'[m] = answer
            /\ answer = "confirmed" /\ m \notin replayed' =>
                  event[m] # "cancelled" /\ \A s \in Runs : ~CancelsMeeting(s, m)
        BY <1>1, <1>4, <3>1, TellIsTyped
      <4>2. answer = "confirmed" => event[m] # "none"
        <5>1. ASSUME answer = "confirmed" PROVE BooksMeeting(r, m) /\ run[r].stage = "done"
          BY <1>1, <5>1 DEF BooksMeeting
        <5>. QED
          BY <1>1, <5>1 DEF ToolsInv, RecordsAreReal
      <4>3. event[m] \in {"none", "booked", "cancelled"}
        BY <1>1 DEF ToolsInv, ToolsTypeOK
      <4>. QED
        BY <2>1, <2>2, <3>1, <4>1, <4>2, <4>3
    <3>2. CASE asking = r /\ n # m
      <4>1. heard'[n] = heard[n] /\ run[asking].of[1] # n
        BY <1>5, <3>2
      <4>. QED
        BY <1>5, <2>1, <2>2, <4>1 DEF ToolsInv, HeardIsReal
    <3>3. CASE asking # r
      <4>1. UNCHANGED <<asking, heard, replayed>>
        BY <1>4, <3>3
      <4>2. asking # Unset => run'[asking] = run[asking]
        BY <1>3, <3>3 DEF ToolsInv, ToolsTypeOK
      <4>. QED
        BY <2>1, <2>2, <4>1, <4>2 DEF ToolsInv, HeardIsReal
    <3>. QED BY <3>1, <3>2, <3>3
  <2>3. ASSUME NEW n \in Meetings, heard'[n] = "cancelled" PROVE event'[n] = "cancelled"
    <3>1. \/ heard'[n] = heard[n]
          \/ n = m /\ heard'[m] = answer
      <4>1. CASE asking = r
        BY <1>1, <1>4, <4>1, TellIsTyped
      <4>2. CASE asking # r
        BY <1>4, <4>2
      <4>. QED BY <4>1, <4>2
    <3>. QED
      BY <2>3, <3>1 DEF ToolsInv, HeardIsReal
  <2>4. \A n \in Meetings : event'[n] = "cancelled" => \E t \in Tokens : Spent(n, t)'
    BY DEF ToolsInv, HeardIsReal, Spent
  <2>. QED
    BY <2>2, <2>3, <2>4 DEF HeardIsReal
<1>. QED
  BY <1>6, <1>7, <1>8, <1>9, <1>10 DEF ToolsInv

(***************************************************************************)
(* A run that goes on: another stage, the same question and key.           *)
(***************************************************************************)
LEMMA RunGoesOn ==
    ASSUME ToolsInv, NEW r \in Runs, run[r].stage # "idle",
           NEW stage \in {"confirmed", "done"}, run' = [run EXCEPT ![r].stage = stage],
           UNCHANGED <<contextFresh, asking, kept, heard, replayed>>
    PROVE  /\ run' \in [Runs -> [of : Questions, stage : {"locked", "confirmed", "done"}] \cup {Idle}]
           /\ run'[r].of = run[r].of /\ run'[r].stage = stage
           /\ \A s \in Runs : s # r => run'[s] = run[s]
           /\ \A s \in Runs : run'[s].of = run[s].of
           /\ RunsHoldKeys'
           /\ \A n \in Meetings, s \in Runs : CancelsMeeting(s, n)' <=> CancelsMeeting(s, n)
<1>1. run[r] \in [of : Questions, stage : {"locked", "confirmed", "done"}]
  BY RunInHand
<1>2. [run[r] EXCEPT !.stage = stage] \in [of : Questions, stage : {"locked", "confirmed", "done"}]
  BY <1>1
<1>3. run' = [run EXCEPT ![r] = [run[r] EXCEPT !.stage = stage]]
  OBVIOUS
<1>4. run \in [Runs -> [of : Questions, stage : {"locked", "confirmed", "done"}] \cup {Idle}]
  BY DEF ToolsInv, ToolsTypeOK
<1>5. run' \in [Runs -> [of : Questions, stage : {"locked", "confirmed", "done"}] \cup {Idle}]
  BY <1>2, <1>3, <1>4
<1>6. /\ run'[r].of = run[r].of /\ run'[r].stage = stage
      /\ \A s \in Runs : s # r => run'[s] = run[s]
  BY <1>1, <1>3, <1>4
<1>7. \A s \in Runs : run'[s].of = run[s].of /\ (InHandRun(s)' <=> InHandRun(s))
  BY <1>6 DEF InHandRun
<1>8. RunsHoldKeys'
  BY <1>7 DEF ToolsInv, ToolsTypeOK, RunsHoldKeys
<1>9. \A n \in Meetings, s \in Runs : CancelsMeeting(s, n)' <=> CancelsMeeting(s, n)
  BY <1>7 DEF CancelsMeeting
<1>. QED
  BY <1>5, <1>6, <1>7, <1>8, <1>9

LEMMA ConsumeKeeps ==
    ASSUME ToolsInv, NEW r \in Runs, ConsumeConfirmation(r)
    PROVE  ToolsInv'
<1>. DEFINE m == run[r].of[1]
            t == run[r].of[2]
<1>1. /\ run[r].stage = "locked" /\ t # Unset
      /\ token[t] = [meeting |-> m, good |-> TRUE]
      /\ token' = [token EXCEPT ![t].good = FALSE]
      /\ run' = [run EXCEPT ![r].stage = "confirmed"]
      /\ UNCHANGED <<contextFresh, asking, kept, event, heard, replayed>>
  BY DEF ConsumeConfirmation
<1>2. m \in Meetings /\ t \in Tokens
  BY <1>1, RunInHand
<1>3. /\ run' \in [Runs -> [of : Questions, stage : {"locked", "confirmed", "done"}] \cup {Idle}]
      /\ run'[r].of = run[r].of /\ run'[r].stage = "confirmed"
      /\ \A s \in Runs : s # r => run'[s] = run[s]
      /\ RunsHoldKeys'
      /\ \A n \in Meetings, s \in Runs : CancelsMeeting(s, n)' <=> CancelsMeeting(s, n)
  BY <1>1, RunGoesOn
<1>4. /\ token'[t] = [meeting |-> m, good |-> FALSE]
      /\ \A u \in Tokens : u # t => token'[u] = token[u]
      /\ token' \in [Tokens -> [meeting : Meetings \cup {Unset}, good : BOOLEAN]]
  <2>1. token' \in [Tokens -> [meeting : Meetings \cup {Unset}, good : BOOLEAN]]
    BY <1>1, <1>2 DEF ToolsInv, ToolsTypeOK
  <2>2. token[t].meeting = m
    BY <1>1
  <2>3. /\ token'[t].meeting = m /\ token'[t].good = FALSE
        /\ \A u \in Tokens : u # t => token'[u] = token[u]
    BY <1>1, <1>2, <2>2 DEF ToolsInv, ToolsTypeOK
  <2>4. token'[t] \in [meeting : Meetings \cup {Unset}, good : BOOLEAN]
    BY <1>2, <2>1
  <2>. QED
    BY <2>1, <2>3, <2>4
<1>5. \A n \in Meetings, u \in Tokens : Spent(n, u) => Spent(n, u)'
  <2>1. ASSUME NEW n \in Meetings, NEW u \in Tokens, Spent(n, u) PROVE Spent(n, u)'
    <3>1. u # t
      BY <1>1, <2>1 DEF Spent
    <3>. QED
      BY <1>4, <2>1, <3>1 DEF Spent
  <2>. QED BY <2>1
<1>6. ToolsTypeOK'
  BY <1>1, <1>3, <1>4 DEF ToolsInv, ToolsTypeOK
<1>7. StagesAreReal'
  <2>1. ASSUME NEW s \in Runs
        PROVE  /\ run'[s].stage = "confirmed" => run'[s].of[2] \in Tokens
               /\ run'[s].of[2] \in Tokens /\ run'[s].stage \in {"confirmed", "done"} =>
                     token'[run'[s].of[2]] = [meeting |-> run'[s].of[1], good |-> FALSE]
               /\ run'[s].of[2] \in Tokens /\ run'[s].stage = "done" =>
                     event'[run'[s].of[1]] = "cancelled"
    <3>1. CASE s = r
      BY <1>2, <1>3, <1>4, <3>1 DEF Spent
    <3>2. CASE s # r
      <4>1. run'[s] = run[s] /\ event' = event
        BY <1>1, <1>3, <3>2
      <4>2. run[s].stage \in {"confirmed", "done"} => run[s].of[1] \in Meetings
        BY RunInHand
      <4>. QED
        BY <1>5, <4>1, <4>2 DEF ToolsInv, StagesAreReal, Spent
    <3>. QED BY <3>1, <3>2
  <2>. QED
    BY <2>1 DEF StagesAreReal, Spent
<1>8. RecordsAreReal'
  <2>1. \A n \in Meetings, s \in Runs : run'[s].stage = "done" /\ BooksMeeting(s, n)'
                                           <=> run[s].stage = "done" /\ BooksMeeting(s, n)
    BY <1>1, <1>3 DEF BooksMeeting
  <2>2. UNCHANGED <<kept, event>>
    BY <1>1
  <2>. QED
    BY <2>1, <2>2 DEF ToolsInv, RecordsAreReal
<1>9. HeardIsReal'
  <2>1. asking # Unset => run'[asking].of = run[asking].of
    BY <1>3 DEF ToolsInv, ToolsTypeOK
  <2>. QED
    BY <1>1, <1>3, <1>5, <2>1 DEF ToolsInv, HeardIsReal
<1>. QED
  BY <1>3, <1>6, <1>7, <1>8, <1>9 DEF ToolsInv

LEMMA BookKeeps ==
    ASSUME ToolsInv, NEW r \in Runs, Book(r)
    PROVE  ToolsInv'
<1>. DEFINE m == run[r].of[1]
<1>1. /\ run[r].stage = "locked" /\ run[r].of[2] = Unset
      /\ event' = [event EXCEPT ![m] = "booked"]
      /\ run' = [run EXCEPT ![r].stage = "done"]
      /\ UNCHANGED <<contextFresh, asking, kept, token, heard, replayed>>
  BY DEF Book
<1>2. m \in Meetings /\ run[r].of = <<m, Unset>> /\ kept[<<m, Unset>>] = "held"
      /\ <<m, Unset>> \in Questions
  BY <1>1, RunInHand
<1>3. /\ run' \in [Runs -> [of : Questions, stage : {"locked", "confirmed", "done"}] \cup {Idle}]
      /\ run'[r].of = run[r].of /\ run'[r].stage = "done"
      /\ \A s \in Runs : s # r => run'[s] = run[s]
      /\ RunsHoldKeys'
      /\ \A n \in Meetings, s \in Runs : CancelsMeeting(s, n)' <=> CancelsMeeting(s, n)
  BY <1>1, RunGoesOn
<1>4. \A s \in Runs : run[s].stage = "done" => ~BooksMeeting(s, m)
  BY <1>1, <1>2 DEF ToolsInv, RunsHoldKeys, InHandRun, BooksMeeting
<1>5. event[m] = "none"
  BY <1>2, <1>4 DEF ToolsInv, RecordsAreReal
<1>6. /\ event' \in [Meetings -> {"none", "booked", "cancelled"}]
      /\ event'[m] = "booked"
      /\ \A n \in Meetings : n # m => event'[n] = event[n]
      /\ \A n \in Meetings : event'[n] = "cancelled" <=> event[n] = "cancelled"
  BY <1>1, <1>2, <1>5 DEF ToolsInv, ToolsTypeOK
<1>7. ToolsTypeOK'
  BY <1>1, <1>3, <1>6 DEF ToolsInv, ToolsTypeOK
<1>8. StagesAreReal'
  <2>1. Unset \notin Tokens
    BY ToolsAssumption
  <2>2. ASSUME NEW s \in Runs
        PROVE  /\ run'[s].stage = "confirmed" => run'[s].of[2] \in Tokens
               /\ run'[s].of[2] \in Tokens /\ run'[s].stage \in {"confirmed", "done"} =>
                     token'[run'[s].of[2]] = [meeting |-> run'[s].of[1], good |-> FALSE]
               /\ run'[s].of[2] \in Tokens /\ run'[s].stage = "done" =>
                     event'[run'[s].of[1]] = "cancelled"
    <3>1. CASE s = r
      BY <1>1, <1>3, <2>1, <3>1
    <3>2. CASE s # r
      <4>1. run'[s] = run[s] /\ token' = token
        BY <1>1, <1>3, <3>2
      <4>2. run[s].stage \in {"confirmed", "done"} => run[s].of[1] \in Meetings
        BY RunInHand
      <4>. QED
        BY <1>6, <4>1, <4>2 DEF ToolsInv, StagesAreReal, Spent
    <3>. QED BY <3>1, <3>2
  <2>. QED
    BY <2>2 DEF StagesAreReal, Spent
<1>9. RecordsAreReal'
  <2>1. ASSUME NEW p \in Questions
        PROVE  /\ p[2] = Unset => kept'[p] \in {"free", "held", "confirmed"}
               /\ p[2] # Unset => kept'[p] # "confirmed"
               /\ kept'[p] = "cancelled" => event'[p[1]] = "cancelled"
    <3>1. p[1] \in Meetings
      BY QuestionIsPair
    <3>. QED
      BY <1>1, <1>6, <3>1 DEF ToolsInv, RecordsAreReal
  <2>2. ASSUME NEW n \in Meetings
        PROVE  event'[n] # "none" <=>
                  \/ kept'[<<n, Unset>>] = "confirmed"
                  \/ \E s \in Runs : run'[s].stage = "done" /\ BooksMeeting(s, n)'
    <3>1. CASE n = m
      BY <1>2, <1>3, <1>6, <3>1 DEF BooksMeeting
    <3>2. CASE n # m
      <4>1. \A s \in Runs : run'[s].stage = "done" /\ BooksMeeting(s, n)'
                               <=> run[s].stage = "done" /\ BooksMeeting(s, n)
        <5>1. ~BooksMeeting(r, n)
          BY <1>2, <3>2 DEF BooksMeeting
        <5>. QED
          BY <1>3, <5>1 DEF BooksMeeting
      <4>. QED
        BY <1>1, <1>6, <3>2, <4>1 DEF ToolsInv, RecordsAreReal
    <3>. QED BY <3>1, <3>2
  <2>. QED
    BY <2>1, <2>2 DEF RecordsAreReal
<1>10. HeardIsReal'
  <2>1. asking # Unset => run'[asking].of = run[asking].of
    BY <1>3 DEF ToolsInv, ToolsTypeOK
  <2>2. \A n \in Meetings : event[n] = "booked" => event'[n] = "booked"
    BY <1>5, <1>6
  <2>3. \A n \in Meetings : heard'[n] = "confirmed" =>
             \/ n \in replayed'
             \/ asking' # Unset /\ run'[asking'].of[1] = n
             \/ event'[n] = "booked" /\ \A s \in Runs : ~CancelsMeeting(s, n)'
    BY <1>1, <1>3, <2>1, <2>2 DEF ToolsInv, HeardIsReal
  <2>. QED
    BY <1>1, <1>6, <2>3 DEF ToolsInv, HeardIsReal, Spent
<1>. QED
  BY <1>3, <1>7, <1>8, <1>9, <1>10 DEF ToolsInv

LEMMA DeleteKeeps ==
    ASSUME ToolsInv, NEW r \in Runs, Delete(r)
    PROVE  ToolsInv'
<1>. DEFINE m == run[r].of[1]
<1>1. /\ run[r].stage = "confirmed" /\ event[m] = "booked"
      /\ event' = [event EXCEPT ![m] = "cancelled"]
      /\ run' = [run EXCEPT ![r].stage = "done"]
      /\ UNCHANGED <<contextFresh, asking, kept, token, heard, replayed>>
  BY DEF Delete
<1>2. m \in Meetings /\ run[r].of[2] \in Tokens /\ Spent(m, run[r].of[2])
  BY <1>1, RunInHand DEF ToolsInv, StagesAreReal
<1>3. /\ run' \in [Runs -> [of : Questions, stage : {"locked", "confirmed", "done"}] \cup {Idle}]
      /\ run'[r].of = run[r].of /\ run'[r].stage = "done"
      /\ \A s \in Runs : s # r => run'[s] = run[s]
      /\ RunsHoldKeys'
      /\ \A n \in Meetings, s \in Runs : CancelsMeeting(s, n)' <=> CancelsMeeting(s, n)
  BY <1>1, RunGoesOn
<1>4. /\ event' \in [Meetings -> {"none", "booked", "cancelled"}]
      /\ event'[m] = "cancelled"
      /\ \A n \in Meetings : n # m => event'[n] = event[n]
      /\ \A n \in Meetings : event[n] = "cancelled" => event'[n] = "cancelled"
      /\ \A n \in Meetings : event'[n] # "none" <=> event[n] # "none"
  BY <1>1, <1>2 DEF ToolsInv, ToolsTypeOK
<1>5. ToolsTypeOK'
  BY <1>1, <1>3, <1>4 DEF ToolsInv, ToolsTypeOK
<1>6. StagesAreReal'
  <2>1. ASSUME NEW s \in Runs
        PROVE  /\ run'[s].stage = "confirmed" => run'[s].of[2] \in Tokens
               /\ run'[s].of[2] \in Tokens /\ run'[s].stage \in {"confirmed", "done"} =>
                     token'[run'[s].of[2]] = [meeting |-> run'[s].of[1], good |-> FALSE]
               /\ run'[s].of[2] \in Tokens /\ run'[s].stage = "done" =>
                     event'[run'[s].of[1]] = "cancelled"
    <3>1. CASE s = r
      BY <1>1, <1>2, <1>3, <1>4, <3>1 DEF Spent
    <3>2. CASE s # r
      <4>1. run'[s] = run[s] /\ token' = token
        BY <1>1, <1>3, <3>2
      <4>2. run[s].stage \in {"confirmed", "done"} => run[s].of[1] \in Meetings
        BY RunInHand
      <4>. QED
        BY <1>4, <4>1, <4>2 DEF ToolsInv, StagesAreReal, Spent
    <3>. QED BY <3>1, <3>2
  <2>. QED
    BY <2>1 DEF StagesAreReal, Spent
<1>7. RecordsAreReal'
  <2>1. \A p \in Questions : p[1] \in Meetings
    BY QuestionIsPair
  <2>2. \A n \in Meetings, s \in Runs : run'[s].stage = "done" /\ BooksMeeting(s, n)'
                                           <=> run[s].stage = "done" /\ BooksMeeting(s, n)
    <3>1. \A n \in Meetings : ~BooksMeeting(r, n)
      BY <1>2, ToolsAssumption DEF BooksMeeting
    <3>. QED
      BY <1>3, <3>1 DEF BooksMeeting
  <2>. QED
    BY <1>1, <1>4, <2>1, <2>2 DEF ToolsInv, RecordsAreReal
<1>8. HeardIsReal'
  <2>1. asking # Unset => run'[asking].of = run[asking].of
    BY <1>3 DEF ToolsInv, ToolsTypeOK
  <2>2. CancelsMeeting(r, m)
    BY <1>1, <1>2, ToolsAssumption DEF CancelsMeeting, InHandRun
  <2>3. \A n \in Meetings : heard'[n] = "confirmed" =>
             \/ n \in replayed'
             \/ asking' # Unset /\ run'[asking'].of[1] = n
             \/ event'[n] = "booked" /\ \A s \in Runs : ~CancelsMeeting(s, n)'
    BY <1>1, <1>3, <1>4, <2>1, <2>2 DEF ToolsInv, HeardIsReal
  <2>4. \A n \in Meetings : event'[n] = "cancelled" => \E t \in Tokens : Spent(n, t)'
    BY <1>1, <1>2, <1>4 DEF ToolsInv, HeardIsReal, Spent
  <2>. QED
    BY <1>1, <1>4, <2>3, <2>4 DEF ToolsInv, HeardIsReal
<1>. QED
  BY <1>3, <1>5, <1>6, <1>7, <1>8 DEF ToolsInv

LEMMA AnswerLostKeeps == ToolsInv /\ AnswerLost => ToolsInv'
<1>. SUFFICES ASSUME ToolsInv, AnswerLost PROVE ToolsInv'
  OBVIOUS
<1>. DEFINE m == run[asking].of[1]
<1>1. /\ asking # Unset /\ asking' = Unset
      /\ heard' = [heard EXCEPT ![m] = "failed"]
      /\ UNCHANGED <<contextFresh, run, kept, token, event, replayed>>
  BY DEF AnswerLost
<1>2. asking \in Runs /\ m \in Meetings
  BY <1>1, RunInHand DEF ToolsInv, ToolsTypeOK, RunsHoldKeys, InHandRun
<1>3. /\ heard' \in [Meetings -> {"nothing", "asked"} \cup Answers]
      /\ heard'[m] = "failed" /\ \A n \in Meetings : n # m => heard'[n] = heard[n]
  BY <1>1, <1>2 DEF ToolsInv, ToolsTypeOK, Answers
<1>4. ToolsTypeOK'
  BY <1>1, <1>3 DEF ToolsInv, ToolsTypeOK
<1>5. RunsHoldKeys' /\ StagesAreReal' /\ RecordsAreReal'
  BY <1>1 DEF ToolsInv, RunsHoldKeys, InHandRun, StagesAreReal, Spent, RecordsAreReal, BooksMeeting
<1>6. \A n \in Meetings, s \in Runs : CancelsMeeting(s, n)' <=> CancelsMeeting(s, n)
  BY <1>1 DEF CancelsMeeting, InHandRun
<1>7. HeardIsReal'
  BY <1>1, <1>2, <1>3, <1>6 DEF ToolsInv, HeardIsReal, Spent
<1>. QED
  BY <1>4, <1>5, <1>7 DEF ToolsInv

LEMMA ExpiryKeeps ==
    ASSUME ToolsInv, ContextExpires \/ \E t \in Tokens : ConfirmationExpires(t)
    PROVE  ToolsInv'
<1>1. /\ UNCHANGED <<asking, run, kept, event, heard, replayed>>
      /\ contextFresh' \in BOOLEAN
      /\ \/ token' = token
         \/ \E t \in Tokens : token' = [token EXCEPT ![t].good = FALSE]
  BY DEF ContextExpires, ConfirmationExpires, ToolsInv, ToolsTypeOK
<1>2. /\ token' \in [Tokens -> [meeting : Meetings \cup {Unset}, good : BOOLEAN]]
      /\ \A t \in Tokens : /\ token'[t].meeting = token[t].meeting
                           /\ ~token[t].good => ~token'[t].good
  <2>1. token \in [Tokens -> [meeting : Meetings \cup {Unset}, good : BOOLEAN]]
    BY DEF ToolsInv, ToolsTypeOK
  <2>2. CASE token' = token
    BY <2>1, <2>2
  <2>3. ASSUME NEW t \in Tokens, token' = [token EXCEPT ![t].good = FALSE]
        PROVE  /\ token' \in [Tokens -> [meeting : Meetings \cup {Unset}, good : BOOLEAN]]
               /\ \A u \in Tokens : /\ token'[u].meeting = token[u].meeting
                                    /\ ~token[u].good => ~token'[u].good
    BY <2>1, <2>3
  <2>. QED
    BY <1>1, <2>2, <2>3
<1>3. \A n \in Meetings, t \in Tokens : Spent(n, t) => Spent(n, t)'
  <2>1. ASSUME NEW n \in Meetings, NEW t \in Tokens, Spent(n, t) PROVE Spent(n, t)'
    <3>1. token[t].meeting = n /\ ~token[t].good
      BY <2>1 DEF Spent
    <3>2. token'[t] \in [meeting : Meetings \cup {Unset}, good : BOOLEAN]
      BY <1>2
    <3>3. token'[t].meeting = n /\ token'[t].good = FALSE
      BY <1>2, <3>1, <3>2
    <3>. QED
      BY <3>2, <3>3 DEF Spent
  <2>. QED BY <2>1
<1>4. ToolsTypeOK'
  BY <1>1, <1>2 DEF ToolsInv, ToolsTypeOK
<1>5. RunsHoldKeys' /\ RecordsAreReal'
  BY <1>1 DEF ToolsInv, RunsHoldKeys, InHandRun, RecordsAreReal, BooksMeeting
<1>6. StagesAreReal'
  <2>1. \A r \in Runs : run[r].stage \in {"confirmed", "done"} => run[r].of[1] \in Meetings
    BY RunInHand
  <2>. QED
    BY <1>1, <1>3, <2>1 DEF ToolsInv, StagesAreReal
<1>7. \A n \in Meetings, s \in Runs : CancelsMeeting(s, n)' <=> CancelsMeeting(s, n)
  BY <1>1 DEF CancelsMeeting, InHandRun
<1>8. HeardIsReal'
  BY <1>1, <1>3, <1>7 DEF ToolsInv, HeardIsReal
<1>. QED
  BY <1>4, <1>5, <1>6, <1>8 DEF ToolsInv

LEMMA ToolsInductive == ToolsInv /\ [ToolsNext]_toolVars => ToolsInv'
<1>. SUFFICES ASSUME ToolsInv, [ToolsNext]_toolVars PROVE ToolsInv'
  OBVIOUS
<1>1. CASE UNCHANGED toolVars
  <2>1. UNCHANGED <<contextFresh, asking, run, kept, token, event, heard, replayed>>
    BY <1>1 DEF toolVars
  <2>2. ToolsTypeOK' /\ RunsHoldKeys' /\ StagesAreReal'
    BY <2>1 DEF ToolsInv, ToolsTypeOK, RunsHoldKeys, InHandRun, StagesAreReal, Spent
  <2>3. RecordsAreReal'
    BY <2>1 DEF ToolsInv, RecordsAreReal, BooksMeeting
  <2>4. \A n \in Meetings, s \in Runs : CancelsMeeting(s, n)' <=> CancelsMeeting(s, n)
    BY <2>1 DEF CancelsMeeting, InHandRun
  <2>5. HeardIsReal'
    BY <2>1, <2>4 DEF ToolsInv, HeardIsReal, Spent
  <2>. QED
    BY <2>2, <2>3, <2>5 DEF ToolsInv
<1>2. ASSUME NEW r \in Runs, ConfirmationRefused(r) \/ ToolFails(r) PROVE ToolsInv'
  <2>1. run[r].stage # "idle" /\ Answer(r, "failed") /\ UNCHANGED <<token, event>>
        /\ (run[r].of[2] = Unset => run[r].stage # "done")
    BY <1>2 DEF ConfirmationRefused, ToolFails
  <2>. QED
    BY <2>1, AnswerKeeps DEF Answers
<1>3. ASSUME NEW r \in Runs, DeleteRefused(r) PROVE ToolsInv'
  <2>1. run[r].stage # "idle" /\ Answer(r, "refused") /\ UNCHANGED <<token, event>>
        /\ run[r].of[2] # Unset
    BY <1>3, ToolsAssumption DEF DeleteRefused, ToolsInv, StagesAreReal
  <2>. QED
    BY <2>1, AnswerKeeps DEF Answers
<1>4. ASSUME NEW r \in Runs, CommitAnswer(r) PROVE ToolsInv'
  <2>1. run[r].stage = "done" /\ UNCHANGED <<token, event>>
    BY <1>4 DEF CommitAnswer
  <2>2. run[r].of[2] \in Tokens \cup {Unset}
    BY <2>1, RunInHand
  <2>3. CASE run[r].of[2] = Unset
    <3>1. Answer(r, "confirmed")
      BY <1>4, <2>3 DEF CommitAnswer
    <3>. QED
      BY <2>1, <2>3, <3>1, AnswerKeeps DEF Answers
  <2>4. CASE run[r].of[2] \in Tokens /\ run[r].of[2] # Unset
    <3>1. Answer(r, "cancelled")
      BY <1>4, <2>4 DEF CommitAnswer
    <3>2. event[run[r].of[1]] = "cancelled"
      BY <2>1, <2>4 DEF ToolsInv, StagesAreReal
    <3>. QED
      BY <2>1, <2>4, <3>1, <3>2, AnswerKeeps DEF Answers
  <2>. QED BY <2>2, <2>3, <2>4
<1>. QED
  BY <1>1, <1>2, <1>3, <1>4, AnsweredAtOnceKeeps, AskToolKeeps, AskWithoutYesKeeps, ConsumeKeeps,
     BookKeeps, DeleteKeeps, AnswerLostKeeps, ExpiryKeeps DEF ToolsNext

LEMMA HeardIsTrue == ToolsInv => CallersHearTheTruth
BY DEF ToolsInv, HeardIsReal, CallersHearTheTruth, Spent

-----------------------------------------------------------------------------
(***************************************************************************)
(* All parts together.  They share no variable, so a step of the instance  *)
(* is a step of one part, and none of the others.                          *)
(***************************************************************************)
ClientInv ==
    /\ WorkInv /\ AccountInv /\ ProfileInv /\ TokenInv /\ VoiceInv
    /\ OAuthInv /\ VersionsInv /\ ToolsInv

LEMMA ClientInitial == ClientInit => ClientInv
BY WorkInitial, AccountInitial, ProfileInitial, TokenInitial, VoiceInitial, OAuthInitial,
   VersionsInitial, ToolsInitial DEF ClientInit, ClientInv

LEMMA ClientStepsAreOfParts ==
    ASSUME [ClientNext]_clientVars
    PROVE  /\ [WorkNext]_workVars /\ [AccountNext]_accountVars /\ [ProfileNext]_profileVars
           /\ [TokenNext]_tokenVars /\ [VoiceNext]_voiceVars /\ [OAuthNext]_oauthVars
           /\ [VersionsNext]_profileVersionVars /\ [ToolsNext]_toolVars
BY DEF ClientNext, AppNext, KeptNext, clientVars, appVars, keptVars

LEMMA ClientInvariant == ClientSpec => []ClientInv
<1>1. ClientInv /\ [ClientNext]_clientVars => ClientInv'
  BY ClientStepsAreOfParts, WorkInductive, AccountInductive, ProfileInductive, TokenInductive,
     VoiceInductive, OAuthInductive, VersionsInductive, ToolsInductive DEF ClientInv
<1>. QED
  BY ClientInitial, <1>1, PTL DEF ClientSpec

(***************************************************************************)
(* Every state of the apps and of what the backend keeps for them is well  *)
(* typed: also, a try holds the advisory lock exactly while it is in its   *)
(* transaction, and a session's agents are of tries that were sent.        *)
(***************************************************************************)
THEOREM ClientTypes == ClientSpec => []ClientsTypeOK
<1>1. ClientInv => ClientsTypeOK
  BY WorkTypes DEF ClientInv, AccountInv, ProfileInv, TokenInv, VoiceInv, OAuthInv, VersionsInv,
                   ToolsInv, ClientsTypeOK
<1>. QED
  BY <1>1, ClientInvariant, PTL

(***************************************************************************)
(* get_or_create_session leaves, besides the recorded agent, only agents   *)
(* of tries that failed, for any number of retries and versions.           *)
(***************************************************************************)
THEOREM OneAgentOnRecord == ClientSpec => []OnlyFailuresLeaveAgents
<1>1. ClientInv => OnlyFailuresLeaveAgents
  BY DEF ClientInv, TokenInv
<1>. QED
  BY <1>1, ClientInvariant, PTL

(***************************************************************************)
(* Every token names the session on record and its profile, whatever the   *)
(* owner publishes between the tries (livekit_dispatch.py).                *)
(***************************************************************************)
THEOREM TokensAreTrue == ClientSpec => []TokenNamesTheSession
<1>1. ClientInv => TokenNamesTheSession
  BY DEF ClientInv, TokenInv
<1>. QED
  BY <1>1, ClientInvariant, PTL

(***************************************************************************)
(* The caller is told of no booking and no cancellation that is not in the *)
(* calendar, for any number of meetings, confirmations and runs of the     *)
(* tools, but for an answer replayed after a cancellation (booking_api.py).*)
(***************************************************************************)
THEOREM CallersAreToldTheTruth == ClientSpec => []CallersHearTheTruth
<1>1. ClientInv => CallersHearTheTruth
  BY HeardIsTrue DEF ClientInv
<1>. QED
  BY <1>1, ClientInvariant, PTL

(***************************************************************************)
(* Between the owner's changes the stored credential and the one in memory *)
(* are of the account whose connection was answered with success last, and *)
(* the published version is the one the owner was told of last, or the one *)
(* published since under an error because the acknowledgement of its       *)
(* commit was lost, but for what crossed a change of the owner or was      *)
(* written by one that was answered with a failure, for any number of      *)
(* requests, changes and transactions (google_oauth.py,                    *)
(* agent_profiles.py).                                                     *)
(***************************************************************************)
THEOREM TheOwnerDecides == ClientSpec => []OwnersChoiceIsInForce
<1>1. ClientInv => OwnersChoiceIsInForce
  BY OAuthGives DEF ClientInv, VersionsInv, OwnersChoiceIsInForce
<1>. QED
  BY <1>1, ClientInvariant, PTL

(***************************************************************************)
(* The phone's gate, its call screen and its microphone agree with what    *)
(* there is, but for the races PhoneIsTrue names, for any number of checks *)
(* of the session, of openings of the screen, attempts, catches of failed  *)
(* starts and presses (AuthContext.tsx, useVoiceBot.ts).                   *)
(***************************************************************************)
THEOREM ThePhoneIsTrue == ClientSpec => []PhoneIsTrue
<1>1. ClientInv => PhoneIsTrue
  BY GateHolds, PhoneHolds DEF ClientInv, PhoneIsTrue
<1>. QED
  BY <1>1, ClientInvariant, PTL

(***************************************************************************)
(* No form erases a stored field its user did not edit, but one saved      *)
(* before it held what was stored, for any number of stored versions       *)
(* (App.tsx, SettingsScreen.tsx).                                          *)
(***************************************************************************)
THEOREM NoFieldIsLost == ClientSpec => StoredTextSurvives
<1>1. ClientInv /\ [ClientNext]_clientVars =>
         [\/ stored.profile.rest # "" /\ stored'.profile.rest = ""
          \/ stored.draft.rest # "" /\ stored'.draft.rest = ""
          => blind]_workVars
  BY ClientStepsAreOfParts, OnlyBlindStepErases DEF ClientInv
<1>2. ClientInv /\ [ClientNext]_clientVars =>
         [profile.text.rest /\ ~profile'.text.rest
            => write.by = "onboarding" \/ ~write.seen]_profileVars
  BY ClientStepsAreOfParts, RestSurvivesStep DEF ClientInv
<1>3. ClientSpec => OnlyABlindSaveErases
  BY <1>1, ClientInvariant, PTL DEF ClientSpec, OnlyABlindSaveErases
<1>4. ClientSpec => RestSurvivesSettings
  BY <1>2, ClientInvariant, PTL DEF ClientSpec, RestSurvivesSettings
<1>. QED
  BY <1>3, <1>4, PTL DEF StoredTextSurvives
================================================================================
