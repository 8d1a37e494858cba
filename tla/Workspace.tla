------------------------------- MODULE Workspace -------------------------------
(***************************************************************************)
(* The signed-in web app: App's boot and pages, the cached company profile *)
(* (workspaceCache), the company and assistant forms of the onboarding and *)
(* of the settings pages, one save at a time.  Requests                    *)
(* answer late: the page that sent them may have been left, and the same   *)
(* form opened again.                                                      *)
(* A text has the field the user edits here and the rest of the form.      *)
(* Which version the voice page tests is not followed here.                *)
(* Signing out reloads the app, and is its boot; wording and the read-only *)
(* pages are left out.                                                     *)
(***************************************************************************)
EXTENDS Naturals

CONSTANTS MaxVersions, \* assistant profile versions saved (a bound of the model)
          NoText
ASSUME WorkspaceAssumption == MaxVersions \in Nat \ {0}

VARIABLES page, boot,  \* App's page and its boot
          stored,    \* backend: company profile, assistant draft, versions, published
          cache,     \* workspaceCache: the profile and whether it is young
          ask,       \* the shared request for the company profile
          form,      \* the form of the page that is open
          save,      \* the save in progress, whose page may have been left
          blind      \* a form was saved without what was stored (history)

workVars == <<page, boot, stored, cache, ask, form, save, blind>>

Text == [name : {"", "old", "new"}, rest : {"", "old"}]
Blank == [name |-> "", rest |-> ""]
Older == [name |-> "old", rest |-> "old"]
CompanyPages == {"onboarding", "company-setup"}
AssistantPages == {"onboarding-ai", "assistant-config"}
Shown == CompanyPages \cup AssistantPages \cup {"dashboard", "testing-sandbox"}

NoSave == [at |-> "none", text |-> Blank, from |-> "dashboard",
           deploy |-> FALSE, test |-> FALSE]
NoForm == [text |-> Blank, load |-> "none", seen |-> FALSE]

WorkTypeOK ==
    /\ page \in Shown \cup {"landing"} /\ boot \in {"session", "profile", "done"}
    /\ stored.profile \in Text /\ stored.draft \in Text
    /\ stored.versions \in 0..MaxVersions /\ stored.published \in 0..stored.versions
    /\ cache.text \in Text \cup {NoText} /\ cache.young \in BOOLEAN
    /\ ask.at \in {"none", "asked", "read"} /\ ask.text \in Text
    /\ form.text \in Text /\ form.load \in {"none", "waits", "asked"}
    /\ save.at \in {"none", "validating", "asked", "stored"}
    /\ save.text \in Text /\ save.from \in Shown /\ blind \in BOOLEAN

WorkInit ==
    /\ page = "landing" /\ boot = "session"
    /\ \E known \in {Blank, Older} :
          stored = [profile |-> known, draft |-> known, versions |-> 0, published |-> 0]
    /\ cache = [text |-> NoText, young |-> FALSE]
    /\ ask = [at |-> "none", text |-> Blank]
    /\ form = NoForm /\ save = NoSave /\ blind = FALSE

-----------------------------------------------------------------------------
\* getCompanyProfile: a young cache answers at once, a pending request is shared
Asking == IF ask.at = "none" THEN [at |-> "asked", text |-> Blank] ELSE ask
Cached == cache.text # NoText /\ cache.young

\* the form a page opens with, and the requests its effect makes
Opened(p) ==
    IF p \in CompanyPages
    THEN IF Cached THEN [NoForm EXCEPT !.text = cache.text, !.seen = TRUE]
                   ELSE [NoForm EXCEPT !.load = "waits"]
    ELSE IF p \in AssistantPages THEN [NoForm EXCEPT !.load = "asked"] ELSE NoForm

Show(p) ==
    /\ page' = p /\ form' = Opened(p)
    /\ ask' = IF p \in CompanyPages /\ ~Cached THEN Asking ELSE ask

SessionAnswered ==
    /\ boot = "session"
    /\ \/ boot' = "done" /\ UNCHANGED <<page, ask>>        \* none, or it failed
       \/ boot' = "profile" /\ page' = "onboarding" /\ ask' = Asking
    /\ UNCHANGED <<stored, cache, form, save, blind>>

ReadProfile ==
    /\ ask.at = "asked"
    /\ ask' = [at |-> "read", text |-> stored.profile]
    /\ UNCHANGED <<page, boot, stored, cache, form, save, blind>>

\* who waited gets the answer, null when it failed; a bad status empties the cache
ProfileAnswered ==
    \E got \in {ask.text, Blank}, emptied \in BOOLEAN :
    /\ ask.at \in {"asked", "read"} /\ (ask.at = "asked" => got = Blank)
    /\ LET ok == got # Blank IN
       /\ cache' = IF ok THEN [text |-> got, young |-> TRUE]
                   ELSE IF emptied THEN [text |-> NoText, young |-> FALSE] ELSE cache
       /\ IF boot = "profile"
          THEN \* the page is mounted now, over the cache this answer leaves
               /\ boot' = "done" /\ page' = IF ok /\ got.name # "" THEN "dashboard" ELSE page
               /\ form' = IF page' = "dashboard" THEN NoForm ELSE [NoForm EXCEPT !.load = "waits"]
               /\ ask' = [at |-> IF page' = "dashboard" THEN "none" ELSE "asked", text |-> Blank]
          ELSE /\ form' = IF form.load # "waits" THEN form
                          ELSE IF ok THEN [form EXCEPT !.text = got, !.load = "none", !.seen = TRUE]
                          ELSE [form EXCEPT !.load = "none",
                                            !.seen = ask = [at |-> "read", text |-> Blank]]
               /\ ask' = [at |-> "none", text |-> Blank] /\ UNCHANGED <<boot, page>>
    /\ UNCHANGED <<stored, save, blind>>

CacheAges ==
    /\ cache.young /\ cache' = [cache EXCEPT !.young = FALSE]
    /\ UNCHANGED <<page, boot, stored, ask, form, save, blind>>

\* the assistant forms ask for themselves; the answer overwrites what was typed
DraftAnswered ==
    /\ form.load = "asked"
    /\ form' \in {[form EXCEPT !.load = "none"],
                  [form EXCEPT !.load = "none", !.seen = TRUE,
                       !.text = IF stored.draft # Blank THEN stored.draft ELSE @]}
    /\ UNCHANGED <<page, boot, stored, cache, ask, save, blind>>

\* the menu of AppShell and the pages' own buttons; the onboarding only goes back
Links == [q \in Shown |->
    IF q = "onboarding" THEN {}
    ELSE IF q = "onboarding-ai" THEN {"onboarding"}
    ELSE {"dashboard", "company-setup", "assistant-config"}
             \cup IF q = "assistant-config" THEN {"testing-sandbox"} ELSE {}]

Navigate(p) ==
    /\ boot = "done" /\ page \in Shown
    /\ p \in Links[page] \ {page} /\ Show(p)
    /\ UNCHANGED <<boot, stored, cache, save, blind>>

Edit ==
    /\ boot = "done" /\ page \in CompanyPages \cup AssistantPages
    /\ form' = [form EXCEPT !.text.name = "new"]
    /\ UNCHANGED <<page, boot, stored, cache, ask, save, blind>>

-----------------------------------------------------------------------------
\* a publication is validated first
Save(deploy, test) ==
    /\ boot = "done" /\ save.at = "none"
    /\ page \in CompanyPages \cup AssistantPages
    /\ page \in {"onboarding", "onboarding-ai"} => form.text.name # ""
    /\ deploy => page \in AssistantPages
    /\ test => page = "assistant-config" /\ ~deploy
    /\ save' = [NoSave EXCEPT !.at = IF deploy THEN "validating" ELSE "asked",
                    !.text = form.text, !.from = page, !.deploy = deploy, !.test = test]
    /\ blind' = (blind \/ ~form.seen)
    /\ UNCHANGED <<page, boot, stored, cache, ask, form>>

Validated(answer) ==
    /\ save.at = "validating"
    /\ save' = IF answer THEN [save EXCEPT !.at = "asked"] ELSE NoSave
    /\ UNCHANGED <<page, boot, stored, cache, ask, form, blind>>

StoreCompany ==
    /\ save.at = "asked" /\ save.from \in CompanyPages
    /\ stored' = [stored EXCEPT !.profile = save.text]
    /\ save' = [save EXCEPT !.at = "stored"]
    /\ UNCHANGED <<page, boot, cache, ask, form, blind>>

StoreAssistant ==
    /\ save.at = "asked" /\ save.from \in AssistantPages
    /\ stored.versions < MaxVersions
    /\ stored' = [stored EXCEPT !.draft = save.text, !.versions = @ + 1,
                      !.published = IF save.deploy THEN stored.versions + 1 ELSE @]
    /\ save' = [save EXCEPT !.at = "stored"]
    /\ UNCHANGED <<page, boot, cache, ask, form, blind>>

\* refused, or the answer is lost
SaveFails ==
    /\ save.at \in {"asked", "stored"}
    /\ save' = NoSave
    /\ UNCHANGED <<page, boot, stored, cache, ask, form, blind>>

\* the answer of a save: the cache takes the text, and where the page says so App moves on
CompanySaved ==
    /\ save.at = "stored" /\ save.from \in CompanyPages
    /\ cache' = [text |-> save.text, young |-> TRUE] /\ save' = NoSave
    /\ IF save.from = "onboarding" THEN Show("onboarding-ai") ELSE UNCHANGED <<page, form, ask>>
    /\ UNCHANGED <<boot, stored, blind>>

AssistantSaved ==
    /\ save.at = "stored" /\ save.from \in AssistantPages /\ save' = NoSave
    /\ \/ save.test /\ Show("testing-sandbox")
       \/ /\ save.from = "onboarding-ai"
          /\ Show(IF save.deploy THEN "dashboard" ELSE "assistant-config")
       \/ ~save.test /\ save.from # "onboarding-ai" /\ UNCHANGED <<page, form, ask>>
    /\ UNCHANGED <<boot, stored, cache, blind>>

WorkNext == \/ SessionAnswered \/ ReadProfile \/ ProfileAnswered \/ CacheAges
            \/ DraftAnswered \/ Edit
            \/ \E p \in Shown : Navigate(p)
            \/ \E deploy, test \in BOOLEAN : Save(deploy, test)
            \/ \E answer \in BOOLEAN : Validated(answer)
            \/ StoreCompany \/ StoreAssistant \/ SaveFails \/ CompanySaved \/ AssistantSaved

-----------------------------------------------------------------------------
(***************************************************************************)
(* Saving, leaving, coming back and late answers never erase what was      *)
(* stored in fields the user did not edit, as long as no form was saved    *)
(* before its load answered or after the load failed, which they allow.    *)
(***************************************************************************)
OnlyABlindSaveErases ==
    [][\/ stored.profile.rest # "" /\ stored'.profile.rest = ""
       \/ stored.draft.rest # "" /\ stored'.draft.rest = ""
       => blind]_workVars
================================================================================
