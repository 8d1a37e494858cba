----------------------------- MODULE MobileProfile -----------------------------
(***************************************************************************)
(* The two mobile screens that write the assistant profile the web app     *)
(* writes too: Onboarding and Settings.  One is open at a time; a save     *)
(* goes on when its screen is left.  A text has the fields Onboarding      *)
(* edits (name) and the rest: FAQ, hours, notes, escalation rules; of both *)
(* there is whether they are filled in.  The answer of the validation that *)
(* saveAssistantConfig asks for is not looked at, and is left out.         *)
(***************************************************************************)
EXTENDS Naturals

CONSTANT MaxSaves  \* texts stored (a bound of the model)
ASSUME ProfileAssumption == MaxSaves \in Nat \ {0}

VARIABLES screen,  \* the screen that is open
          fields,  \* its texts; seen: they are the newest stored, or more (history)
          write,   \* the save in progress; seen: as of its form; held: the form that
                   \* was saved is open still, over no later answer (history)
          profile  \* backend: the company, the newest text and the published one

profileVars == <<screen, fields, write, profile>>

ProfileText == [name : BOOLEAN, rest : BOOLEAN]
EmptyText == [name |-> FALSE, rest |-> FALSE]
Full == [name |-> TRUE, rest |-> TRUE]
EmptyFields == [text |-> EmptyText, company |-> FALSE, load |-> {}, seen |-> FALSE]
NoWrite == [at |-> "none", by |-> "onboarding", text |-> EmptyText, deploy |-> FALSE,
           seen |-> FALSE, held |-> FALSE]

ProfileTypeOK ==
    /\ screen \in {"none", "onboarding", "settings"}
    /\ fields \in [text : ProfileText, company : BOOLEAN, load : SUBSET {"company", "assistant"},
                 seen : BOOLEAN]
    /\ write \in [at : {"none", "company", "company-stored", "assistant", "assistant-stored"},
                 by : {"onboarding", "settings"}, text : ProfileText, deploy : BOOLEAN,
                 seen : BOOLEAN, held : BOOLEAN]
    /\ profile \in [company : BOOLEAN, text : ProfileText, published : ProfileText, saves : 0..MaxSaves]

ProfileInit ==
    /\ screen = "none" /\ fields = EmptyFields /\ write = NoWrite
    /\ \E known \in {EmptyText, Full} :
          profile = [company |-> known.name, text |-> known, published |-> known, saves |-> 0]

-----------------------------------------------------------------------------
\* the effect of a screen that opens: Onboarding sends both requests at once,
\* Settings the second after the first
OpenScreen(s) ==
    /\ s # screen /\ screen' = s
    /\ fields' = [EmptyFields EXCEPT !.load = IF s = "none" THEN {} ELSE {"company", "assistant"}]
    /\ write' = [write EXCEPT !.held = FALSE]
    /\ UNCHANGED profile

\* the answers overwrite what was typed; a failed one is null and leaves it
CompanyLoaded ==
    /\ "company" \in fields.load
    /\ \E got \in {profile.company, FALSE} :
          fields' = [fields EXCEPT !.load = @ \ {"company"}, !.company = @ \/ got]
    /\ UNCHANGED <<screen, write, profile>>

\* mutant: Settings takes the five fields too
TakenByAll(got) == [got EXCEPT !.rest = FALSE]

Taken(got) == IF screen = "settings" THEN got ELSE [got EXCEPT !.rest = FALSE]

\* Onboarding takes five fields of the answer, Settings the whole
AssistantLoaded ==
    /\ "assistant" \in fields.load /\ (screen = "settings" => "company" \notin fields.load)
    /\ \E got \in {profile.text, EmptyText} :
          /\ fields' = [fields EXCEPT !.load = @ \ {"assistant"},
                          !.seen = @ \/ got = profile.text,
                          !.text = IF got.name THEN Taken(got) ELSE @]
          /\ write' = [write EXCEPT !.held = @ /\ ~got.name]
    /\ UNCHANGED <<screen, profile>>

\* the user fills in what is missing, the rest only in Settings
TypeIn ==
    /\ screen # "none"
    /\ \/ fields' = [fields EXCEPT !.text.name = TRUE] \/ fields' = [fields EXCEPT !.company = TRUE]
       \/ screen = "settings" /\ fields' = [fields EXCEPT !.text.rest = TRUE]
    /\ UNCHANGED <<screen, write, profile>>

-----------------------------------------------------------------------------
\* handlePublish of Onboarding: the company first, then the assistant, published;
\* the hours, the FAQ, the notes and the rules are written afresh
PublishFromOnboarding ==
    /\ screen = "onboarding" /\ write.at = "none" /\ fields.company /\ fields.text.name
    /\ write' = [at |-> "company", by |-> "onboarding", deploy |-> TRUE, seen |-> fields.seen,
                held |-> TRUE, text |-> [fields.text EXCEPT !.rest = FALSE]]
    /\ UNCHANGED <<screen, fields, profile>>

\* handleSaveCompany and handleSaveAssistant of Settings
SaveCompany ==
    /\ screen = "settings" /\ write.at = "none" /\ fields.company
    /\ write' = [NoWrite EXCEPT !.at = "company", !.by = "settings"]
    /\ UNCHANGED <<screen, fields, profile>>

SaveAssistant(deploy) ==
    /\ screen = "settings" /\ write.at = "none" /\ fields.text.name
    /\ write' = [at |-> "assistant", by |-> "settings", deploy |-> deploy, seen |-> fields.seen,
                held |-> TRUE, text |-> fields.text]
    /\ UNCHANGED <<screen, fields, profile>>

WriteCompany ==
    /\ write.at = "company"
    /\ profile' = [profile EXCEPT !.company = TRUE]
    /\ write' = [write EXCEPT !.at = "company-stored"]
    /\ UNCHANGED <<screen, fields>>

CompanyWritten ==
    /\ write.at = "company-stored"
    /\ write' = IF write.by = "settings" THEN NoWrite ELSE [write EXCEPT !.at = "assistant"]
    /\ UNCHANGED <<screen, fields, profile>>

Stored(text, deploy) ==
    /\ profile.saves < MaxSaves
    /\ profile' = [profile EXCEPT !.text = text, !.saves = @ + 1,
                       !.published = IF deploy THEN text ELSE @]

WriteAssistant ==
    /\ write.at = "assistant" /\ Stored(write.text, write.deploy)
    /\ write' = [write EXCEPT !.at = "assistant-stored"]
    /\ fields' = [fields EXCEPT !.seen = write.held]
    /\ UNCHANGED screen

\* onDone leaves the set-up; in Settings only a message is shown
AssistantWritten ==
    /\ write.at = "assistant-stored" /\ write' = NoWrite
    /\ IF write.by = "onboarding" THEN screen' = "none" /\ fields' = EmptyFields
       ELSE UNCHANGED <<screen, fields>>
    /\ UNCHANGED profile

\* refused, or the answer is lost: an alert, and the screen stays
WriteFails ==
    /\ write.at # "none" /\ write' = NoWrite
    /\ UNCHANGED <<screen, fields, profile>>

\* the web app saves its own form
WebSaves(deploy) ==
    /\ profile.company /\ Stored(Full, deploy)
    /\ fields' = [fields EXCEPT !.seen = FALSE] /\ write' = [write EXCEPT !.seen = FALSE]
    /\ UNCHANGED screen

ProfileNext ==
    \/ \E s \in {"none", "onboarding", "settings"} : OpenScreen(s)
    \/ CompanyLoaded \/ AssistantLoaded \/ TypeIn
    \/ PublishFromOnboarding \/ SaveCompany \/ WriteCompany \/ CompanyWritten
    \/ \E deploy \in BOOLEAN : SaveAssistant(deploy) \/ WebSaves(deploy)
    \/ WriteAssistant \/ AssistantWritten \/ WriteFails

-----------------------------------------------------------------------------
(***************************************************************************)
(* Settings and the web app do not erase each other's work: the rest of a  *)
(* stored text is lost only to Onboarding, or to a form of Settings that   *)
(* had not seen this text: its load had not answered or had failed, or     *)
(* another form was stored since.  Nothing compares versions: the text a   *)
(* form was filled from is not sent with it.                               *)
(***************************************************************************)
RestSurvivesSettings ==
    [][profile.text.rest /\ ~profile'.text.rest
         => write.by = "onboarding" \/ ~write.seen]_profileVars
================================================================================
