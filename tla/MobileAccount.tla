----------------------------- MODULE MobileAccount -----------------------------
(***************************************************************************)
(* The session of the mobile app: AuthContext, the routes that follow it,  *)
(* signing in and out, and the end of the set-up.  refreshSession runs at  *)
(* the start, on every return to the foreground, after signing in and      *)
(* after the set-up, without an order between the runs.  Of what is stored *)
(* there are the three facts its test of a completed set-up looks at.      *)
(***************************************************************************)
EXTENDS Naturals

CONSTANT Checks      \* refreshSession runs at a time (a bound of the model)

VARIABLES session,   \* the server's session of this phone's cookie
          account,    \* backend: company, assistant and a published version
          check,     \* runs of refreshSession
          auth,      \* AuthContext's state
          route,     \* the route shown
          sign,      \* signing in or out
          setup,     \* handlePublish of Onboarding, whose screen may have been left
          left       \* the user signed out and has not signed in since; "may" when the
                     \* server still had the session then or a check had read it (history)

accountVars == <<session, account, check, auth, route, sign, setup, left>>

SignedOff == [user |-> FALSE, done |-> FALSE, loading |-> FALSE]
NoCheck == [at |-> "idle", valid |-> FALSE, done |-> FALSE, next |-> "none"]

AccountTypeOK ==
    /\ session \in BOOLEAN /\ left \in {"no", "yes", "may"}
    /\ account \in [company : BOOLEAN, assistant : BOOLEAN, published : BOOLEAN]
    /\ check \in [Checks -> [at : {"idle", "sent", "read", "loading", "found"},
                             valid : BOOLEAN, done : BOOLEAN,
                             next : {"none", "setup", "tabs"}]]
    /\ auth \in [user : BOOLEAN, done : BOOLEAN, loading : BOOLEAN]
    /\ route \in {"index", "splash", "sign-in", "setup", "tabs"}
    /\ sign \in {"no", "in-tabs", "in-setup", "out", "out-again"}
    /\ setup \in {"no", "company", "assistant", "done"}

AccountInit ==
    /\ session \in BOOLEAN
    /\ \E known \in BOOLEAN :
          account = [company |-> known, assistant |-> known, published |-> known]
    /\ check = [[c \in Checks |-> NoCheck] EXCEPT ![CHOOSE c \in Checks : TRUE].at = "sent"]
    /\ auth = [SignedOff EXCEPT !.loading = TRUE]
    /\ route = "index" /\ sign = "no" /\ setup = "no" /\ left = "no"

-----------------------------------------------------------------------------
\* where the effect of index and the redirects of setup and tabs lead
Routed(r, a) ==
    IF a.loading THEN r
    ELSE IF r = "index" THEN IF ~a.user THEN "splash" ELSE IF a.done THEN "tabs" ELSE "setup"
    ELSE IF r \in {"setup", "tabs"} /\ ~a.user THEN "splash" ELSE r

\* mutant: the company alone completes the set-up
ConfiguredByCompany == account.company

\* what is stored passes refreshSession's test of a completed set-up
Configured == account.company /\ account.assistant /\ account.published

Refresh(c, next) ==
    /\ check[c].at = "idle"
    /\ check' = [check EXCEPT ![c] = [NoCheck EXCEPT !.at = "sent", !.next = next]]

\* AppState 'change' to active
Foreground(c) ==
    /\ Refresh(c, "none")
    /\ UNCHANGED <<session, account, auth, route, sign, setup, left>>

SessionRead(c) ==
    /\ check[c].at = "sent"
    /\ check' = [check EXCEPT ![c].at = "read", ![c].valid = session]
    /\ UNCHANGED <<session, account, auth, route, sign, setup, left>>

\* the run ends with this state of AuthContext, and goes where its caller goes then
Settles(c, state) ==
    /\ auth' = state
    /\ route' = Routed(IF check[c].next = "none" THEN route ELSE check[c].next, state)
    /\ check' = [check EXCEPT ![c] = NoCheck]

\* checkSession answers; a failed or slow request is no session
CheckAnswered(c) ==
    /\ \/ check[c].at \in {"sent", "read"} /\ Settles(c, SignedOff)
       \/ /\ check[c].at = "read" /\ check[c].valid
          /\ auth' = [auth EXCEPT !.user = TRUE] /\ route' = Routed(route, auth')
          /\ check' = [check EXCEPT ![c].at = "loading", ![c].valid = FALSE]
    /\ UNCHANGED <<session, account, sign, setup, left>>

\* the three reads of refreshSession, each of which may fail
ProfileRead(c) ==
    /\ check[c].at = "loading"
    /\ \E done \in {Configured, FALSE} :
          check' = [check EXCEPT ![c].at = "found", ![c].done = done]
    /\ UNCHANGED <<session, account, auth, route, sign, setup, left>>

ProfileApplied(c) ==
    /\ check[c].at = "found"
    /\ Settles(c, [auth EXCEPT !.done = check[c].done, !.loading = FALSE])
    /\ UNCHANGED <<session, account, sign, setup, left>>

-----------------------------------------------------------------------------
GoTo(r) ==
    /\ <<route, r>> \in {<<"splash", "sign-in">>, <<"sign-in", "splash">>,
                         <<"tabs", "setup">>, <<"setup", "tabs">>}
    /\ route' = r
    /\ UNCHANGED <<session, account, check, auth, sign, setup, left>>

\* handleSubmit; handleSuccess keeps the gate of the render it was made in
SignIn ==
    /\ route = "sign-in" /\ sign = "no"
    /\ sign' = IF auth.done THEN "in-tabs" ELSE "in-setup"
    /\ session' = TRUE /\ left' = "no"
    /\ UNCHANGED <<account, check, auth, route, setup>>

\* the session is confirmed, or the attempt ends in an error
SignedIn(c) ==
    /\ sign \in {"in-tabs", "in-setup"} /\ sign' = "no"
    /\ \/ Refresh(c, IF sign = "in-tabs" THEN "tabs" ELSE "setup")
       \/ UNCHANGED check
    /\ UNCHANGED <<session, account, auth, route, setup, left>>

\* Settings signs out, and then AuthContext does again; either may not reach the server
SignOut ==
    /\ route = "tabs" /\ sign = "no"
    /\ sign' = "out" /\ session' \in {session, FALSE}
    /\ UNCHANGED <<account, check, auth, route, setup, left>>

SignOutAgain ==
    /\ sign = "out" /\ sign' = "out-again" /\ session' \in {session, FALSE}
    /\ UNCHANGED <<account, check, auth, route, setup, left>>

SignedOutNow ==
    /\ sign = "out-again" /\ sign' = "no"
    /\ auth' = [SignedOff EXCEPT !.loading = auth.loading]
    /\ route' = Routed("index", auth')
    /\ left' = IF session \/ \E c \in Checks : check[c].valid THEN "may" ELSE "yes"
    /\ UNCHANGED <<session, account, check, setup>>

SessionExpires ==
    /\ session /\ session' = FALSE
    /\ UNCHANGED <<account, check, auth, route, sign, setup, left>>

-----------------------------------------------------------------------------
\* handlePublish: the company is stored, then the assistant, published
PublishSetUp ==
    /\ route = "setup" /\ setup = "no" /\ setup' = "company"
    /\ UNCHANGED <<session, account, check, auth, route, sign, left>>

CompanyStored ==
    /\ setup = "company" /\ session
    /\ setup' = "assistant" /\ account' = [account EXCEPT !.company = TRUE]
    /\ UNCHANGED <<session, check, auth, route, sign, left>>

AssistantStored ==
    /\ setup = "assistant" /\ session
    /\ setup' = "done" /\ account' = [account EXCEPT !.assistant = TRUE, !.published = TRUE]
    /\ UNCHANGED <<session, check, auth, route, sign, left>>

\* onDone
SetUp(c) ==
    /\ setup = "done" /\ setup' = "no" /\ Refresh(c, "tabs")
    /\ UNCHANGED <<session, account, auth, route, sign, left>>

\* a save is refused or its answer lost: the screen stays
PublishFails ==
    /\ setup # "no" /\ setup' = "no"
    /\ UNCHANGED <<session, account, check, auth, route, sign, left>>

AccountNext ==
    \/ \E c \in Checks : Foreground(c) \/ SessionRead(c) \/ CheckAnswered(c)
                          \/ ProfileRead(c) \/ ProfileApplied(c) \/ SignedIn(c) \/ SetUp(c)
    \/ \E r \in {"splash", "sign-in", "setup", "tabs"} : GoTo(r)
    \/ SignIn \/ SignOut \/ SignOutAgain \/ SignedOutNow \/ SessionExpires
    \/ PublishSetUp \/ CompanyStored \/ AssistantStored \/ PublishFails

-----------------------------------------------------------------------------
(***************************************************************************)
(* The set-up is skipped only for who has it: hasCompletedSetup is never   *)
(* shown before a company, an assistant and a published version are        *)
(* stored, whichever of the checks in flight answers last and whichever    *)
(* half of a publication failed.                                           *)
(***************************************************************************)
CompletedSetupIsReal ==
    auth.done => account.company /\ account.assistant /\ account.published

(***************************************************************************)
(* A user who signed out does not come back by himself, however the checks *)
(* are answered: only when the server was never reached and still had the  *)
(* session, or through a check that had read the session by then.          *)
(***************************************************************************)
SignedOutStaysOut == left = "yes" => ~auth.user

(***************************************************************************)
(* The gate of the app is true: the set-up is skipped only for who has it, *)
(* and who signed out is out.                                              *)
(***************************************************************************)
GateIsTrue == CompletedSetupIsReal /\ SignedOutStaysOut
================================================================================
