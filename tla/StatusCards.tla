------------------------------- MODULE StatusCards -------------------------------
(***************************************************************************)
(* What the web app shows of work done elsewhere: the booking notices,     *)
(* which poll with a growing delay while a booking is open, and the Google *)
(* and 3CX cards of the integrations page, which read the connection after *)
(* every change.  Each read is a request of its own, read at the backend   *)
(* in one step and answered in a later one, in any order.                  *)
(* The 3CX form's fields are left out but for the secret.                  *)
(***************************************************************************)
EXTENDS Naturals, FiniteSets

CONSTANTS Reads,      \* status requests that may be in flight together
          MaxRequests, \* booking requests created while the app is open
          MaxChanges  \* changes of the connection
ASSUME CardsAssumption == MaxRequests \in Nat /\ MaxChanges \in Nat

VARIABLES booking,  \* at the backend: requests created, and whether one is open
          centre,   \* BookingUpdateCenter: what is shown, its reads and timers
          linked,   \* at the backend: the integration is connected, and its changes
          card,     \* the card: what is shown, its reads, the popup, the secret
          late      \* an answer was applied that is no longer true (history)

cardVars == <<booking, centre, linked, card, late>>

Answer == {"open", "settled", "none"}
Read == {"idle", "asked"} \cup Answer

CardsTypeOK ==
    /\ booking \in [made : 0..MaxRequests, open : BOOLEAN]
    /\ centre \in [state : {"hidden", "polling", "gone"}, shown : Answer, failed : BOOLEAN,
                   reads : [Reads -> Read], timers : SUBSET Reads]
    /\ linked \in [up : BOOLEAN, changes : 0..MaxChanges]
    /\ card \in [kind : {"google", "3cx"}, state : {"absent", "shown"}, up : BOOLEAN, failed : BOOLEAN,
                 reads : [Reads -> {"idle", "asked", "up", "down"}],
                 popup : {"none", "open", "closed"},
                 doing : {"nothing", "saving", "saved", "leaving", "left"}, secret : BOOLEAN]
    /\ late \in BOOLEAN

CardsInit ==
    /\ booking = [made |-> 0, open |-> FALSE]
    /\ centre = [state |-> "hidden", shown |-> "none", failed |-> FALSE,
                 reads |-> [r \in Reads |-> "idle"], timers |-> {}]
    /\ \E up \in BOOLEAN : linked = [up |-> up, changes |-> 0]
    /\ \E kind \in {"google", "3cx"} :
          card = [kind |-> kind, state |-> "absent", up |-> FALSE, failed |-> FALSE,
                  reads |-> [r \in Reads |-> "idle"], popup |-> "none",
                  doing |-> "nothing", secret |-> FALSE]
    /\ late = FALSE

Bookings == IF booking.made = 0 THEN "none" ELSE IF booking.open THEN "open" ELSE "settled"

-----------------------------------------------------------------------------
\* the effect of BookingUpdateCenter: the first refresh
Enable(r) ==
    /\ centre.state = "hidden"
    /\ centre' = [centre EXCEPT !.state = "polling", !.reads[r] = "asked"]
    /\ UNCHANGED <<booking, linked, card, late>>

\* a booking is made by a page that raises "booking-request-created": another refresh
BookingCreated(r) ==
    /\ booking.made < MaxRequests /\ centre.reads[r] = "idle" /\ r \notin centre.timers
    /\ booking' = [made |-> booking.made + 1, open |-> TRUE]
    /\ centre' = IF centre.state = "polling" THEN [centre EXCEPT !.reads[r] = "asked"] ELSE centre
    /\ UNCHANGED <<linked, card, late>>

BookingSettles ==
    /\ booking.open /\ booking' = [booking EXCEPT !.open = FALSE]
    /\ UNCHANGED <<centre, linked, card, late>>

NoticesRead(r) ==
    /\ centre.reads[r] = "asked"
    /\ centre' = [centre EXCEPT !.reads[r] = Bookings]
    /\ UNCHANGED <<booking, linked, card, late>>

\* mutant: an answer that shows nothing new is the last one asked for
PollsAfterNews(got) == got = "open" /\ centre.shown # "open"

PollsAfter(got) == got = "open"

\* the answer is shown unless the component is gone; an open booking sets the timer
NoticesAnswered(r) ==
    /\ centre.reads[r] \in Answer
    /\ LET got == centre.reads[r]
           here == centre.state = "polling" IN
       centre' = [centre EXCEPT !.reads[r] = "idle",
                     !.shown = IF here THEN got ELSE @,
                     !.timers = IF here /\ PollsAfter(got) THEN @ \cup {r} ELSE @]
    /\ UNCHANGED <<booking, linked, card, late>>

\* a refresh that fails keeps what is shown, and sets no timer
NoticesFail(r) ==
    /\ centre.reads[r] # "idle"
    /\ centre' = [centre EXCEPT !.reads[r] = "idle", !.failed = TRUE]
    /\ UNCHANGED <<booking, linked, card, late>>

PollAgain(r) ==
    /\ r \in centre.timers
    /\ centre' = [centre EXCEPT !.timers = @ \ {r}, !.reads[r] = "asked"]
    /\ UNCHANGED <<booking, linked, card, late>>

\* the clean-up clears the newest timer only: others refresh once more, for nobody
LeavePage ==
    /\ centre.state = "polling"
    /\ \E left \in SUBSET centre.timers :
          centre' = [centre EXCEPT !.state = "gone", !.timers = left]
    /\ UNCHANGED <<booking, linked, card, late>>

-----------------------------------------------------------------------------
Change(up) == linked' = [up |-> up, changes |-> linked.changes + 1]
CanChange == linked.changes < MaxChanges
Idle(r) == card.reads[r] = "idle"

\* the page's /api/integrations/status answered: the card has its initial status
CardShown ==
    /\ card.state = "absent"
    /\ card' = [card EXCEPT !.state = "shown", !.up = linked.up]
    /\ UNCHANGED <<booking, centre, linked, late>>

\* handleConnect opens the popup; the owner consents or closes it
Popup ==
    /\ card.kind = "google" /\ card.state = "shown"
    /\ card.popup = "none" /\ card.doing = "nothing"
    /\ card' = [card EXCEPT !.popup = "open"]
    /\ UNCHANGED <<booking, centre, linked, late>>

\* the callback page stores the tokens, posts GOOGLE_AUTH_SUCCESS and closes
Consent(r) ==
    /\ card.popup = "open" /\ CanChange /\ Idle(r)
    /\ Change(TRUE)
    /\ card' = [card EXCEPT !.popup = "closed", !.reads[r] = "asked"]
    /\ UNCHANGED <<booking, centre, late>>

PopupClosed ==
    /\ card.popup = "open" /\ card' = [card EXCEPT !.popup = "closed"]
    /\ UNCHANGED <<booking, centre, linked, late>>

\* the interval sees the popup closed: checkStatus
PopupNoticed(r) ==
    /\ card.popup = "closed" /\ Idle(r)
    /\ card' = [card EXCEPT !.popup = "none", !.reads[r] = "asked"]
    /\ UNCHANGED <<booking, centre, linked, late>>

CardRead(r) ==
    /\ card.reads[r] = "asked"
    /\ card' = [card EXCEPT !.reads[r] = IF linked.up THEN "up" ELSE "down"]
    /\ UNCHANGED <<booking, centre, linked, late>>

\* checkStatus or loadStatus: the answer is shown, and the secret field emptied
CardAnswered(r) ==
    /\ card.reads[r] \in {"up", "down"}
    /\ LET got == card.reads[r] = "up" IN
       /\ card' = [card EXCEPT !.reads[r] = "idle", !.up = got, !.secret = FALSE]
       /\ late' = (late \/ got # linked.up)
    /\ UNCHANGED <<booking, centre, linked>>

\* a status that fails: Google's card shows not connected, 3CX's keeps what it showed
CardReadFails(r) ==
    /\ ~Idle(r)
    /\ card' = [card EXCEPT !.reads[r] = "idle", !.up = @ /\ card.kind = "3cx",
                            !.failed = TRUE]
    /\ UNCHANGED <<booking, centre, linked, late>>

TypeSecret ==
    /\ card.kind = "3cx" /\ card.state = "shown" /\ ~card.secret
    /\ card' = [card EXCEPT !.secret = TRUE]
    /\ UNCHANGED <<booking, centre, linked, late>>

\* save and disconnect: the request, its effect at the backend, and its answer
AskChange(what) ==
    /\ card.state = "shown" /\ card.doing = "nothing" /\ card.popup = "none"
    /\ what = "saving" => card.kind = "3cx"
    /\ what = "leaving" => card.up
    /\ card' = [card EXCEPT !.doing = what]
    /\ UNCHANGED <<booking, centre, linked, late>>

Takes ==
    /\ card.doing \in {"saving", "leaving"} /\ CanChange
    /\ Change(card.doing = "saving")
    /\ card' = [card EXCEPT !.doing = IF @ = "saving" THEN "saved" ELSE "left"]
    /\ UNCHANGED <<booking, centre, late>>

\* mutant: the status is not read again after a change
AnsweredUnread(r) ==
    /\ card.doing \in IF card.kind = "3cx" THEN {"saved"} ELSE {"leaving", "left"}
    /\ Idle(r)
    /\ card' = [card EXCEPT !.doing = "nothing", !.secret = FALSE]
    /\ UNCHANGED <<booking, centre, linked, late>>

\* the answer: the status is read again, by Google's card also after a refusal
Answered(r) ==
    /\ card.doing \in IF card.kind = "3cx" THEN {"saved"} ELSE {"leaving", "left"}
    /\ Idle(r)
    /\ card' = [card EXCEPT !.doing = "nothing", !.reads[r] = "asked", !.secret = FALSE]
    /\ UNCHANGED <<booking, centre, linked, late>>

\* 3CX's card shows a disconnection by itself
Disconnected ==
    /\ card.kind = "3cx" /\ card.doing = "left"
    /\ card' = [card EXCEPT !.doing = "nothing", !.up = FALSE, !.secret = FALSE]
    /\ UNCHANGED <<booking, centre, linked, late>>

\* refused or lost: the status shown stays, but a save empties the secret all the same
ChangeFails ==
    /\ card.doing # "nothing"
    /\ card' = [card EXCEPT !.doing = "nothing", !.failed = TRUE,
                            !.secret = @ /\ card.doing \in {"leaving", "left"}]
    /\ UNCHANGED <<booking, centre, linked, late>>

NoticesNext ==
    \/ BookingSettles \/ LeavePage
    \/ \E r \in Reads : \/ Enable(r) \/ BookingCreated(r) \/ NoticesRead(r)
                       \/ NoticesAnswered(r) \/ NoticesFail(r) \/ PollAgain(r)

CardNext ==
    \/ CardShown \/ Popup \/ PopupClosed \/ TypeSecret \/ Takes \/ Disconnected \/ ChangeFails
    \/ \E what \in {"saving", "leaving"} : AskChange(what)
    \/ \E r \in Reads : \/ Consent(r) \/ PopupNoticed(r) \/ CardRead(r)
                       \/ CardAnswered(r) \/ CardReadFails(r) \/ Answered(r)

\* timers run out and requests are answered; bookings settle in their own time
CardsFairness ==
    \A r \in Reads : /\ WF_cardVars(NoticesRead(r) \/ NoticesAnswered(r))
                     /\ WF_cardVars(PollAgain(r))

-----------------------------------------------------------------------------
(***************************************************************************)
(* No notice stays at "waiting" for a booking that settled: whatever order *)
(* the refreshes' answers arrive in, an open one is asked about again,     *)
(* unless a refresh failed, after which nothing polls.  (An answer read    *)
(* before the booking may still arrive last and show no notice at all.)    *)
(***************************************************************************)
NoticeSettles ==
    booking.made = MaxRequests /\ ~booking.open /\ centre.shown = "open"
        ~> centre.shown # "open" \/ centre.failed \/ centre.state # "polling"

(***************************************************************************)
(* When nothing is in flight the card shows the connection as it is,       *)
(* unless a request failed or an answer was overtaken by a change.         *)
(***************************************************************************)
CardIsTrue ==
    /\ card.state = "shown" /\ card.doing = "nothing" /\ card.popup = "none"
    /\ \A r \in Reads : Idle(r)
    /\ ~card.failed /\ ~late
    => card.up = linked.up
==================================================================================
