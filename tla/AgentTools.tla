------------------------------ MODULE AgentTools -------------------------------
(***************************************************************************)
(* The calendar tools of a voice session, from the agent's question to the *)
(* backend's answer.  Every question carries the context signed at the     *)
(* dispatch, which the backend refuses when it is too old, and the key of  *)
(* its parameters, under which the backend keeps answers: a question asked *)
(* again is answered from the record.  To cancel takes a single-use        *)
(* confirmation issued by an earlier question.  The agent waits for one    *)
(* answer at a time and may lose it; the backend's run goes on.  How one   *)
(* booking is carried out is CalendarBooking's.                            *)
(***************************************************************************)
EXTENDS Naturals

CONSTANTS Meetings,  \* events the caller talks about
          Tokens,    \* confirmations that can be issued
          Runs,      \* runs the backend can have in hand
          Unset      \* no meeting, no confirmation, no run
ASSUME ToolsAssumption == Unset \notin Meetings \cup Tokens \cup Runs

VARIABLES contextFresh, \* the signed context is younger than the backend's limit
          asking,    \* the run whose answer the agent waits for
          run,       \* what a run does: its tool, meeting and confirmation, and its stage
          kept,      \* the idempotency records: what a key was answered
          token,     \* a confirmation: its meeting, and whether it still counts
          event,     \* the meeting in the calendar
          heard,     \* what the caller was told of it last
          replayed   \* a booking's record was repeated after a cancellation was asked (history)

toolVars == <<contextFresh, asking, run, kept, token, event, heard, replayed>>

Questions == (Meetings \X {Unset}) \cup (Meetings \X Tokens)
Answers == {"confirmed", "cancelled", "refused", "failed"}
Idle == [of |-> <<Unset, Unset>>, stage |-> "idle"]

ToolsTypeOK ==
    /\ contextFresh \in BOOLEAN /\ asking \in Runs \cup {Unset}
    /\ run \in [Runs -> [of : Questions, stage : {"locked", "confirmed", "done"}] \cup {Idle}]
    /\ kept \in [Questions -> {"free", "held"} \cup Answers]
    /\ token \in [Tokens -> [meeting : Meetings \cup {Unset}, good : BOOLEAN]]
    /\ event \in [Meetings -> {"none", "booked", "cancelled"}]
    /\ heard \in [Meetings -> {"nothing", "asked"} \cup Answers]
    /\ replayed \subseteq Meetings

ToolsInit ==
    /\ contextFresh = TRUE /\ asking = Unset
    /\ run = [r \in Runs |-> Idle] /\ kept = [q \in Questions |-> "free"]
    /\ token = [t \in Tokens |-> [meeting |-> Unset, good |-> FALSE]]
    /\ event = [m \in Meetings |-> "none"]
    /\ heard = [m \in Meetings |-> "nothing"] /\ replayed = {}

-----------------------------------------------------------------------------
\* mutant: one key per tool
StableWriteKeyOfTool(q) == <<CHOOSE m \in Meetings : TRUE, q[2]>>

\* one key for equal parameters, as long as the session lives; a cancellation's
\* parameters hold its confirmation
StableWriteKey(q) == q

\* a cancellation of m the backend has not finished
InHand(m) == \E r \in Runs : run[r] # Idle /\ run[r].of[1] = m /\ run[r].of[2] # Unset

Tell(m, answer) ==
    /\ heard' = [heard EXCEPT ![m] = answer]
    /\ replayed' = IF answer = "confirmed" /\ (event[m] = "cancelled" \/ InHand(m))
                   THEN replayed \cup {m} ELSE replayed

\* a question the backend answers at once: the context is too old, the key is held by
\* another run, or its record repeats the answer, whatever became of the confirmation
AnsweredAtOnce(q) ==
    LET key == StableWriteKey(q) IN
    /\ asking = Unset
    /\ \/ ~contextFresh /\ Tell(q[1], "failed")
       \/ contextFresh /\ kept[key] = "held" /\ Tell(q[1], "failed")
       \/ contextFresh /\ kept[key] \in Answers /\ Tell(q[1], kept[key])
    /\ UNCHANGED <<contextFresh, asking, run, kept, token, event>>

\* acquire_idempotency_lock finds the key free
AskTool(q, r) ==
    LET key == StableWriteKey(q) IN
    /\ asking = Unset /\ run[r] = Idle /\ contextFresh
    /\ kept[key] = "free" /\ kept' = [kept EXCEPT ![key] = "held"]
    /\ run' = [run EXCEPT ![r] = [of |-> q, stage |-> "locked"]] /\ asking' = r
    /\ UNCHANGED <<contextFresh, token, event, heard, replayed>>

\* cancel_event without a yes: a confirmation is issued and no key is taken
AskWithoutYes(m, t) ==
    /\ asking = Unset /\ contextFresh /\ token[t].meeting = Unset
    /\ token' = [token EXCEPT ![t] = [meeting |-> m, good |-> TRUE]]
    /\ heard' = [heard EXCEPT ![m] = "asked"]
    /\ UNCHANGED <<contextFresh, asking, run, kept, event, replayed>>

\* the end of a run: the record is committed, or released after a failure; the caller
\* hears of it if the agent still waits
Answer(r, answer) ==
    LET q == run[r].of IN
    /\ kept' = [kept EXCEPT ![StableWriteKey(q)] = IF answer = "failed" THEN "free" ELSE answer]
    /\ run' = [run EXCEPT ![r] = Idle]
    /\ IF asking = r THEN Tell(q[1], answer) /\ asking' = Unset
       ELSE UNCHANGED <<asking, heard, replayed>>
    /\ UNCHANGED contextFresh

\* the confirmation is spent before the tool is executed, and not given back
ConsumeConfirmation(r) ==
    LET q == run[r].of IN
    /\ run[r].stage = "locked" /\ q[2] # Unset
    /\ token[q[2]] = [meeting |-> q[1], good |-> TRUE]
    /\ token' = [token EXCEPT ![q[2]].good = FALSE]
    /\ run' = [run EXCEPT ![r].stage = "confirmed"]
    /\ UNCHANGED <<contextFresh, asking, kept, event, heard, replayed>>

ConfirmationRefused(r) ==
    LET q == run[r].of IN
    /\ run[r].stage = "locked" /\ q[2] # Unset
    /\ token[q[2]] # [meeting |-> q[1], good |-> TRUE]
    /\ Answer(r, "failed") /\ UNCHANGED <<token, event>>

Book(r) ==
    /\ run[r].stage = "locked" /\ run[r].of[2] = Unset
    /\ event' = [event EXCEPT ![run[r].of[1]] = "booked"]
    /\ run' = [run EXCEPT ![r].stage = "done"]
    /\ UNCHANGED <<contextFresh, asking, kept, token, heard, replayed>>

\* Google deletes an event once; the answer may not arrive
Delete(r) ==
    /\ run[r].stage = "confirmed" /\ event[run[r].of[1]] = "booked"
    /\ event' = [event EXCEPT ![run[r].of[1]] = "cancelled"]
    /\ run' = [run EXCEPT ![r].stage = "done"]
    /\ UNCHANGED <<contextFresh, asking, kept, token, heard, replayed>>

\* Google knows no such event, or the company is not connected: kept like any answer
DeleteRefused(r) ==
    /\ run[r].stage = "confirmed" /\ Answer(r, "refused") /\ UNCHANGED <<token, event>>

CommitAnswer(r) ==
    /\ run[r].stage = "done"
    /\ Answer(r, IF run[r].of[2] = Unset THEN "confirmed" ELSE "cancelled")
    /\ UNCHANGED <<token, event>>

\* an exception of the tool: a booking's ambiguous outcome is queued instead
ToolFails(r) ==
    /\ \/ run[r].stage \in {"locked", "confirmed"}
       \/ run[r].stage = "done" /\ run[r].of[2] # Unset
    /\ Answer(r, "failed") /\ UNCHANGED <<token, event>>

\* the agent's request times out or breaks
AnswerLost ==
    /\ asking # Unset /\ asking' = Unset
    /\ heard' = [heard EXCEPT ![run[asking].of[1]] = "failed"]
    /\ UNCHANGED <<contextFresh, run, kept, token, event, replayed>>

ConfirmationExpires(t) ==
    /\ token[t].good /\ token' = [token EXCEPT ![t].good = FALSE]
    /\ UNCHANGED <<contextFresh, asking, run, kept, event, heard, replayed>>

ContextExpires ==
    /\ contextFresh /\ contextFresh' = FALSE
    /\ UNCHANGED <<asking, run, kept, token, event, heard, replayed>>

ToolsNext ==
    \/ \E q \in Questions : AnsweredAtOnce(q) \/ \E r \in Runs : AskTool(q, r)
    \/ \E m \in Meetings, t \in Tokens : AskWithoutYes(m, t)
    \/ \E r \in Runs :
         \/ ConsumeConfirmation(r) \/ ConfirmationRefused(r) \/ Book(r)
         \/ Delete(r) \/ DeleteRefused(r) \/ CommitAnswer(r) \/ ToolFails(r)
    \/ AnswerLost \/ ContextExpires
    \/ \E t \in Tokens : ConfirmationExpires(t)

ToolsSpec == ToolsInit /\ [][ToolsNext]_toolVars

-----------------------------------------------------------------------------
(***************************************************************************)
(* What the caller is told of a meeting is true, whatever answers were     *)
(* lost and asked for again: one confirmed last is in the calendar, but    *)
(* while its cancellation is being answered and where the record of a      *)
(* booking is repeated after its cancellation was asked; one told to be    *)
(* cancelled is out of it, on a confirmation of its own that is spent      *)
(* (agent.py call_backend_tool, _stable_write_key; tools.py execute_tool;  *)
(* confirmation.py).                                                       *)
(***************************************************************************)
CallersHearTheTruth ==
    \A m \in Meetings :
        /\ heard[m] = "confirmed" =>
             \/ event[m] = "booked" \/ m \in replayed
             \/ asking # Unset /\ run[asking].of[1] = m
        /\ heard[m] = "cancelled" => event[m] = "cancelled"
        /\ event[m] = "cancelled" => \E t \in Tokens : token[t] = [meeting |-> m, good |-> FALSE]
================================================================================
