----------------------------- MODULE AgentProfiles -----------------------------
(***************************************************************************)
(* The versions of a company's assistant profile in PostgreSQL: saving a   *)
(* configuration adds a version, a draft or published at once, under the   *)
(* company's advisory lock; rolling back publishes a superseded version    *)
(* and locks that row alone.  Both first supersede what is published.      *)
(* Transactions are READ COMMITTED: a statement sees what was committed    *)
(* when it began, waits for the rows others have changed and looks at them *)
(* again.  A unique index allows one published version.  The publish       *)
(* endpoint wants a validated or tested version, which nothing stores: it  *)
(* refuses every version, and is not an action.                            *)
(***************************************************************************)
EXTENDS Naturals, FiniteSets

CONSTANTS Transactions, \* requests that save or roll back
          NoOne,        \* a lock nobody holds
          MaxDrafts     \* versions (a bound of the model)

ASSUME ProfilesAssumption == NoOne \notin Transactions /\ MaxDrafts \in Nat

VARIABLES version,  \* committed state of each version
          tx,       \* what each transaction is doing
          saveLock, \* holder of the company's advisory lock
          rowLock,  \* holder of each row
          chosen,   \* version of the last publication that was answered with success (history)
          unsaid    \* version published by a commit that was answered with an error,
                    \* 0 once another is chosen (history)

historyVars == <<chosen, unsaid>>
profileVersionVars == <<version, tx, saveLock, rowLock, historyVars>>

Numbers == 1..MaxDrafts
Outside == [at |-> "outside", target |-> 0, publish |-> FALSE, seen |-> 0]
Published == {v \in Numbers : version[v] = "published"}

VersionsTypeOK ==
    /\ version \in [Numbers -> {"none", "draft", "published", "superseded"}]
    /\ tx \in [Transactions -> [at : {"outside", "locked", "superseding", "superseded", "indexed",
                                      "committed"},
                                target : 0..MaxDrafts, publish : BOOLEAN,
                                seen : 0..MaxDrafts]]
    /\ saveLock \in Transactions \cup {NoOne}
    /\ rowLock \in [Numbers -> Transactions \cup {NoOne}]
    /\ chosen \in 0..MaxDrafts /\ unsaid \in 0..MaxDrafts

VersionsInit ==
    /\ version = [v \in Numbers |-> "none"] /\ tx = [t \in Transactions |-> Outside]
    /\ saveLock = NoOne /\ rowLock = [v \in Numbers |-> NoOne] /\ chosen = 0 /\ unsaid = 0

\* save_assistant_configuration: the advisory lock, then MAX(version) + 1
BeginSave(t, publish) ==
    /\ tx[t].at = "outside" /\ saveLock = NoOne /\ saveLock' = t
    /\ \E v \in Numbers :
          /\ version[v] = "none" /\ \A u \in 1..v - 1 : version[u] # "none"
          /\ tx' = [tx EXCEPT ![t] =
                      [at |-> "locked", publish |-> publish, seen |-> 0, target |-> v]]
    /\ UNCHANGED <<version, rowLock, historyVars>>

\* transition_agent_profile: SELECT ... FOR UPDATE; another state is refused with 409
BeginRollback(t, v) ==
    /\ tx[t].at = "outside" /\ rowLock[v] = NoOne /\ version[v] = "superseded"
    /\ rowLock' = [rowLock EXCEPT ![v] = t]
    /\ tx' = [tx EXCEPT ![t] = [at |-> "locked", publish |-> TRUE, seen |-> 0, target |-> v]]
    /\ UNCHANGED <<version, saveLock, historyVars>>

\* the UPDATE begins: the rows it is to change are those of its snapshot
BeginSupersede(t) ==
    /\ tx[t].at = "locked" /\ tx[t].publish
    /\ tx' = [tx EXCEPT ![t].at = "superseding",
                        ![t].seen = IF Published = {} THEN 0 ELSE CHOOSE v \in Published : TRUE]
    /\ UNCHANGED <<version, saveLock, rowLock, historyVars>>

\* the row is free: it is superseded if it still is the published one
Supersede(t) ==
    LET v == tx[t].seen IN
    /\ tx[t].at = "superseding"
    /\ v # 0 => rowLock[v] = NoOne
    /\ LET still == v # 0 /\ v \in Published IN
       /\ tx' = [tx EXCEPT ![t].at = "superseded", ![t].seen = IF still THEN v ELSE 0]
       /\ rowLock' = IF still THEN [rowLock EXCEPT ![v] = t] ELSE rowLock
    /\ UNCHANGED <<version, saveLock, historyVars>>

\* mutant: there is no unique index
IndexAllowsAny(t) == TRUE

\* uq_agent_profile_published, with the transaction's own change
IndexAllows(t) == Published \subseteq {tx[t].seen}

\* an entry of a transaction that has not ended is waited for
Publish(t) ==
    /\ tx[t].at = "superseded" /\ IndexAllows(t)
    /\ \A u \in Transactions : tx[u].at # "indexed"
    /\ tx' = [tx EXCEPT ![t].at = "indexed"]
    /\ UNCHANGED <<version, saveLock, rowLock, historyVars>>

LocksFreed(t) ==
    /\ saveLock' = IF saveLock = t THEN NoOne ELSE saveLock
    /\ rowLock' = [v \in Numbers |-> IF rowLock[v] = t THEN NoOne ELSE rowLock[v]]

TxEnded(t) == tx' = [tx EXCEPT ![t] = Outside] /\ LocksFreed(t)

\* unique violation: the request is answered 500
PublishRefused(t) ==
    /\ tx[t].at = "superseded" /\ ~IndexAllows(t) /\ TxEnded(t)
    /\ UNCHANGED <<version, historyVars>>

CommitPublication(t) ==
    /\ tx[t].at = "indexed" /\ tx' = [tx EXCEPT ![t].at = "committed"] /\ LocksFreed(t)
    /\ version' = [v \in Numbers |-> IF v = tx[t].target THEN "published"
                                     ELSE IF v = tx[t].seen THEN "superseded" ELSE version[v]]
    /\ UNCHANGED historyVars

\* the owner hears of it, perhaps after a later publication took its place
AnswerPublication(t) ==
    /\ tx[t].at = "committed" /\ tx' = [tx EXCEPT ![t] = Outside]
    /\ IF tx[t].target \in Published THEN chosen' = tx[t].target /\ unsaid' = 0
       ELSE UNCHANGED historyVars
    /\ UNCHANGED <<version, saveLock, rowLock>>

\* the acknowledgement of the commit is lost: the request is answered 500
AcknowledgementLost(t) ==
    /\ tx[t].at = "committed" /\ tx' = [tx EXCEPT ![t] = Outside]
    /\ unsaid' = IF tx[t].target \in Published THEN tx[t].target ELSE unsaid
    /\ UNCHANGED <<version, saveLock, rowLock, chosen>>

\* a draft is stored, whether its request hears of it or is answered 500
CommitDraft(t) ==
    /\ tx[t].at = "locked" /\ ~tx[t].publish /\ TxEnded(t)
    /\ version' = [version EXCEPT ![tx[t].target] = "draft"] /\ UNCHANGED historyVars

\* the connection is lost before the commit, or the server gives up: nothing happened
RollbackTransaction(t) ==
    /\ tx[t].at \notin {"outside", "committed"} /\ TxEnded(t)
    /\ UNCHANGED <<version, historyVars>>

VersionsNext ==
    \E t \in Transactions :
        \/ \E publish \in BOOLEAN : BeginSave(t, publish)
        \/ \E v \in Numbers : BeginRollback(t, v)
        \/ BeginSupersede(t) \/ Supersede(t) \/ Publish(t) \/ PublishRefused(t)
        \/ CommitPublication(t) \/ AnswerPublication(t) \/ AcknowledgementLost(t)
        \/ CommitDraft(t) \/ RollbackTransaction(t)

VersionsSpec == VersionsInit /\ [][VersionsNext]_profileVersionVars

-----------------------------------------------------------------------------
\* the published version as the owner knows it, and where an error said nothing
Told == IF unsaid # 0 THEN {unsaid} ELSE IF chosen = 0 THEN {} ELSE {chosen}

(***************************************************************************)
(* The assistant that answers is the one the owner was told of last: once  *)
(* a publication was answered with success, that version and no other is   *)
(* published until another one is committed, whatever savings and          *)
(* rollbacks were under way, failed or lost the race.  Where a publication *)
(* was committed but its acknowledgement lost, the one it was answered     *)
(* with an error for is, and no other (agent_profiles.py                   *)
(* save_agent_profile_version_on_connection, transition_agent_profile).    *)
(***************************************************************************)
PublishedIsTheChosenOne ==
    \/ Published = Told
    \/ \E t \in Transactions : tx[t].at = "committed" /\ Published = {tx[t].target}
================================================================================
