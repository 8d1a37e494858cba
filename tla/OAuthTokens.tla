------------------------------ MODULE OAuthTokens ------------------------------
(***************************************************************************)
(* The Google credential of a company in the broker: the row of            *)
(* oauth_tokens, the access token cached in memory, the requests that need *)
(* a token (get_valid_access_token, one refresh at a time under the        *)
(* company's lock) and the owner's connections and disconnections, which   *)
(* take no lock.  A credential is the account it was granted for; consent  *)
(* is always asked, so every connection brings its own refresh token.      *)
(* crossed marks what was read or written across a step of the owner, and  *)
(* what a change has written that was answered with a failure.             *)
(***************************************************************************)
EXTENDS Naturals

CONSTANTS Requests,    \* requests that need an access token
          Changes,     \* the owner's connections and disconnections, tabs included
          Free,        \* the refresh lock is free
          MaxAccounts  \* connections (a bound of the model)

ASSUME OAuthAssumption == Free \notin Requests /\ MaxAccounts \in Nat

VARIABLES linked,  \* account of the owner's last change that was answered with success,
                   \* from its commit on; 0 when disconnected (history)
          granted, \* connections so far
          row,     \* the stored credential
          cached,  \* the access token in memory
          lock,    \* the request that holds the refresh lock
          request, \* what each request is doing and the record it read
          change   \* what each change is doing

oauthVars == <<linked, granted, row, cached, lock, request, change>>

Account == 0..MaxAccounts
NoCredential == [account |-> 0, crossed |-> FALSE]
Deciding == \E c \in Changes : change[c].at # "idle"

OAuthTypeOK ==
    /\ linked \in Account /\ granted \in Account
    /\ row \in [account : Account, crossed : BOOLEAN, valid : BOOLEAN]
    /\ cached \in [account : Account, crossed : BOOLEAN]
    /\ lock \in Requests \cup {Free}
    /\ request \in [Requests -> [at : {"idle", "waiting", "locked", "read", "refreshed", "saved"},
                                 account : Account, crossed : BOOLEAN]]
    /\ change \in [Changes -> [at : {"idle", "exchanging", "saved", "emptied", "revoking"},
                               account : Account, crossed : BOOLEAN]]

OAuthInit ==
    /\ linked = 0 /\ granted = 0
    /\ row = [account |-> 0, crossed |-> FALSE, valid |-> FALSE] /\ cached = NoCredential
    /\ lock = Free
    /\ request = [r \in Requests |-> [at |-> "idle", account |-> 0, crossed |-> FALSE]]
    /\ change = [c \in Changes |-> [at |-> "idle", account |-> 0, crossed |-> FALSE]]

\* a step of the owner crosses the requests and the other changes in progress
Crossing(c, at) ==
    /\ request' = [r \in Requests |-> [request[r] EXCEPT !.crossed = request[r].at # "idle"]]
    /\ change' = [d \in Changes |->
                     IF d = c THEN [change[c] EXCEPT !.at = at]
                     ELSE [change[d] EXCEPT !.crossed = change[d].at # "idle"]]

Connecting(c, at, account) ==
    /\ change[c].at = "idle"
    /\ request' = [r \in Requests |-> [request[r] EXCEPT !.crossed = request[r].at # "idle"]]
    /\ change' = [d \in Changes |->
                     IF d = c THEN [at |-> at, account |-> account, crossed |-> Deciding]
                     ELSE [change[d] EXCEPT !.crossed = change[d].at # "idle"]]

-----------------------------------------------------------------------------
\* google_oauth_complete: the one-time state of the callback was consumed
Connect(c) ==
    /\ granted < MaxAccounts /\ granted' = granted + 1
    /\ Connecting(c, "exchanging", granted + 1)
    /\ UNCHANGED <<linked, row, cached, lock>>

ExchangeFails(c) ==
    /\ change[c].at = "exchanging" /\ Crossing(c, "idle")
    /\ UNCHANGED <<linked, granted, row, cached, lock>>

SaveConnection(c) ==
    /\ change[c].at = "exchanging" /\ Crossing(c, "saved")
    /\ row' = [account |-> change[c].account, crossed |-> change[c].crossed, valid |-> TRUE]
    /\ linked' = change[c].account
    /\ UNCHANGED <<granted, cached, lock>>

\* the commit took effect but its acknowledgement was lost: the cache is not
\* touched, and the owner is told that the connection failed
SaveConnectionFails(c) ==
    /\ change[c].at = "exchanging" /\ Crossing(c, "idle")
    /\ row' = [account |-> change[c].account, crossed |-> TRUE, valid |-> TRUE]
    /\ UNCHANGED <<linked, granted, cached, lock>>

CacheConnection(c) ==
    /\ change[c].at = "saved" /\ Crossing(c, "idle")
    /\ cached' = [account |-> change[c].account, crossed |-> change[c].crossed]
    /\ UNCHANGED <<linked, granted, row, lock>>

\* mutant: the cache is left to expire
EmptyCacheLater == UNCHANGED cached

\* revoke_and_disconnect: the cache first, the row last, no lock
EmptyCache == cached' = NoCredential

Disconnect(c) ==
    /\ Connecting(c, "emptied", 0) /\ EmptyCache
    /\ UNCHANGED <<linked, granted, row, lock>>

\* whatever Google answers to the revocation, the row is deleted
ReadToRevoke(c) ==
    /\ change[c].at = "emptied" /\ Crossing(c, "revoking")
    /\ UNCHANGED <<linked, granted, row, cached, lock>>

DeleteTokens(c) ==
    /\ change[c].at = "revoking" /\ Crossing(c, "idle")
    /\ row' = [account |-> 0, crossed |-> change[c].crossed, valid |-> FALSE] /\ linked' = 0
    /\ UNCHANGED <<granted, cached, lock>>

\* the database fails: the owner is told that the disconnection failed
DisconnectFails(c) ==
    /\ change[c].at \in {"emptied", "revoking"} /\ Crossing(c, "idle")
    /\ UNCHANGED <<linked, granted, row, cached, lock>>

\* the row is gone, and the owner is told the same
DeleteTokensFails(c) ==
    /\ change[c].at = "revoking" /\ Crossing(c, "idle")
    /\ row' = [account |-> 0, crossed |-> TRUE, valid |-> FALSE]
    /\ UNCHANGED <<linked, granted, cached, lock>>

-----------------------------------------------------------------------------
\* get_valid_access_token: a cached token is answered at once; if there is none, the lock
AskToken(r) ==
    /\ request[r].at = "idle" /\ cached.account = 0
    /\ request' = [request EXCEPT ![r] = [at |-> "waiting", account |-> 0, crossed |-> Deciding]]
    /\ UNCHANGED <<linked, granted, row, cached, lock, change>>

Locked(r) ==
    /\ lock = Free /\ request[r].at = "waiting"
    /\ lock' = r /\ request' = [request EXCEPT ![r].at = "locked"]
    /\ UNCHANGED <<linked, granted, row, cached, change>>

Release(r) == lock' = Free /\ request' = [request EXCEPT ![r].at = "idle"]

\* another request has refreshed meanwhile, or nothing is stored
Coalesced(r) ==
    /\ request[r].at = "locked" /\ (cached.account # 0 \/ row.account = 0) /\ Release(r)
    /\ UNCHANGED <<linked, granted, row, cached, change>>

\* a valid token is to be cached, an expired one to be refreshed
ReadTokens(r) ==
    /\ request[r].at = "locked" /\ cached.account = 0 /\ row.account # 0
    /\ request' = [request EXCEPT ![r] =
                     [at |-> IF row.valid THEN "saved" ELSE "read", account |-> row.account,
                      crossed |-> request[r].crossed \/ row.crossed]]
    /\ UNCHANGED <<linked, granted, row, cached, lock, change>>

RefreshAnswered(r) ==
    /\ request[r].at = "read" /\ request' = [request EXCEPT ![r].at = "refreshed"]
    /\ UNCHANGED <<linked, granted, row, cached, lock, change>>

\* Google refuses, or the save fails: no token is answered
RefreshFails(r) ==
    /\ request[r].at \in {"read", "refreshed"} /\ Release(r)
    /\ UNCHANGED <<linked, granted, row, cached, change>>

\* an upsert of the record that was read, whatever the row has become
SaveRefreshed(r) ==
    /\ request[r].at = "refreshed" /\ request' = [request EXCEPT ![r].at = "saved"]
    /\ row' = [account |-> request[r].account, crossed |-> request[r].crossed, valid |-> TRUE]
    /\ UNCHANGED <<linked, granted, cached, lock, change>>

\* the save took effect but raises: no token is answered or cached
SaveRefreshedFails(r) ==
    /\ request[r].at = "refreshed" /\ Release(r)
    /\ row' = [account |-> request[r].account, crossed |-> request[r].crossed, valid |-> TRUE]
    /\ UNCHANGED <<linked, granted, cached, change>>

CacheToken(r) ==
    /\ request[r].at = "saved" /\ Release(r)
    /\ cached' = [account |-> request[r].account, crossed |-> request[r].crossed]
    /\ UNCHANGED <<linked, granted, row, change>>

\* less than a minute is left of the access token
TokenExpires ==
    /\ row.valid /\ row' = [row EXCEPT !.valid = FALSE] /\ cached' = NoCredential
    /\ UNCHANGED <<linked, granted, lock, request, change>>

OAuthNext ==
    \/ \E c \in Changes :
          \/ Connect(c) \/ ExchangeFails(c) \/ SaveConnection(c) \/ SaveConnectionFails(c)
          \/ CacheConnection(c) \/ Disconnect(c) \/ ReadToRevoke(c) \/ DeleteTokens(c)
          \/ DisconnectFails(c) \/ DeleteTokensFails(c)
    \/ \E r \in Requests :
          \/ AskToken(r) \/ Locked(r) \/ Coalesced(r) \/ ReadTokens(r) \/ RefreshAnswered(r)
          \/ RefreshFails(r) \/ SaveRefreshed(r) \/ SaveRefreshedFails(r) \/ CacheToken(r)
    \/ TokenExpires

OAuthSpec == OAuthInit /\ [][OAuthNext]_oauthVars

-----------------------------------------------------------------------------
(***************************************************************************)
(* Once the owner has changed accounts, the broker works with the one that *)
(* was chosen: what it stores and what it holds in memory are of the       *)
(* account of the last connection answered with success, and nothing is    *)
(* held after a disconnection so answered, but where a request or another  *)
(* change crossed the owner's, or a change took effect and was answered    *)
(* with a failure since (google_oauth.py revoke_and_disconnect,            *)
(* get_valid_access_token, main.py google_oauth_complete).                 *)
(***************************************************************************)
TokenIsOfTheLinkedAccount ==
    ~Deciding =>
        /\ row.account # linked => row.crossed
        /\ cached.account \notin {0, linked} => cached.crossed
================================================================================
