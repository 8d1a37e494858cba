SPECIFICATION ClientSpec
CONSTANTS
  Parts = {"seen", "account", "profile", "token", "voice", "retry",
           "oauth", "publication", "tools"}
  MaxVersions = 2
  NoText = NoText
  Checks = {c1, c2}
  MaxSaves = 3
  Tries = {a1, a2}
  Versions = {v1, v2}
  Nothing = Nothing
  Mounts = {m1, m2}
  MaxToggles = 2
  MaxCaught = 2
  Requests = {u1, u2}
  Changes = {o1, o2}
  Free = Free
  MaxAccounts = 2
  Transactions = {x1, x2, x3}
  NoOne = NoOne
  MaxDrafts = 3
  Meetings = {g1, g2}
  Tokens = {t1, t2}
  Runs = {r1, r2}
  Unset = Unset
INVARIANT ClientsTypeOK
INVARIANT OnlyFailuresLeaveAgents
INVARIANT TokenNamesTheSession
INVARIANT PhoneIsTrue
INVARIANT CallersHearTheTruth
PROPERTY StoredTextSurvives
INVARIANT OwnersChoiceIsInForce
CHECK_DEADLOCK FALSE
