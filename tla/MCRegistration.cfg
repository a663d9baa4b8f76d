SPECIFICATION FairSpec
CONSTANTS
  f1 = f1
  f2 = f2
  v1 = v1
  v2 = v2
  a1 = a1
  MaxTasks = 2
  Fields = {f1, f2}
  Desired <- MCDesired
  Additions <- MCAdditions
  Revisions <- MCRevisions
  Profile <- MCProfile
  UserAttributes = {a1}
  Values = {v1, v2}
  Versions = {2}
  Statuses = {"Created"}
  Null = Null
  NoCall = NoCall
  NoAccount = NoAccount
  MaxCalls = 5
CHECK_DEADLOCK FALSE
INVARIANTS PageInv RecordIsAsBuilt
PROPERTIES CallsAreSettled
