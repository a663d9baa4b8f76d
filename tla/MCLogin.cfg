SPECIFICATION FairSpec
CONSTANTS
  ann = ann
  bob = bob
  pw1 = pw1
  pw2 = pw2
  Usernames = {ann, bob}
  Secrets = {pw1, pw2}
  MaxRestarts = 1
  Nothing = Nothing
CHECK_DEADLOCK FALSE
 
PROPERTIES WalksEnd
