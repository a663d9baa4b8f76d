SPECIFICATION FairSpec
CONSTANTS
  f = f
  g = g
  c = c
  Created = {f}
  Given = {g}
  Challenges = {c}
  Seamless = FALSE
  MaxRequests = 4
  MaxClosings = 1
  MaxSubmits = 2
  NoItem = NoItem
  NoPage = NoPage
  NoUrl = NoUrl
  NoHandler = NoHandler
  NoAccount = NoAccount
CHECK_DEADLOCK FALSE
 
PROPERTIES AccountHoldsFields RequestsAreAnswered
