SPECIFICATION AuthSpec
CONSTANTS
  d1 = d1
  d2 = d2
  p = p
  x = x
  y = y
  Objects = {d1, d2, p}
  Ids = {x, y}
  IdOf <- MCIdOf
  TypeOf <- MCTypeOf
  NoObject = NoObject
  NoCall = NoCall
  MaxCalls = 7
  MaxReplies = 1
CHECK_DEADLOCK FALSE
INVARIANTS AuthenticationInv MessagesInOrder
