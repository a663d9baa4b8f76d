------------------------- MODULE MCRequestHandler -------------------------
(* Instances of RequestHandler for TLC: requests that compete for a field  *)
(* and for the messages of a digital signature challenge.                  *)
EXTENDS RequestHandler, TLC

CONSTANTS f, c, add1, add2, revise, select1, select2, sign

Type == c :> "DigitalSignature"
Message(name) ==
    [group |-> "accountAuthentication", method |-> "respondToChallengeMessage",
     challenge |-> c, name |-> name]
Adding == [group |-> "accountCreation", method |-> "addField", field |-> f]
Revising == [group |-> "accountCreation", method |-> "rejectFieldValue", field |-> f]

FieldAsks == add1 :> Adding @@ add2 :> Adding @@ revise :> Revising
MessageAsks == select1 :> Message("SelectKey") @@ select2 :> Message("SelectKey")
               @@ sign :> Message("SignNonce")
Asks == [r \in Requests |-> (FieldAsks @@ MessageAsks)[r]]
Symmetry == Permutations(Handlers) \union Permutations({add1, add2})
=============================================================================
