----------------------------- MODULE MCAccounts -----------------------------
(* Instances of Accounts for TLC: two key fields, and inputs that share one   *)
(* of them, lack one, give one twice, or come in another order.               *)
EXTENDS Accounts, TLC

CONSTANTS user, party, pass

Give(f, v) == [id |-> f, value |-> v]
MCInputs ==
    {<<Give(user, 1), Give(party, 1), Give(pass, 1)>>,
     <<Give(party, 1), Give(user, 1)>>,
     <<Give(user, 1), Give(party, 2)>>,
     <<Give(user, 1), Give(pass, 2)>>,
     <<Give(user, 1), Give(party, 2), Give(user, 2)>>}
=============================================================================
