---------------------------- MODULE MCSelection ----------------------------
(* An instance of Selection for TLC: one page accepts only the second of two *)
(* managers, or one that is not installed; another page accepts any.         *)
EXTENDS Selection, TLC

CONSTANTS m1, m2, p, q, k1, k2, k0

KeyOf == m1 :> k1 @@ m2 :> k2
Accepts == p :> <<k2, k0>> @@ q :> <<>>
=============================================================================
