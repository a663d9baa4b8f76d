--------------------------- MODULE MCAuthBackend ---------------------------
(* An instance of AuthBackend for TLC: an account version with a password  *)
(* and a digital signature challenge.                                      *)
EXTENDS AuthBackend, TLC

BothTypes == "pw" :> "Password" @@ "ds" :> "DigitalSignature"
Symmetry == Permutations(Nonces) \union Permutations(Workers)
=============================================================================
