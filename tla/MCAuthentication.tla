--------------------------- MODULE MCAuthentication ---------------------------
(* Two objects with the id x, of a digital signature challenge, and one with *)
(* the id y, of a password challenge.                                        *)
EXTENDS Authentication
CONSTANTS d1, d2, p, x, y

MCIdOf == [o \in {d1, d2, p} |-> IF o = p THEN y ELSE x]
MCTypeOf == [o \in {d1, d2, p} |-> IF o = p THEN "Password" ELSE "DigitalSignature"]
=============================================================================
