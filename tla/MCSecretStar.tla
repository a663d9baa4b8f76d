----------------------------- MODULE MCSecretStar -----------------------------
(* A field the manager makes, one the web app gives, and a challenge.        *)
EXTENDS SecretStar
CONSTANTS f, g, c
=============================================================================
