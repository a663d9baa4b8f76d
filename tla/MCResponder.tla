----------------------------- MODULE MCResponder -----------------------------
(***************************************************************************)
(* The conversations of a challenge of each type (Identification has the   *)
(* form and the single message of Password), with messages that are        *)
(* rejected and sent again, one that the page cannot use, and a popup that *)
(* the user closes.                                                        *)
(***************************************************************************)
EXTENDS Responder
=============================================================================
