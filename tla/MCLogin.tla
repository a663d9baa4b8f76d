------------------------------- MODULE MCLogin -------------------------------
(* Two names and two secrets, and a page that is started over.              *)
EXTENDS Login
CONSTANTS ann, bob, pw1, pw2
=============================================================================
