------------------------------ MODULE MCChannel ------------------------------
(* Instances of Channel for TLC: one window's document is listed through     *)
(* wildcards, the other one's only looks as if it were.  A page passes a key *)
(* or a text that is none.                                                   *)
EXTENDS Channel, TLC

CONSTANTS w1, w2, k, c1, c2, c3, c4, x1, x2

Entry(host, path) == [key |-> k, host |-> host, port |-> -1, path |-> path]
Url(host, path) == [scheme |-> "https", host |-> host, port |-> -1, path |-> path]

Documents ==
    w1 :> Url(<<"id", "shop", "com">>, <<"", "app", "a", "login">>)
    @@ w2 :> Url(<<"shop", "com">>, <<"", "app", "a", "b">>)
Entries ==
    <<Entry(<<"*", "shop", "com">>, <<"", "app", "*", "login">>),
      Entry(<<"*">>, <<"", "app", "*", "pay">>)>>
Lists == [w \in Windows |-> Entries]

InWindow == c1 :> w1 @@ c2 :> w1 @@ c3 :> w1 @@ c4 :> w2
Spkis == k :> <<"letter", "slash">> @@ x1 :> <<"slash", "letter">>
         @@ x2 :> <<"letter", "control">>
OfWebApp == c1 :> k @@ c2 :> Anonymous @@ c3 :> Anonymous @@ c4 :> k

ASSUME TextsAreRead
=============================================================================
