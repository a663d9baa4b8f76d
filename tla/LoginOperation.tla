--------------------------- MODULE LoginOperation ---------------------------
(***************************************************************************)
(* What a page's operations have in common, of registration and of         *)
(* authentication (dom/berytus/BerytusLoginOperation.cpp): a channel, and  *)
(* requests that the manager serves one at a time.                         *)
(***************************************************************************)
EXTENDS Integers, Sequences

CONSTANTS
    NoCall,         \* the manager serves no request
    MaxCalls        \* bound: calls the page makes

VARIABLES
    channel,        \* whether the page's channel is active
    active,         \* mActive of the operation
    call,           \* the request the manager serves
    replies,        \* answers on their way to the page
    calls           \* counts the page's calls
=============================================================================
