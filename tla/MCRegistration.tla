---------------------------- MODULE MCRegistration ----------------------------
(* Two fields, one with a value of the page's own, added and revised one at  *)
(* a time and together.                                                     *)
EXTENDS Registration
CONSTANTS f1, f2, v1, v2, a1

Change(f, v) == [id |-> f, value |-> v]
MCDesired == [f \in {f1, f2} |-> IF f = f1 THEN v1 ELSE Null]
MCAdditions == {<<f1>>, <<f2>>, <<f2, f1>>, <<f1, f1>>}
MCRevisions == {<<Change(f1, v2)>>, <<Change(f2, Null)>>,
                <<Change(f1, v1), Change(f2, Null)>>}
MCProfile == [a \in {a1} |-> v1]
=============================================================================
