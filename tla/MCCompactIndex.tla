---------------------------- MODULE MCCompactIndex ----------------------------
(* Instances of CompactIndex for TLC.                                       *)
EXTENDS CompactIndex

\* Two keys of one byte, and one that begins with the first of them.
MCKeys == {<<"a">>, <<"b">>, <<"a", "b">>}
MCVals == {<<>>, <<"a">>}
=============================================================================
