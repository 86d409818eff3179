--------------------------- MODULE MCSuiConsensus ---------------------------
(***************************************************************************)
(* Four certificates on two shared objects: one uses both, one uses none;  *)
(* a channel of one makes submitters wait.                                 *)
(***************************************************************************)
EXTENDS SuiConsensus

a == <<"shared", 1>>
b == <<"shared", 2>>
MCObjects == {a, b}
MCUses == <<{a}, {a, b}, {b}, {}>>
=============================================================================
