--------------------------- MODULE MCSeiProcessTxs ---------------------------
(***************************************************************************)
(* Three transactions: 1 and 2 share x, 2 and 3 share y.                   *)
(***************************************************************************)
EXTENDS SeiProcessTxs

MCTouches == <<{"x"}, {"x", "y"}, {"y"}>>
MCKeys == {"x", "y"}
=============================================================================
