------------------------------ MODULE Absence ------------------------------
(***************************************************************************)
(* What a column, a lookup or a cache holds when it holds nothing.  The    *)
(* services that are checked together share it.                            *)
(***************************************************************************)
CONSTANT Null
=============================================================================
