------------------------------ MODULE MCFilters ------------------------------
(* Filters alone, on small numbers, for TLC.                                  *)
EXTENDS Filters, TLC
=============================================================================
