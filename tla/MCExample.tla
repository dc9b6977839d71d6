----------------------------- MODULE MCExample -----------------------------
(* Instances of Example for TLC.  PathSz is the worst case: with it,       *)
(* aligning the whole sum only once would leave no slack at all.           *)
EXTENDS Example

(* Three stretches of free memory that each hold a stack of 11 pages.      *)
MCMemory == (1 .. 35) \ {12, 24}
=============================================================================
