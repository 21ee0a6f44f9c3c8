----------------------------- MODULE MCIioLookup -----------------------------
(* IioLookup with interchangeable directory entries.                       *)
EXTENDS IioLookup, TLC

Symm == Permutations(Entries)
=============================================================================
