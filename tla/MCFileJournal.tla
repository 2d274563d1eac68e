--------------------------- MODULE MCFileJournal ----------------------------
(* TLC's instance of FileJournal: which handle is which does not matter. *)
EXTENDS FileJournal

HandleSymmetry == Permutations(Handle)
=============================================================================
