----------------------------- MODULE MCJournal -----------------------------
(* Journal for TLC. *)
EXTENDS Journal

CONSTANTS f1, f2, b1, b2

JournalBlocks == <<"j1", "j2", "j3", "j4", "j5", "j6">>

\* a file with a block and one without
FilesBefore == {f1 :> b1 @@ f2 :> None}
=============================================================================
