---------------------------- MODULE MCNoteEditor ----------------------------
(* Instances of NoteEditor for TLC. *)
EXTENDS NoteEditor, TLC

CONSTANTS n1, n2, c1, c2

Symmetric == Permutations(Note) \cup Permutations(Callback)

=============================================================================
