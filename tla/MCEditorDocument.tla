-------------------------- MODULE MCEditorDocument --------------------------
(* Small instances of EditorDocument. *)
EXTENDS EditorDocument, TLC

PageFieldSymmetry == Permutations(Pages) \cup Permutations(Fields)
=============================================================================
