----------------------------- MODULE MCSparseTree -----------------------------
(* Eight leaves, of which four are used: neighbours, in one half, and in the other half. *)
EXTENDS SparseTree
=============================================================================
