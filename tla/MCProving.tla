------------------------------ MODULE MCProving ------------------------------
(* Three blocks in two sizes; two blocks change accounts. *)
EXTENDS Proving, TLC

MCChanged == (1 :> {"a"}) @@ (2 :> {"b"}) @@ (3 :> {})
MCSizeOf == (1 :> 10) @@ (2 :> 32) @@ (3 :> 10)
=============================================================================
