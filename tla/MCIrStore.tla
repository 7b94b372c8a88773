----------------------------- MODULE MCIrStore -----------------------------
(* One name and the keys of two contents: two contents for a name to move  *)
(* between, and two entries that may share one.                            *)
EXTENDS IrStore, TLC

(* The requests differ in nothing but what they ask. *)
Interchangeable == Permutations(Req)
=============================================================================
