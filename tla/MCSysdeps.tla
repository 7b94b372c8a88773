----------------------------- MODULE MCSysdeps -----------------------------
(* Sysdeps for TLC: the constants are given in the cfg files. *)
EXTENDS Sysdeps, TLC

(* No action tells one request from another, nor one dependency. *)
Interchangeable == Permutations(Req) \cup Permutations(Dep)
=============================================================================
