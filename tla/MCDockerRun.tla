---------------------------- MODULE MCDockerRun ----------------------------
(* Requests for one name, interchangeable where no liveness is checked. *)
EXTENDS DockerRun, TLC

CONSTANTS r1, r2, r3

ReqSymmetry == Permutations(Req)
=============================================================================
