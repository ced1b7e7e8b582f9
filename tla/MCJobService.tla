---------------------------- MODULE MCJobService ----------------------------
(* Small instances of JobService.                                          *)
EXTENDS JobService, TLC

CONSTANTS r1, r2, r3, r4

Interchangeable == Permutations(Requests)
=============================================================================
