---------------------------- MODULE MCCompression ----------------------------
(* Two jobs archiving two inputs each into the same output path.          *)
EXTENDS Compression, TLC

CONSTANTS j1, j2

MCJobs == {j1, j2}

OneJob == {j1}

JobSymmetry == Permutations(MCJobs)
====
