------------------------------ MODULE MCIngest ------------------------------
(* Small instances of Ingest: the chain's blocks and the symmetry of workers. *)
EXTENDS Ingest, TLC

CONSTANTS a1, a2

\* Two calls, then a creation, then an empty block.
MCBlock == <<<<a1, a2>>, <<NoTo>>, <<>>>>

\* Two calls, then one.
MCBlockPair == <<<<a1, a2>>, <<a1>>>>

\* A chain of one block with two calls.
MCBlockOne == <<<<a1, a2>>>>

WorkerSymmetry == Permutations(Workers)
=============================================================================
