---------------------------- MODULE MCChunkPlan ----------------------------
(* Every input up to MaxLength, which is the largest size there is, so     *)
(* that a walk that leaves the input's range wraps around and is seen.     *)
EXTENDS ChunkPlan

CONSTANT MaxLength

MCInputs == UNION { [1 .. n -> Symbols] : n \in 0 .. MaxLength }
=============================================================================
