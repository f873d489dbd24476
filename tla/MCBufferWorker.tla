--------------------------- MODULE MCBufferWorker ---------------------------
(* The buffer worker for TLC: buffers are model values, and alike.         *)
EXTENDS BufferWorker, TLC

BufferSymmetry == Permutations(Buffers)
=============================================================================
