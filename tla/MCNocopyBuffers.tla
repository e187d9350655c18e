-------------------------- MODULE MCNocopyBuffers --------------------------
(* NocopyBuffers with interchangeable buffers, where no call fails and     *)
(* where any of them but the discards of the test may.                     *)
EXTENDS NocopyBuffers, TLC

Interchangeable == Permutations(CBuf) \cup Permutations(SBuf)

NoneOrAll == {{}, FaultPoints \ {"discard"}}

(* The instance satisfies the assumptions of the proofs.                   *)
ASSUME MCDiscards == DiscardWorks
ASSUME MCSuffices == BuffersSuffice
=============================================================================
