---------------------------- MODULE MCChunkCache ----------------------------
(* ChunkCache for TLC: the CPU manager, up to two GPU managers, and a chunk  *)
(* of each kind.                                                             *)
EXTENDS ChunkCache

CONSTANTS cpu, g1, g2, zero, grows, fixed

\* A zero-copy chunk and one that grows asked of the CPU, others of the GPU.
SeparateKeys == {<<cpu, zero, 1>>, <<cpu, grows, 1>>, <<cpu, grows, 2>>,
                 <<g1, fixed, 1>>, <<g1, fixed, 2>>}

\* The same chunk asked of both GPUs.
SharedByGpus == {<<g1, fixed, 1>>, <<g2, fixed, 1>>}

\* Two chunks of the CPU.
CpuOnly == {<<cpu, grows, 1>>, <<cpu, fixed, 1>>}

FourPages == [m \in Mgrs |-> 4]
TwoPages == [m \in Mgrs |-> 2]
NoPages == [m \in Mgrs |-> 0]
=============================================================================
