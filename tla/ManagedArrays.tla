---------------------------- MODULE ManagedArrays ----------------------------
(***************************************************************************)
(* The two parts of Containers that manage memory: the arrays that own one *)
(* allocation (Arrays), and the chunked array.  They share the memory and  *)
(* misuse, of which only one of them makes use in a program.               *)
(***************************************************************************)
EXTENDS Arrays

CONSTANTS BlockSize, MaxBlocks  \* of ChunkedArray

\* While blocks move there are two allocations, and what growth gives fits into one.
ASSUME ChunkedAssumption ==
  /\ BlockSize \in Nat \ {0} /\ MaxBlocks \in Nat /\ 2 <= Places
  /\ \A k \in 1..MaxBlocks : GrownSize(k) \in k..MaxCap /\ GrownSize(k) * BlockSize <= MaxCap

VARIABLES elements, sizes, blockNum, handle, blocks

Chunked == INSTANCE ChunkedArray

chunkedOnly == <<elements, sizes, blockNum, handle, blocks>>
=============================================================================
