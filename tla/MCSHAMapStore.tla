---------------------------- MODULE MCSHAMapStore ----------------------------
(***************************************************************************)
(* Two tree nodes and a rotation at every validated ledger that the advice *)
(* allows: three rotations and a crash, with a reader and a builder at     *)
(* work in all of them.                                                    *)
(***************************************************************************)
EXTENDS SHAMapStore, TLC

MCAdvice == {0, MaxSeq}

\* Nodes are told apart only by the trees and backends that hold them.
Nodes == Permutations(Node)
=============================================================================
