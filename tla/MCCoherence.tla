------------------------------ MODULE MCCoherence ------------------------------
(***************************************************************************)
(* Instances of Coherence: the assignment of cores to last-level caches    *)
(* and of blocks to home nodes that the configurations choose from.        *)
(***************************************************************************)
EXTENDS Coherence, TLC

CONSTANTS h, n1, n2, n3, c1, c2, c3, a1, a2, a3

OneBlock == (a1 :> h)
OneBlockAtCache == (a1 :> n1)
TwoBlocks == (a1 :> h @@ a2 :> h)
ThreeBlocks == (a1 :> h @@ a2 :> h @@ a3 :> h)
Private2 == (c1 :> n1 @@ c2 :> n2)
Private3 == (c1 :> n1 @@ c2 :> n2 @@ c3 :> n3)
Shared3 == (c1 :> n1 @@ c2 :> n1 @@ c3 :> n2)

\* The blocks are interchangeable when they have the same home.
Symmetry == Permutations({a1, a2, a3})
=============================================================================
