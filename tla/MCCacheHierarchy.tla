-------------------------- MODULE MCCacheHierarchy --------------------------
EXTENDS CacheHierarchy, TLC

CONSTANTS L1a, L1b, L2a, L2b, L3

\* Two cores with private second levels and a common third.
Private == (L1a :> L2a @@ L1b :> L2b @@ L2a :> L3 @@ L2b :> L3 @@ L3 :> Memory)
PrivateStack == (L1a :> {L1a, L2a, L3} @@ L1b :> {L1b, L2b, L3} @@
                 L2a :> {L2a, L3} @@ L2b :> {L2b, L3} @@ L3 :> {L3})

AddrSymmetry == Permutations(Addrs)

\* Two lines in the last level and one in the others.
OneWay == [c \in Caches |-> IF c = L3 THEN 2 ELSE 1]
=============================================================================
