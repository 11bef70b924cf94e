---------------------------- MODULE MCFwdrGroup ----------------------------
(* Small instances of FwdrGroup: two or three forwarders in two tiers.        *)
EXTENDS FwdrGroup, TLC

CONSTANTS a, b, c, t1, t2, t3

Pair == <<a, b>>

Slice == <<a, b, c>>

TwoTiers == (a :> 1) @@ (b :> 0) @@ (c :> 0)

PairTiers == (a :> 1) @@ (b :> 0)

Goroutines == {t1, t2, t3}

GoroutineSymmetry == Permutations(Goroutines)
=============================================================================
