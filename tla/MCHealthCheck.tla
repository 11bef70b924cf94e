--------------------------- MODULE MCHealthCheck ---------------------------
(* Two forwarders in two tiers, each with its checker.                       *)
EXTENDS HealthCheck, TLC

CONSTANTS a, b, ka, kb

Pair == <<a, b>>

PairTiers == (a :> 1) @@ (b :> 0)

TwoCheckers == (ka :> a) @@ (kb :> b)
=============================================================================
