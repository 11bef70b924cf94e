---------------------------- MODULE MCGroupDial ----------------------------
(* Small instances of GroupDial: two forwarders of one priority.             *)
EXTENDS GroupDial, TLC

CONSTANTS a, b, d, k

Slice == <<a, b>>

OneLevel == [f \in {a, b} |-> 0]

Goroutines == {d, k}

\* Dials that may try every forwarder: within a budget, and by latency without.
RetryAndLatency ==
  { [next |-> "dh", dialAttempts |-> 2, dialBudget |-> 3],
    [next |-> "lha", dialAttempts |-> 2, dialBudget |-> 0] }
=============================================================================
