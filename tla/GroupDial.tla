------------------------------ MODULE GroupDial ------------------------------
(***************************************************************************)
(* FwdrGroup.Dial (rule/group.go) on top of the group's bookkeeping: the   *)
(* scheduling strategies, the candidate list taken under the read lock,    *)
(* and the retry loop with its two bounds.  A failed attempt is charged to *)
(* the forwarder it was made through, so dials change the rotation that    *)
(* other dials pick from.                                                  *)
(*                                                                         *)
(* Time is what the attempts of one Dial cost, in seconds; what the loop   *)
(* does between attempts costs nothing.                                    *)
(***************************************************************************)
EXTENDS FwdrGroup, Integers, FiniteSets

CONSTANTS
  Dialers,        \* goroutines that dial; the others are health checkers
  Configs,        \* the configurations a group may be given: the strategy behind
                  \* FwdrGroup.next, dialAttempts and dialBudget (0: no bound)
  Costs,          \* what an attempt may cost
  IndexMod,       \* 2^32, the modulus of FwdrGroup.index
  Hashes          \* fnv32a sums of destination addresses

ASSUME DialAssumption ==
  /\ Dialers \subseteq Threads
  /\ Configs \subseteq [next : {"rr", "ha", "lha", "dh"},
                         dialAttempts : Nat \ {0}, dialBudget : Nat]
  /\ Costs \subseteq Nat
  /\ IndexMod \in Nat \ {0}
  /\ Hashes \subseteq Nat

VARIABLES
  config,     \* the group's configuration, fixed when it is made
  index,      \* FwdrGroup.index
  dialing,    \* per goroutine: "no", "attempt" (in nd.Dial) or "failed"
  cands,      \* the locals of Dial: the candidate list,
  tried,      \* how many of them were tried,
  elapsed,    \* time.Since(start),
  lastCost,   \* the last attempt's cost,
  steady      \* history: no attempt cost more than the one before it

dialVars == <<dialing, cands, tried, elapsed, lastCost, steady>>

allVars == <<vars, config, index, dialVars>>

-----------------------------------------------------------------------------
(* Picking forwarders. *)

\* The pool of retries: the rotation, or every forwarder if that is empty.
Pool == IF avail = <<>> THEN fwdrs ELSE avail

At(pool, k) == pool[(k % Len(pool)) + 1]

\* scheduleLHA loads the latencies one at a time, some of them twice, while the
\* checkers store new ones without the lock.  Whichever member of the rotation
\* beats the head may therefore be returned, and so may the head.
scheduleLHA == Range(avail)

scheduleDH(hash) == At(avail, hash)

\* What p.next may return for some destination.
StrategyPicks ==
  CASE config.next = "ha" -> {avail[1]}
    [] config.next = "lha" -> scheduleLHA
    [] config.next = "dh" -> {scheduleDH(h) : h \in Hashes}

\* nextDialer returns `first`; the round robin over an empty rotation's
\* forwarders and that of scheduleRR both count the index up.
nextDialer(first) ==
  IF avail = <<>> \/ config.next = "rr"
  THEN index' = (index + 1) % IndexMod /\ first = At(Pool, index')
  ELSE UNCHANGED index /\ first \in StrategyPicks

Lesser(x, y) == IF x <= y THEN x ELSE y

\* The places K of a slice, lowest first.
InOrder(K) ==
  CHOOSE p \in [1 .. Cardinality(K) -> K] : \A i, j \in DOMAIN p : i < j => p[i] < p[j]

\* The elements of s at the places K.
Kept(s, K) == [i \in 1 .. Cardinality(K) |-> s[InOrder(K)[i]]]

\* The first place of f in the pool, counted from 1; 0 if f is not in it.
FirstPlace(f, pool) ==
  IF f \in Range(pool)
  THEN CHOOSE i \in DOMAIN pool : pool[i] = f /\ \A j \in 1 .. i - 1 : pool[j] # f
  ELSE 0

\* Mutant: the walk starts at the first pick's own place and does not skip it.
RepeatFirst(pool, first, n) ==
  LET start == FirstPlace(first, pool) - 1
      walk == [i \in 1..Len(pool) |-> At(pool, start + i - 1)]
  IN  <<first>> \o SubSeq(walk, 1, Lesser(n, Len(pool)) - 1)

\* Mutant: one candidate too few.
OneShort(pool, first, n) ==
  LET start == FirstPlace(first, pool)
      walk == [i \in 1..Len(pool) |-> At(pool, start + i - 1)]
      others == Kept(walk, {i \in 1..Len(pool) : walk[i] # first})
  IN  <<first>> \o SubSeq(others, 1, Lesser(Lesser(n, Len(pool)) - 2, Len(others)))

\* The first pick, then the pool walked cyclically from just past it without it.
dialCandidates(pool, first, n) ==
  LET start == FirstPlace(first, pool)
      walk == [i \in 1..Len(pool) |-> At(pool, start + i - 1)]
      others == Kept(walk, {i \in 1..Len(pool) : walk[i] # first})
  IN  <<first>> \o SubSeq(others, 1, Lesser(Lesser(n, Len(pool)) - 1, Len(others)))

-----------------------------------------------------------------------------
(* Dial. *)

\* The candidates are taken under the read lock, and the first attempt starts.
StartDial(t) ==
  /\ pc[t] = "idle" /\ dialing[t] = "no"
  /\ lock = NoThread
  /\ \E first \in Fwdr :
       /\ nextDialer(first)
       /\ cands' = [cands EXCEPT ![t] = dialCandidates(Pool, first, config.dialAttempts)]
  /\ dialing' = [dialing EXCEPT ![t] = "attempt"]
  /\ tried' = [tried EXCEPT ![t] = 1]
  /\ UNCHANGED <<vars, elapsed, lastCost, steady>>

\* Dial returns; its locals are gone.
Return(t) ==
  /\ dialing' = [dialing EXCEPT ![t] = "no"]
  /\ cands' = [cands EXCEPT ![t] = <<>>]
  /\ tried' = [tried EXCEPT ![t] = 0]
  /\ elapsed' = [elapsed EXCEPT ![t] = 0]
  /\ lastCost' = [lastCost EXCEPT ![t] = 0]
  /\ steady' = [steady EXCEPT ![t] = TRUE]

AttemptSucceeds(t) ==
  /\ dialing[t] = "attempt"
  /\ Return(t)
  /\ UNCHANGED <<vars, index>>

\* Forwarder.Dial counts the failure; IncFailures then goes on by itself.
AttemptFails(t, cost) ==
  /\ dialing[t] = "attempt"
  /\ IncFailures(t, cands[t][tried[t]])
  /\ dialing' = [dialing EXCEPT ![t] = "failed"]
  /\ elapsed' = [elapsed EXCEPT ![t] = @ + cost]
  /\ lastCost' = [lastCost EXCEPT ![t] = cost]
  /\ steady' = [steady EXCEPT ![t] = @ /\ (tried[t] > 1 => cost <= lastCost[t])]
  /\ UNCHANGED <<index, cands, tried>>

\* Mutant: the gate looks at the elapsed time alone.
ElapsedOnly(t) == config.dialBudget = 0 \/ elapsed[t] < config.dialBudget

\* There is room for another attempt as slow as the last one.
WithinBudget(t) == config.dialBudget = 0 \/ elapsed[t] + lastCost[t] < config.dialBudget

\* Forwarder.Dial has returned its error: try the next candidate or give up.
Retry(t) ==
  /\ dialing[t] = "failed" /\ pc[t] = "idle"
  /\ IF tried[t] < Len(cands[t]) /\ WithinBudget(t)
     THEN /\ dialing' = [dialing EXCEPT ![t] = "attempt"]
          /\ tried' = [tried EXCEPT ![t] = @ + 1]
          /\ UNCHANGED <<cands, elapsed, lastCost, steady>>
     ELSE Return(t)
  /\ UNCHANGED <<vars, index>>

Dial(t) ==
  \/ StartDial(t) \/ AttemptSucceeds(t) \/ Retry(t)
  \/ \E cost \in Costs : AttemptFails(t, cost)

-----------------------------------------------------------------------------

\* A successful health check: setLatency stores what scheduleLHA loads, then
\* Enable.
CheckSucceeds(t, f) ==
  /\ Enable(t, f)
  /\ UNCHANGED <<index, dialVars>>

\* The dial of a tcp or http check goes through Forwarder.Dial too, which counts
\* its failure before the checker sees the error.
CheckDialFails(t, f) ==
  /\ IncFailures(t, f)
  /\ UNCHANGED <<index, dialVars>>

\* A failed health check.
CheckFails(t, f) ==
  /\ Disable(t, f)
  /\ UNCHANGED <<index, dialVars>>

DialInit ==
  /\ Init
  /\ config \in Configs
  /\ index = 0
  /\ dialing = [t \in Threads |-> "no"]
  /\ cands = [t \in Threads |-> <<>>]
  /\ tried = [t \in Threads |-> 0]
  /\ elapsed = [t \in Threads |-> 0]
  /\ lastCost = [t \in Threads |-> 0]
  /\ steady = [t \in Threads |-> TRUE]

DialStep(t) ==
  \/ t \in Dialers /\ Dial(t)
  \/ t \notin Dialers /\ \E f \in Fwdr :
       CheckSucceeds(t, f) \/ CheckDialFails(t, f) \/ CheckFails(t, f)
  \/ Step(t) /\ UNCHANGED <<index, dialVars>>

DialNext == UNCHANGED config /\ \E t \in Threads : DialStep(t)

DialSpec == DialInit /\ [][DialNext]_allVars

-----------------------------------------------------------------------------

\* A retry goes to a different forwarder: whatever strategy picked the first,
\* and however the rotation was rewritten before, no candidate list of Dial
\* holds a forwarder twice.
DistinctTargets == \A t \in Threads : IsInjective(cands[t])

\* Between status changes of a group with one priority, the candidates of a Dial
\* that may try all forwarders include every enabled one, so that it fails only
\* after all of them did (or the budget is spent).
HealthyAreTried == [][
  \A t \in Threads :
    StartDial(t) /\ Quiescent /\ UniformPriority /\ config.dialAttempts >= N
      => {f \in Fwdr : Enabled(f)} \subseteq Range(cands'[t])]_allVars

\* The budget does its job when attempts fail alike: unless an attempt was
\* slower than the one before it, a Dial that retried has spent less than the
\* budget.
FitsBudget ==
  \A t \in Threads :
    config.dialBudget > 0 /\ tried[t] > 1 /\ steady[t] => elapsed[t] < config.dialBudget
=============================================================================
