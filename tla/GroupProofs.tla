---------------------------- MODULE GroupProofs ----------------------------
(***************************************************************************)
(* A forwarder group and the Dials that use it, for every slice of         *)
(* forwarders, every assignment of priorities, every number of goroutines, *)
(* and every strategy, budget and number of attempts.                      *)
(*                                                                         *)
(* FwdrGroup: a step that flips a flag leaves a handler pending for that   *)
(* forwarder, and a pending handler stays pending as long as another       *)
(* goroutine holds the mutex.  So each fact about a flag that init() has   *)
(* read stays true up to pending handlers.                                 *)
(*                                                                         *)
(* FitsBudget: the gate of Dial is looked at before an attempt, the        *)
(* property is about the time after it; what connects them is that an      *)
(* attempt under way has room for one as slow as the last.                 *)
(*                                                                         *)
(* The candidates: a cyclic walk of a slice visits each place once, and a  *)
(* filter keeps what it keeps in order, so the list has no duplicates      *)
(* because the rotation has none.  That in turn is an invariant of         *)
(* FwdrGroup, which applies since every step of a Dial is a call into the  *)
(* group or leaves it alone; and that needs the candidates to be           *)
(* forwarders of the group.  The two are proved in one induction, DialInv. *)
(***************************************************************************)
EXTENDS GroupDial, FiniteSetTheorems, SequenceTheorems, TLAPS

Scanning(t) == pc[t] \in {"findPriority", "collect"}

\* The goroutine inside init() is the one that holds the mutex.
LockInv == \A t \in Threads : Scanning(t) <=> lock = t

\* The active priority never exceeds the highest priority of a forwarder.
PriorityBound == \E f \in Fwdr : priority <= Pri[f]

\* No member of the rotation is below the active priority.
NoneBelow == \A f \in Range(avail) : Pri[f] >= priority

\* Forwarders that the first loop of init() has passed were disabled.
PassedDisabled == \A t \in Threads : pc[t] = "findPriority" =>
  \A i \in 1..N : i < scan /\ Enabled(fwdrs[i]) => Pending(fwdrs[i])

\* Outside the first loop, a member above the active priority has a handler due.
AboveIsPending == (\A t \in Threads : pc[t] # "findPriority") =>
  \A f \in Range(avail) : Pri[f] > priority => Pending(f)

\* In the second loop, so has every enabled forwarder above the priority found.
EnabledAboveIsPending == \A t \in Threads : pc[t] = "collect" =>
  \A f \in Fwdr : Enabled(f) /\ Pri[f] > priority => Pending(f)

\* The second loop has collected members of the part it has passed.
CollectedPassed == \A t \in Threads : pc[t] = "collect" =>
  \A f \in Range(avail) : \E i \in 1..N : i < scan /\ fwdrs[i] = f

\* It has collected all the enabled ones there that are at or above the priority.
PassedCollected == \A t \in Threads : pc[t] = "collect" =>
  \A i \in 1..N : i < scan /\ Enabled(fwdrs[i]) /\ Pri[fwdrs[i]] >= priority =>
    inAvail(fwdrs[i]) \/ Pending(fwdrs[i])

\* The first loop found a forwarder, or all were disabled when it read them.
FoundOrNone == \A t \in Threads : pc[t] = "collect" =>
  \/ \A f \in Fwdr : Enabled(f) => Pending(f)
  \/ \E f \in Fwdr : Pri[f] >= priority /\ (Enabled(f) \/ Pending(f))

\* With the mutex free, an empty rotation and an enabled forwarder imply that
\* some handler is due,
EmptyIsPending == lock = NoThread /\ avail = <<>> =>
  \A f \in Fwdr : Enabled(f) => \E g \in Fwdr : Pending(g)

\* and with one priority in use a forwarder left out has a handler due.
LeftOutIsPending == UniformPriority /\ lock = NoThread =>
  \A f \in Fwdr : Enabled(f) => inAvail(f) \/ Pending(f)

RotationInv ==
  /\ TypeOK
  /\ LockInv
  /\ NoDuplicates
  /\ DisabledLeaves
  /\ PriorityBound
  /\ NoneBelow
  /\ PassedDisabled
  /\ AboveIsPending
  /\ EnabledAboveIsPending
  /\ CollectedPassed
  /\ PassedCollected
  /\ FoundOrNone
  /\ EmptyIsPending
  /\ LeftOutIsPending

-----------------------------------------------------------------------------
(* The sequence operations of the rotation. *)

\* Appending to the rotation adds one member, and keeps it free of duplicates
\* when the member is new (group.go, `if !p.inAvail(fwdr)`).
LEMMA AppendRotation ==
  ASSUME NEW S, NEW s \in Seq(S), NEW e \in S
  PROVE  /\ Append(s, e) \in Seq(S)
         /\ Range(Append(s, e)) = Range(s) \cup {e}
         /\ IsInjective(s) /\ e \notin Range(s) => IsInjective(Append(s, e))
<1> DEFINE r == Append(s, e)
<1>1. /\ r \in Seq(S)
      /\ Len(r) = Len(s) + 1
      /\ \A i \in 1..Len(s) : r[i] = s[i]
      /\ r[Len(s) + 1] = e
  BY AppendProperties
<1>2. DOMAIN r = 1..(Len(s) + 1) /\ DOMAIN s = 1..Len(s) /\ Len(s) \in Nat
  BY <1>1
<1> HIDE DEF r
<1>3. Range(r) = Range(s) \cup {e}
  BY <1>1, <1>2 DEF Range
<1>4. ASSUME IsInjective(s), e \notin Range(s)
      PROVE  IsInjective(r)
  BY <1>1, <1>2, <1>4 DEF IsInjective, Range
<1> QED
  BY <1>1, <1>3, <1>4 DEF r

\* Overwriting position i with the last element and dropping the last one.
LEMMA SwapWithLast ==
  ASSUME NEW S, NEW s \in Seq(S), IsInjective(s), NEW i \in 1..Len(s), NEW r,
         r = [k \in 1..(Len(s) - 1) |-> IF k = i THEN s[Len(s)] ELSE s[k]]
  PROVE  /\ r \in Seq(S)
         /\ Range(r) = Range(s) \ {s[i]}
         /\ IsInjective(r)
<1> DEFINE n == Len(s)
<1>1. n \in Nat /\ n > 0 /\ DOMAIN s = 1..n /\ \A k \in 1..n : s[k] \in S
  OBVIOUS
<1>2. \A j, k \in 1..n : s[j] = s[k] => j = k
  BY <1>1 DEF IsInjective
<1>3. /\ DOMAIN r = 1..(n - 1)
      /\ \A k \in 1..(n - 1) : r[k] = IF k = i THEN s[n] ELSE s[k]
  OBVIOUS
<1>4. r \in Seq(S)
  <2>1. n - 1 \in Nat
    BY <1>1
  <2>2. r \in [1..(n - 1) -> S]
    BY <1>1
  <2> QED
    BY <2>1, <2>2, SeqDef
<1> HIDE DEF n
<1>5. Range(r) \subseteq Range(s) \ {s[i]}
  <2> SUFFICES ASSUME NEW k \in 1..(n - 1)
               PROVE  r[k] \in Range(s) \ {s[i]}
    BY <1>3, Zenon DEF Range
  <2>1. k \in 1..n /\ n \in 1..n /\ k # n
    BY <1>1
  <2> QED
    BY <1>1, <1>2, <1>3, <2>1, Zenon DEF Range, n
<1>6. Range(s) \ {s[i]} \subseteq Range(r)
  <2> SUFFICES ASSUME NEW k \in 1..n, s[k] # s[i]
               PROVE  s[k] \in Range(r)
    BY <1>1 DEF Range
  <2>1. CASE k = n
    <3>1. i \in 1..(n - 1)
      BY <1>1, <2>1 DEF n
    <3>2. r[i] = s[k]
      BY <1>3, <2>1, <3>1
    <3> QED
      BY <1>3, <3>1, <3>2, Zenon DEF Range
  <2>2. CASE k # n
    <3>1. k \in 1..(n - 1)
      BY <1>1, <2>2
    <3>2. r[k] = s[k]
      BY <1>3, <3>1
    <3> QED
      BY <1>3, <3>1, <3>2, Zenon DEF Range
  <2> QED
    BY <2>1, <2>2
<1>7. IsInjective(r)
  <2> SUFFICES ASSUME NEW j \in 1..(n - 1), NEW k \in 1..(n - 1), r[j] = r[k]
               PROVE  j = k
    BY <1>3 DEF IsInjective
  <2>1. j \in 1..n /\ k \in 1..n /\ n \in 1..n /\ j # n /\ k # n
    BY <1>1
  <2> QED
    BY <1>2, <1>3, <2>1
<1> QED
  BY <1>4, <1>5, <1>6, <1>7

\* The swap-with-last removal of onStatusChanged removes the forwarder, nothing
\* else, and creates no duplicate.
LEMMA SwapRemoveRotation ==
  ASSUME NEW S, NEW s \in Seq(S), NEW f, IsInjective(s)
  PROVE  /\ SwapRemove(s, f) \in Seq(S)
         /\ Range(SwapRemove(s, f)) = Range(s) \ {f}
         /\ IsInjective(SwapRemove(s, f))
<1>1. CASE f \notin Range(s)
  BY <1>1 DEF SwapRemove
<1>2. CASE f \in Range(s)
  <2> DEFINE First(k) == s[k] = f /\ \A j \in 1..(k - 1) : s[j] # f
             i == CHOOSE k \in DOMAIN s : First(k)
  <2>1. DOMAIN s = 1..Len(s) /\ Len(s) \in Nat
    OBVIOUS
  <2>2. PICK k \in DOMAIN s : s[k] = f
    BY <1>2 DEF Range
  <2>3. First(k)
    BY <2>1, <2>2 DEF IsInjective
  <2>4. i \in DOMAIN s /\ First(i)
    BY <2>2, <2>3
  <2>5. i \in 1..Len(s) /\ s[i] = f
    BY <2>1, <2>4
  <2>6. SwapRemove(s, f) = [m \in 1..(Len(s) - 1) |-> IF m = i THEN s[Len(s)] ELSE s[m]]
    BY <1>2 DEF SwapRemove
  <2> HIDE DEF i
  <2> QED
    BY <2>5, <2>6, SwapWithLast
<1> QED
  BY <1>1, <1>2

-----------------------------------------------------------------------------
(* Type correctness. *)

\* The state newFwdrGroup builds is type correct.
LEMMA InitTypeOK == Init => TypeOK
<1> SUFFICES ASSUME Init PROVE TypeOK
  OBVIOUS
<1>1. N \in Nat /\ N > 0 /\ fwdrs[1] \in Fwdr
  BY GroupAssumption DEF Fwdr, N, Range
<1>2. avail \in Seq(Fwdr)
  BY EmptySeq DEF Init
<1>3. disabled \in [Fwdr -> BOOLEAN] /\ again \in BOOLEAN
  BY Zenon DEF Init
<1>4. 1 \in 1..(N + 1)
  BY <1>1
<1>5. pc \in [Threads -> Labels] /\ call \in [Threads -> {"Enable", "Disable"}]
  BY DEF Init, Labels
<1>6. /\ failures \in [Fwdr -> Nat]
      /\ maxFailures \in [Fwdr -> Nat]
      /\ count \in [Threads -> Nat]
      /\ priority \in Nat
  BY GroupAssumption DEF Init
<1> QED
  BY <1>1, <1>2, <1>3, <1>4, <1>5, <1>6 DEF Init, TypeOK

\* Every step keeps the types; the removal of onStatusChanged needs the
\* rotation free of duplicates.
LEMMA NextTypeOK == TypeOK /\ NoDuplicates /\ [Next]_vars => TypeOK'
<1> SUFFICES ASSUME TypeOK, NoDuplicates, [Next]_vars PROVE TypeOK'
  OBVIOUS
<1> USE DEF TypeOK, Labels
<1>0. /\ N \in Nat
      /\ \A i \in 1..N : fwdrs[i] \in Fwdr
      /\ \A f \in Fwdr : Pri[f] \in Nat
  BY GroupAssumption DEF Fwdr, N
<1>1. ASSUME NEW t \in Threads, NEW f \in Fwdr, EnableCAS(t, f) PROVE TypeOK'
  BY <1>1, SMTT(40) DEF EnableCAS, Goto, rotation
<1>2. ASSUME NEW t \in Threads, NEW f \in Fwdr, DisableCAS(t, f) PROVE TypeOK'
  BY <1>2, SMTT(40) DEF DisableCAS, Goto, rotation
<1>3. ASSUME NEW t \in Threads, NEW f \in Fwdr, IncFailures(t, f) PROVE TypeOK'
  BY <1>3, SMTT(40) DEF IncFailures, Goto, rotation
<1>4. ASSUME NEW t \in Threads, NEW f \in Fwdr, StopChecking(t, f) PROVE TypeOK'
  BY <1>4, SMTT(40) DEF StopChecking, Goto, rotation
<1>5. ASSUME NEW t \in Threads, CompareMax(t) PROVE TypeOK'
  BY <1>5 DEF CompareMax, Goto, rotation, flags
<1>6. ASSUME NEW t \in Threads, ResetFailures(t) PROVE TypeOK'
  BY <1>6 DEF ResetFailures, Goto, rotation
<1>7. ASSUME NEW t \in Threads, onStatusChanged(t) PROVE TypeOK'
  <2>1. arg[t] \in Fwdr
    OBVIOUS
  <2>2. UpdatedAvail(arg[t]) \in Seq(Fwdr)
    BY <2>1, AppendRotation, SwapRemoveRotation DEF UpdatedAvail, NoDuplicates
  <2>3. avail' \in Seq(Fwdr)
    BY <1>7, <2>2, Zenon DEF onStatusChanged
  <2>4. StartInit(t, TRUE) \/ StartInit(t, FALSE) \/ Unlock(t)
    BY <1>7, Zenon DEF onStatusChanged, InitIfEmpty
  <2>5. UNCHANGED <<flags, priority, arg, call, count>>
    BY <1>7 DEF onStatusChanged
  <2>6. CASE Unlock(t)
    <3>1. again' \in BOOLEAN
      BY <2>6, Zenon DEF Unlock
    <3>2. pc' \in [Threads -> Labels] /\ scan' \in 1..(N + 1) /\ lock' = NoThread
      BY <1>0, <2>6 DEF Unlock, Goto
    <3> QED
      BY <2>3, <2>5, <3>1, <3>2, SMTT(20) DEF flags
  <2>7. ASSUME NEW b \in BOOLEAN, StartInit(t, b) PROVE TypeOK'
    <3>1. again' \in BOOLEAN
      BY <2>7, Zenon DEF StartInit
    <3>2. pc' \in [Threads -> Labels] /\ scan' \in 1..(N + 1) /\ lock' \in Threads
      BY <1>0, <2>7 DEF StartInit, Goto
    <3> QED
      BY <2>3, <2>5, <3>1, <3>2, SMTT(20) DEF flags
  <2> QED
    BY <2>4, <2>6, <2>7, Zenon
<1>8. ASSUME NEW t \in Threads, FindPriority(t) PROVE TypeOK'
  <2>0. N \in Nat /\ scan \in 1..(N + 1)
    BY <1>0
  <2>1. scan' \in 1..(N + 1) /\ priority' \in Nat
    <3>1. CASE scan <= N /\ scan' = scan + 1 /\ UNCHANGED priority
      BY <2>0, <3>1
    <3>2. CASE scan <= N /\ scan' = 1 /\ priority' = Pri[fwdrs[scan]]
      BY <1>0, <2>0, <3>2
    <3>3. CASE scan' = 1 /\ UNCHANGED priority
      BY <2>0, <3>3
    <3> QED BY <1>8, <3>1, <3>2, <3>3 DEF FindPriority
  <2>2. avail' \in Seq(Fwdr)
    BY <1>8, EmptySeq, Zenon DEF FindPriority
  <2>3. pc' \in [Threads -> Labels]
    BY <1>8, SMTT(30) DEF FindPriority, Goto
  <2> QED
    BY <1>8, <2>1, <2>2, <2>3, Zenon DEF FindPriority, flags
<1>9. ASSUME NEW t \in Threads, Collect(t) PROVE TypeOK'
  <2>1. fwdrs[scan] \in Fwdr
    BY <1>0, <1>9 DEF Collect
  <2>2. avail' \in Seq(Fwdr)
    BY <1>9, <2>1, AppendRotation DEF Collect
  <2>3. scan' \in 1..(N + 1)
    <3>1. scan \in 1..(N + 1)
      OBVIOUS
    <3>2. scan <= N /\ scan' = scan + 1
      BY <1>9, Zenon DEF Collect
    <3> HIDE DEF TypeOK
    <3> QED
      BY <1>0, <3>1, <3>2
  <2>4. UNCHANGED <<flags, priority, lock, again, pc, arg, call, count>>
    BY <1>9 DEF Collect
  <2> HIDE DEF Labels
  <2> QED
    BY <2>2, <2>3, <2>4, Zenon DEF flags
<1>10. ASSUME NEW t \in Threads, EndInit(t) PROVE TypeOK'
  <2>1. StartInit(t, TRUE) \/ StartInit(t, FALSE) \/ Unlock(t)
    BY <1>10, Zenon DEF EndInit, InitIfEmpty
  <2>2. priority' \in Nat /\ UNCHANGED <<flags, avail, arg, call, count>>
    BY <1>10 DEF EndInit
  <2>3. CASE Unlock(t)
    <3>1. again' \in BOOLEAN
      BY <2>3, Zenon DEF Unlock
    <3>2. pc' \in [Threads -> Labels] /\ scan' \in 1..(N + 1) /\ lock' = NoThread
      BY <1>0, <2>3 DEF Unlock, Goto
    <3> QED
      BY <2>2, <3>1, <3>2, SMTT(20) DEF flags
  <2>4. ASSUME NEW b \in BOOLEAN, StartInit(t, b) PROVE TypeOK'
    <3>1. again' \in BOOLEAN
      BY <2>4, Zenon DEF StartInit
    <3>2. pc' \in [Threads -> Labels] /\ scan' \in 1..(N + 1) /\ lock' \in Threads
      BY <1>0, <2>4 DEF StartInit, Goto
    <3> QED
      BY <2>2, <3>1, <3>2, SMTT(20) DEF flags
  <2> QED
    BY <2>1, <2>3, <2>4, Zenon
<1>11. CASE UNCHANGED vars
  BY <1>11 DEF vars
<1>12. \A t \in Threads : arg[t] \in Fwdr
  OBVIOUS
<1> HIDE DEF TypeOK, Labels
<1>13. ASSUME NEW t \in Threads, Call(t) PROVE TypeOK'
  BY <1>1, <1>2, <1>3, <1>4, <1>13, Zenon DEF Call, Enable, Disable
<1>14. ASSUME NEW t \in Threads, Step(t) PROVE TypeOK'
  BY <1>1, <1>2, <1>5, <1>6, <1>7, <1>8, <1>9, <1>10, <1>12, <1>14, Zenon
  DEF Step, StopCheckingEnable, MaxReached
<1> QED
  BY <1>11, <1>13, <1>14, Zenon DEF Next

-----------------------------------------------------------------------------
(* Steps that touch the flags only. *)

\* Such a step leaves the rotation alone, completes no handler, and leaves a
\* handler due for every forwarder whose flag it flips.
FlagStep ==
  /\ UNCHANGED rotation
  /\ \A f \in Fwdr : Pending(f) => Pending(f)'
  /\ \A f \in Fwdr : disabled'[f] # disabled[f] => Pending(f)'
  /\ \A t \in Threads : Scanning(t) \/ Scanning(t)' => pc'[t] = pc[t]

\* Every step of forward.go is one.
LEMMA IsFlagStep ==
  ASSUME TypeOK, NEW t \in Threads,
         \/ Call(t) \/ StopCheckingEnable(t) \/ CompareMax(t)
         \/ MaxReached(t) \/ ResetFailures(t)
  PROVE  FlagStep
<1> USE DEF TypeOK, Labels, Pending, Scanning, Goto
<1>1. ASSUME NEW f \in Fwdr, EnableCAS(t, f), pc[t] \in {"idle", "enabling"}
      PROVE  FlagStep
  <2>1. \A g \in Fwdr : disabled'[g] # disabled[g] => Pending(g)'
    BY <1>1, Zenon DEF EnableCAS
  <2>2. \A g \in Fwdr : Pending(g) => Pending(g)'
    BY <1>1 DEF EnableCAS
  <2>3. \A u \in Threads : Scanning(u) \/ Scanning(u)' => pc'[u] = pc[u]
    BY <1>1 DEF EnableCAS
  <2>4. UNCHANGED rotation
    BY <1>1 DEF EnableCAS
  <2> QED
    BY <2>1, <2>2, <2>3, <2>4, Zenon DEF FlagStep
<1>2. ASSUME NEW f \in Fwdr, DisableCAS(t, f), pc[t] \in {"idle", "disabling"}
      PROVE  FlagStep
  <2>1. \A g \in Fwdr : disabled'[g] # disabled[g] => Pending(g)'
    BY <1>2, Zenon DEF DisableCAS
  <2>2. \A g \in Fwdr : Pending(g) => Pending(g)'
    BY <1>2 DEF DisableCAS
  <2>3. \A u \in Threads : Scanning(u) \/ Scanning(u)' => pc'[u] = pc[u]
    BY <1>2 DEF DisableCAS
  <2>4. UNCHANGED rotation
    BY <1>2 DEF DisableCAS
  <2> QED
    BY <2>1, <2>2, <2>3, <2>4, Zenon DEF FlagStep
<1>3. ASSUME NEW f \in Fwdr, IncFailures(t, f) PROVE FlagStep
  BY <1>3 DEF IncFailures, FlagStep, rotation
<1>4. ASSUME NEW f \in Fwdr, StopChecking(t, f) PROVE FlagStep
  BY <1>4 DEF StopChecking, FlagStep, rotation
<1>5. CASE CompareMax(t)
  BY <1>5 DEF CompareMax, FlagStep, flags, rotation
<1>6. CASE ResetFailures(t)
  BY <1>6 DEF ResetFailures, FlagStep, rotation
<1>7. arg[t] \in Fwdr
  OBVIOUS
<1> HIDE DEF TypeOK, Labels, Pending, Scanning, Goto
<1>8. CASE Call(t)
  BY <1>1, <1>2, <1>3, <1>4, <1>8 DEF Call, Enable, Disable
<1>9. CASE StopCheckingEnable(t)
  BY <1>1, <1>7, <1>9 DEF StopCheckingEnable
<1>10. CASE MaxReached(t)
  BY <1>2, <1>7, <1>10 DEF MaxReached
<1> QED
  BY <1>5, <1>6, <1>8, <1>9, <1>10

-----------------------------------------------------------------------------
(* The inductive invariant is preserved. *)

\* The slice enumerates the forwarders, and the rotation consists of them.
LEMMA SliceFacts ==
  /\ N \in Nat
  /\ \A i \in 1..N : fwdrs[i] \in Fwdr
  /\ \A f \in Fwdr : Pri[f] \in Nat /\ \E i \in 1..N : fwdrs[i] = f
  /\ \A i, j \in 1..N : fwdrs[i] = fwdrs[j] => i = j
  /\ \A i, j \in 1..N : i < j => Pri[fwdrs[i]] >= Pri[fwdrs[j]]
<1>1. DOMAIN fwdrs = 1..N /\ N \in Nat /\ \A i \in 1..N : fwdrs[i] \in Fwdr
  BY GroupAssumption DEF N
<1> QED
  BY <1>1, GroupAssumption DEF Fwdr, Range, IsInjective

\* No index lies before the first one.
LEMMA NoneBeforeFirst == \A i \in 1..N : ~(i < 1)
BY SliceFacts

\* While init() reads a flag, `scan` is an index of the slice.
LEMMA ScanFacts ==
  ASSUME TypeOK
  PROVE  /\ scan \in Nat
         /\ scan <= N => scan \in 1..N
         /\ \A i \in 1..N : i < scan => i # scan
<1>1. scan \in 1..(N + 1) /\ N \in Nat
  BY SliceFacts, Zenon DEF TypeOK
<1> QED
  BY <1>1

\* The rotation's members are forwarders of the group.
LEMMA AvailFacts == TypeOK => Range(avail) \subseteq Fwdr
BY RangeOfSeq DEF TypeOK

\* The invariant holds of the group newFwdrGroup builds.
LEMMA InitRotationInv == Init => RotationInv
<1> SUFFICES ASSUME Init PROVE RotationInv
  OBVIOUS
<1>1. TypeOK
  BY InitTypeOK
<1>2. Range(avail) = {} /\ IsInjective(avail)
  BY DEF Init, Range, IsInjective
<1>3. \A t \in Threads : pc[t] = "idle" /\ lock # t
  BY GroupAssumption DEF Init
<1>4. \A f \in Fwdr : ~Enabled(f)
  BY DEF Init, Enabled
<1>5. PriorityBound
  <2>1. fwdrs[1] \in Fwdr /\ Pri[fwdrs[1]] \in Nat
    BY GroupAssumption DEF Fwdr, N, Range
  <2>2. priority = 0
    BY DEF Init
  <2> QED
    BY <2>1, <2>2 DEF PriorityBound
<1> QED
  BY <1>1, <1>2, <1>3, <1>4, <1>5
  DEF RotationInv, LockInv, Scanning, NoDuplicates, DisabledLeaves, NoneBelow,
      PassedDisabled, AboveIsPending, EnabledAboveIsPending, CollectedPassed,
      PassedCollected, FoundOrNone, EmptyIsPending, LeftOutIsPending

\* The steps of Enable, Disable, IncFailures and SetMaxFailures keep the
\* invariant: whatever flag they flip, its handler is due.
LEMMA FlagStepKeeps ==
  ASSUME RotationInv, TypeOK', FlagStep
  PROVE  RotationInv'
<1>1. /\ avail' = avail
      /\ priority' = priority
      /\ lock' = lock
      /\ scan' = scan
  BY DEF FlagStep, rotation
<1>2. /\ \A f \in Fwdr : Pending(f) => Pending(f)'
      /\ \A f \in Fwdr : Enabled(f)' => Enabled(f) \/ Pending(f)'
      /\ \A f \in Fwdr : Enabled(f) => Enabled(f)' \/ Pending(f)'
  BY Zenon DEF FlagStep, Enabled, RotationInv, TypeOK
<1>3. \A t \in Threads : /\ pc'[t] = "findPriority" <=> pc[t] = "findPriority"
                         /\ pc'[t] = "collect" <=> pc[t] = "collect"
  BY DEF FlagStep, Scanning
<1>4. \A f : inAvail(f)' <=> inAvail(f)
  BY <1>1 DEF inAvail
<1>5. Range(avail) \subseteq Fwdr /\ \A i \in 1..N : fwdrs[i] \in Fwdr
  BY SliceFacts, AvailFacts DEF RotationInv
<1>6. LockInv'
  BY <1>1, <1>3 DEF RotationInv, LockInv, Scanning
<1>7. NoDuplicates' /\ PriorityBound' /\ NoneBelow'
  BY <1>1 DEF RotationInv, NoDuplicates, PriorityBound, NoneBelow
<1>8. DisabledLeaves'
  BY <1>1, <1>2, <1>5 DEF RotationInv, DisabledLeaves, Enabled
<1>9. PassedDisabled'
  BY <1>1, <1>2, <1>3, <1>5 DEF RotationInv, PassedDisabled
<1>10. AboveIsPending'
  BY <1>1, <1>2, <1>3, <1>5 DEF RotationInv, AboveIsPending
<1>11. EnabledAboveIsPending'
  BY <1>1, <1>2, <1>3 DEF RotationInv, EnabledAboveIsPending
<1>12. CollectedPassed'
  BY <1>1, <1>3 DEF RotationInv, CollectedPassed
<1>13. PassedCollected'
  BY <1>1, <1>2, <1>3, <1>4, <1>5, Zenon DEF RotationInv, PassedCollected
<1>14. FoundOrNone'
  BY <1>1, <1>2, <1>3 DEF RotationInv, FoundOrNone
<1>15. EmptyIsPending'
  BY <1>1, <1>2 DEF RotationInv, EmptyIsPending
<1>16. LeftOutIsPending'
  BY <1>1, <1>2, <1>4 DEF RotationInv, LeftOutIsPending, UniformPriority
<1> QED
  BY <1>6, <1>7, <1>8, <1>9, <1>10, <1>11, <1>12, <1>13, <1>14, <1>15, <1>16
  DEF RotationInv

\* The handler keeps the invariant, both when it appends or removes and when
\* it starts init().
LEMMA onStatusChangedKeeps ==
  ASSUME RotationInv, TypeOK', NEW t \in Threads, onStatusChanged(t)
  PROVE  RotationInv'
<1> DEFINE f == arg[t]
<1>1. /\ f \in Fwdr
      /\ \A g \in Fwdr : Pri[g] \in Nat
      /\ priority \in Nat
      /\ avail \in Seq(Fwdr)
      /\ disabled \in [Fwdr -> BOOLEAN]
      /\ Range(avail) \subseteq Fwdr
      /\ Range(avail') \subseteq Fwdr
  BY SliceFacts, AvailFacts, RangeOfSeq, Zenon DEF RotationInv, TypeOK
<1>2. /\ pc[t] = "handler" /\ lock = NoThread
      /\ priority' = priority /\ disabled' = disabled
      /\ \A g : Enabled(g)' <=> Enabled(g)
  BY Zenon DEF onStatusChanged, flags, Enabled
<1>3. \A u \in Threads : ~Scanning(u)
  BY <1>2, GroupAssumption DEF RotationInv, LockInv
<1>4. /\ arg' = arg
      /\ pc' \in [Threads -> Labels]
      /\ \A u \in Threads : u # t => pc'[u] = pc[u]
  BY Zenon DEF onStatusChanged, StartInit, InitIfEmpty, Unlock, Goto, RotationInv, TypeOK
<1>5. \A g \in Fwdr : g # f /\ Pending(g) => Pending(g)'
  BY <1>4 DEF Pending
<1>6. /\ \A g \in Range(avail) : disabled[g] => Pending(g)
      /\ \A g \in Range(avail) : Pri[g] > priority => Pending(g)
      /\ \A g \in Range(avail) : Pri[g] >= priority
      /\ IsInjective(avail)
  BY <1>3, Zenon DEF RotationInv, DisabledLeaves, AboveIsPending, Scanning, NoneBelow, NoDuplicates
<1>7. PriorityBound'
  BY <1>2 DEF RotationInv, PriorityBound
<1> HIDE DEF f
\* Whenever the handler calls init(), the facts about its loops hold trivially.
<1>8. ASSUME NEW b, StartInit(t, b),
             IsInjective(avail'),
             \A g \in Range(avail') : Pri[g] >= priority,
             \A g \in Range(avail') : disabled[g] => Pending(g)'
      PROVE  RotationInv'
  <2>1. pc'[t] = "findPriority" /\ lock' = t /\ scan' = 1
    BY <1>4, <1>8, Zenon DEF StartInit, Goto, RotationInv, TypeOK
  <2>2. LockInv'
    BY <1>2, <1>3, <1>4, <2>1, GroupAssumption, Zenon DEF LockInv, Scanning
  <2>3. \A u \in Threads : pc'[u] # "collect"
    BY <1>3, <1>4, <2>1 DEF Scanning
  <2>4. lock' # NoThread
    BY <2>1, GroupAssumption
  <2>5. NoDuplicates' /\ NoneBelow' /\ DisabledLeaves'
    BY <1>2, <1>8 DEF NoDuplicates, NoneBelow, DisabledLeaves
  <2>6. PassedDisabled'
    BY <2>1 DEF PassedDisabled
  <2>7. AboveIsPending'
    BY <2>1 DEF AboveIsPending
  <2>8. EmptyIsPending' /\ LeftOutIsPending'
    BY <2>4 DEF EmptyIsPending, LeftOutIsPending
  <2> QED
    BY <1>7, <2>2, <2>3, <2>5, <2>6, <2>7, <2>8, Zenon
    DEF RotationInv, EnabledAboveIsPending, CollectedPassed, PassedCollected, FoundOrNone
<1>9. CASE Enabled(f) /\ Pri[f] > priority
  <2>1. StartInit(t, TRUE) /\ avail' = avail
    BY <1>9, Zenon DEF onStatusChanged, f
  <2>2. \A g \in Range(avail') : disabled[g] => Pending(g)'
    BY <1>1, <1>5, <1>6, <1>9, <2>1 DEF Enabled
  <2> QED
    BY <1>6, <1>8, <2>1, <2>2, Zenon
<1>10. CASE ~(Enabled(f) /\ Pri[f] > priority)
  <2>1. avail' = UpdatedAvail(f) /\ InitIfEmpty(t, avail')
    BY <1>10, Zenon DEF onStatusChanged, f
  <2>2. /\ IsInjective(avail')
        /\ disabled[f] => Range(avail') = Range(avail) \ {f}
        /\ Enabled(f) /\ Pri[f] = priority => Range(avail') = Range(avail) \cup {f}
        /\ Enabled(f) /\ Pri[f] # priority => avail' = avail
    BY <1>1, <1>6, <2>1, AppendRotation, SwapRemoveRotation, SMTT(30)
    DEF UpdatedAvail, inAvail, Enabled
  <2>3. \A g \in Range(avail') : disabled[g] => Pending(g)'
    BY <1>1, <1>5, <1>6, <2>2 DEF Enabled
  <2>4. \A g \in Range(avail') : Pri[g] >= priority
    BY <1>1, <1>6, <2>2 DEF Enabled
  <2>5. \A g \in Range(avail') : Pri[g] > priority => Pending(g)'
    BY <1>1, <1>5, <1>6, <1>10, <2>2 DEF Enabled
  <2>6. CASE avail' = <<>>
    <3>1. StartInit(t, FALSE)
      BY <2>1, <2>6, Zenon DEF InitIfEmpty
    <3> QED
      BY <1>8, <2>2, <2>3, <2>4, <3>1, Zenon
  <2>7. CASE avail' # <<>>
    <3>1. Unlock(t)
      BY <2>1, <2>7 DEF InitIfEmpty
    <3>2. lock' = NoThread /\ pc'[t] \in {"reset", "idle"}
      BY <1>4, <3>1, Zenon DEF Unlock, Goto, RotationInv, TypeOK
    <3>3. \A u \in Threads : ~Scanning(u)'
      BY <1>3, <1>4, <3>2 DEF Scanning
    <3>4. LockInv'
      BY <3>2, <3>3, GroupAssumption DEF LockInv
    <3>5. NoDuplicates' /\ NoneBelow' /\ DisabledLeaves' /\ AboveIsPending'
      BY <1>2, <2>2, <2>3, <2>4, <2>5, Zenon
      DEF NoDuplicates, NoneBelow, DisabledLeaves, AboveIsPending
    <3>6. EmptyIsPending'
      BY <2>7 DEF EmptyIsPending
    <3>7. LeftOutIsPending'
      <4> SUFFICES ASSUME UniformPriority, NEW g \in Fwdr, Enabled(g)
                   PROVE  g \in Range(avail') \/ Pending(g)'
        BY <1>2 DEF LeftOutIsPending, inAvail, UniformPriority
      <4>1. CASE g # f
        BY <1>1, <1>2, <1>5, <2>2, <4>1, Zenon
        DEF RotationInv, LeftOutIsPending, inAvail, Enabled
      <4>2. CASE g = f
        <5>1. Pri[f] >= priority
          BY <1>1, <4>2 DEF RotationInv, PriorityBound, UniformPriority
        <5> QED
          BY <1>1, <1>10, <2>2, <4>2, <5>1
      <4> QED
        BY <4>1, <4>2
    <3> QED
      BY <1>7, <3>3, <3>4, <3>5, <3>6, <3>7, Zenon
      DEF RotationInv, Scanning, PassedDisabled, EnabledAboveIsPending,
          CollectedPassed, PassedCollected, FoundOrNone
  <2> QED
    BY <2>6, <2>7
<1> QED
  BY <1>9, <1>10

\* A step of init() reads flags and completes no handler but its own.
LEMMA ScanStep ==
  ASSUME TypeOK, TypeOK', LockInv, NEW t \in Threads,
         FindPriority(t) \/ Collect(t) \/ EndInit(t)
  PROVE  /\ lock = t /\ lock # NoThread
         /\ disabled' = disabled
         /\ \A f : Enabled(f)' <=> Enabled(f)
         /\ \A f : Pending(f)' <=> Pending(f)
         /\ \A u \in Threads : u # t => ~Scanning(u) /\ pc'[u] = pc[u]
<1>1. Scanning(t) /\ pc[t] # "handler"
  BY Zenon DEF FindPriority, Collect, EndInit, Scanning
<1>2. lock = t /\ lock # NoThread
  BY <1>1, GroupAssumption, Zenon DEF LockInv
<1>3. disabled' = disabled /\ arg' = arg
  BY Zenon DEF FindPriority, Collect, EndInit, flags
<1>4. pc'[t] # "handler" /\ \A u \in Threads : u # t => pc'[u] = pc[u]
  BY <1>1, Zenon DEF FindPriority, Collect, EndInit, InitIfEmpty, StartInit, Unlock, Goto, TypeOK
<1>5. \A u \in Threads : u # t => ~Scanning(u)
  BY <1>2 DEF LockInv
<1> QED
  BY <1>1, <1>2, <1>3, <1>4, <1>5, Zenon DEF Enabled, Pending

\* A flag read of the first loop of init() keeps the invariant.
LEMMA FindPriorityKeeps ==
  ASSUME RotationInv, TypeOK', NEW t \in Threads, FindPriority(t)
  PROVE  RotationInv'
<1>1. /\ pc[t] = "findPriority" /\ lock' = lock
      /\ scan \in Nat /\ priority \in Nat
  <2>1. scan \in Nat
    BY ScanFacts, Zenon DEF RotationInv
  <2> QED
    BY <2>1, Zenon DEF FindPriority, RotationInv, TypeOK
<1>2. /\ lock = t /\ lock # NoThread
      /\ disabled' = disabled
      /\ \A f : Enabled(f)' <=> Enabled(f)
      /\ \A f : Pending(f)' <=> Pending(f)
      /\ \A u \in Threads : u # t => ~Scanning(u) /\ pc'[u] = pc[u]
  BY ScanStep, Zenon DEF RotationInv
<1>3. EmptyIsPending' /\ LeftOutIsPending'
  BY <1>1, <1>2, Zenon DEF EmptyIsPending, LeftOutIsPending
<1>4. \A i \in 1..N : i < scan /\ Enabled(fwdrs[i]) => Pending(fwdrs[i])
  BY <1>1 DEF RotationInv, PassedDisabled
<1>5. CASE scan <= N /\ disabled[fwdrs[scan]] /\ scan' = scan + 1
           /\ UNCHANGED <<avail, priority, pc>>
  <2>1. PassedDisabled'
    <3> SUFFICES ASSUME NEW i \in 1..N, i < scan + 1, Enabled(fwdrs[i])
                 PROVE  Pending(fwdrs[i])
      BY <1>2, <1>5, Zenon DEF PassedDisabled
    <3>1. i # scan
      BY <1>5 DEF Enabled
    <3>2. i < scan
      BY <1>1, <3>1, SliceFacts
    <3> QED
      BY <1>4, <3>2
  <2>2. LockInv'
    BY <1>1, <1>5 DEF RotationInv, LockInv, Scanning
  <2>3. NoDuplicates' /\ PriorityBound' /\ NoneBelow' /\ DisabledLeaves'
    BY <1>2, <1>5, Zenon DEF RotationInv, NoDuplicates, PriorityBound, NoneBelow, DisabledLeaves
  <2>4. AboveIsPending'
    BY <1>1, <1>5, Zenon DEF AboveIsPending
  <2>5. \A u \in Threads : pc'[u] # "collect"
    BY <1>1, <1>2, <1>5 DEF Scanning
  <2> QED
    BY <1>3, <2>1, <2>2, <2>3, <2>4, <2>5, Zenon
    DEF RotationInv, EnabledAboveIsPending, CollectedPassed, PassedCollected, FoundOrNone
\* The first loop ends: either it found a forwarder or it passed all of them.
<1>6. ASSUME avail' = <<>>, scan' = 1, Goto(t, "collect"),
             PriorityBound',
             \A f \in Fwdr : Enabled(f) /\ Pri[f] > priority' => Pending(f),
             \/ \A f \in Fwdr : Enabled(f) => Pending(f)
             \/ \E f \in Fwdr : Pri[f] >= priority' /\ (Enabled(f) \/ Pending(f))
      PROVE  RotationInv'
  <2>1. pc'[t] = "collect" /\ Range(avail') = {} /\ IsInjective(avail')
    BY <1>6, SMTT(30) DEF Goto, RotationInv, TypeOK, Range, IsInjective
  <2>2. LockInv'
    BY <1>1, <1>2, <2>1, Zenon DEF LockInv, Scanning
  <2>3. NoDuplicates' /\ NoneBelow' /\ DisabledLeaves' /\ AboveIsPending' /\ CollectedPassed'
    BY <2>1 DEF NoDuplicates, NoneBelow, DisabledLeaves, AboveIsPending, CollectedPassed
  <2>4. PassedDisabled'
    BY <1>2, <2>1, Zenon DEF PassedDisabled, Scanning
  <2>5. PassedCollected'
    <3>1. \A i \in 1..N : ~(i < scan')
      BY <1>6, NoneBeforeFirst, Zenon
    <3> QED
      BY <3>1, Zenon DEF PassedCollected
  <2>6. EnabledAboveIsPending' /\ FoundOrNone'
    BY <1>2, <1>6, Zenon DEF EnabledAboveIsPending, FoundOrNone
  <2> QED
    BY <1>3, <1>6, <2>2, <2>3, <2>4, <2>5, <2>6 DEF RotationInv
<1>7. CASE scan <= N /\ Enabled(fwdrs[scan]) /\ priority' = Pri[fwdrs[scan]]
           /\ avail' = <<>> /\ scan' = 1 /\ Goto(t, "collect")
  <2>1. scan \in 1..N /\ fwdrs[scan] \in Fwdr /\ Pri[fwdrs[scan]] \in Nat
    BY <1>7, SliceFacts, SMTT(30) DEF RotationInv, TypeOK
  <2>2. PriorityBound'
    BY <1>7, <2>1 DEF PriorityBound
  <2>3. ASSUME NEW f \in Fwdr, Enabled(f), Pri[f] > priority'
        PROVE  Pending(f)
    <3>1. PICK i \in 1..N : fwdrs[i] = f
      BY SliceFacts
    <3>2. i < scan
      BY <1>7, <2>1, <2>3, <3>1, SliceFacts, SMTT(30)
    <3> QED
      BY <1>4, <2>3, <3>1, <3>2
  <2>4. \E f \in Fwdr : Pri[f] >= priority' /\ (Enabled(f) \/ Pending(f))
    BY <1>7, <2>1, SMTT(30)
  <2> QED
    BY <1>6, <1>7, <2>2, <2>3, <2>4, Zenon
<1>8. CASE scan > N /\ avail' = <<>> /\ scan' = 1 /\ Goto(t, "collect")
           /\ UNCHANGED priority
  <2>1. \A f \in Fwdr : Enabled(f) => Pending(f)
    <3>1. \A i \in 1..N : i < scan
      BY <1>1, <1>8, SliceFacts
    <3>2. \A i \in 1..N : Enabled(fwdrs[i]) => Pending(fwdrs[i])
      BY <1>4, <3>1
    <3> QED BY <3>2, SliceFacts, Zenon
  <2>2. PriorityBound'
    BY <1>8 DEF RotationInv, PriorityBound
  <2> QED
    BY <1>6, <1>8, <2>1, <2>2
<1> QED
  BY <1>5, <1>7, <1>8, Zenon DEF FindPriority

\* A flag read of the second loop of init() keeps the invariant.
LEMMA CollectKeeps ==
  ASSUME RotationInv, TypeOK', NEW t \in Threads, Collect(t)
  PROVE  RotationInv'
<1> DEFINE f == fwdrs[scan]
<1>1. /\ pc[t] = "collect" /\ scan <= N
      /\ avail' = IF Enabled(f) /\ Pri[f] >= priority THEN Append(avail, f) ELSE avail
      /\ scan' = scan + 1 /\ UNCHANGED <<priority, lock, pc>>
  BY Zenon DEF Collect
<1>2. /\ lock # NoThread
      /\ disabled' = disabled
      /\ \A g : Enabled(g)' <=> Enabled(g)
      /\ \A g : Pending(g)' <=> Pending(g)
      /\ \A u \in Threads : u # t => ~Scanning(u)
  BY ScanStep, Zenon DEF RotationInv
<1>3. /\ scan \in 1..N /\ f \in Fwdr
      /\ avail \in Seq(Fwdr) /\ priority \in Nat
      /\ Range(avail) \subseteq Fwdr
  <2>1. TypeOK /\ Range(avail) \subseteq Fwdr
    BY AvailFacts DEF RotationInv
  <2>2. scan \in 1..N /\ avail \in Seq(Fwdr) /\ priority \in Nat
    BY <1>1, <2>1, ScanFacts, Zenon DEF TypeOK
  <2> QED
    BY <2>1, <2>2, SliceFacts, Zenon
<1>4. \A g \in Range(avail) : \E i \in 1..N : i < scan /\ fwdrs[i] = g
  BY <1>1, Zenon DEF RotationInv, CollectedPassed
<1>5. f \notin Range(avail)
  <2>1. \A i \in 1..N : i < scan => i # scan
    BY ScanFacts, Zenon DEF RotationInv
  <2>2. \A i \in 1..N : fwdrs[i] = fwdrs[scan] => i = scan
    BY <1>3, SliceFacts, Zenon
  <2> QED
    BY <1>4, <2>1, <2>2, Zenon
<1> HIDE DEF f
<1>6. /\ IsInjective(avail')
      /\ Range(avail') = IF Enabled(f) /\ Pri[f] >= priority
                         THEN Range(avail) \cup {f} ELSE Range(avail)
  <2>1. avail \in Seq(Fwdr) /\ IsInjective(avail)
    BY <1>3 DEF RotationInv, NoDuplicates
  <2>2. CASE Enabled(f) /\ Pri[f] >= priority
    <3>1. avail' = Append(avail, f)
      BY <1>1, <2>2
    <3>2. /\ Range(Append(avail, f)) = Range(avail) \cup {f}
          /\ IsInjective(Append(avail, f))
      BY <1>3, <1>5, <2>1, AppendRotation
    <3> QED
      BY <2>2, <3>1, <3>2
  <2>3. CASE ~(Enabled(f) /\ Pri[f] >= priority)
    BY <1>1, <2>1, <2>3
  <2> QED
    BY <2>2, <2>3
<1>7. NoDuplicates' /\ PriorityBound' /\ NoneBelow' /\ DisabledLeaves'
  BY <1>1, <1>2, <1>6, Zenon
  DEF RotationInv, NoDuplicates, PriorityBound, NoneBelow, DisabledLeaves, Enabled
<1>8. LockInv'
  BY <1>1 DEF RotationInv, LockInv, Scanning
<1>9. EnabledAboveIsPending' /\ FoundOrNone'
  BY <1>1, <1>2, Zenon DEF RotationInv, EnabledAboveIsPending, FoundOrNone
<1>10. AboveIsPending'
  <2>1. \A g \in Range(avail) : Pri[g] > priority => Pending(g)
    BY <1>1, <1>2 DEF RotationInv, AboveIsPending, Scanning
  <2>2. Enabled(f) /\ Pri[f] > priority => Pending(f)
    BY <1>1, <1>3 DEF RotationInv, EnabledAboveIsPending
  <2> QED
    BY <1>1, <1>2, <1>6, <2>1, <2>2 DEF AboveIsPending
<1>11. CollectedPassed'
  <2> SUFFICES ASSUME NEW g \in Range(avail')
               PROVE  \E i \in 1..N : i < scan + 1 /\ fwdrs[i] = g
    BY <1>1 DEF CollectedPassed
  <2>1. CASE g = f
    BY <1>3, <2>1 DEF f
  <2>2. CASE g \in Range(avail)
    BY <1>3, <1>4, <2>2
  <2> QED
    BY <1>6, <2>1, <2>2, Zenon
<1>12. PassedCollected'
  <2> SUFFICES ASSUME NEW i \in 1..N, i < scan + 1, Enabled(fwdrs[i]),
                      Pri[fwdrs[i]] >= priority
               PROVE  fwdrs[i] \in Range(avail') \/ Pending(fwdrs[i])
    BY <1>1, <1>2, Zenon DEF PassedCollected, inAvail
  <2>1. CASE i = scan
    BY <1>6, <2>1, Zenon DEF f
  <2>2. CASE i < scan
    BY <1>1, <1>6, <2>2, Zenon DEF RotationInv, PassedCollected, inAvail
  <2> QED
    BY <1>3, <2>1, <2>2, SMTT(30)
<1>13. PassedDisabled'
  BY <1>1, <1>2, Zenon DEF PassedDisabled, Scanning
<1>14. EmptyIsPending' /\ LeftOutIsPending'
  BY <1>1, <1>2 DEF EmptyIsPending, LeftOutIsPending
<1> QED
  BY <1>7, <1>8, <1>9, <1>10, <1>11, <1>12, <1>13, <1>14 DEF RotationInv

\* The end of init() keeps the invariant.
LEMMA EndInitKeeps ==
  ASSUME RotationInv, TypeOK', NEW t \in Threads, EndInit(t)
  PROVE  RotationInv'
<1>1. /\ pc[t] = "collect" /\ scan > N
      /\ priority' = IF avail = <<>> THEN 0 ELSE priority
      /\ avail' = avail
      /\ (avail = <<>> /\ StartInit(t, FALSE)) \/ Unlock(t)
  BY Zenon DEF EndInit, InitIfEmpty
<1>2. /\ disabled' = disabled
      /\ \A g : Enabled(g)' <=> Enabled(g)
      /\ \A g : Pending(g)' <=> Pending(g)
      /\ \A u \in Threads : u # t => ~Scanning(u) /\ pc'[u] = pc[u]
  BY ScanStep, Zenon DEF RotationInv
<1>3. scan \in Nat /\ priority \in Nat /\ Range(avail) \subseteq Fwdr
  <2>1. TypeOK /\ Range(avail) \subseteq Fwdr
    BY AvailFacts DEF RotationInv
  <2> QED
    BY <2>1, SliceFacts, SMTT(30) DEF TypeOK
<1>4. avail = <<>> => Range(avail) = {}
  BY DEF Range
<1>5. NoDuplicates' /\ DisabledLeaves'
  BY <1>1, <1>2, Zenon DEF RotationInv, NoDuplicates, DisabledLeaves
<1>6. PriorityBound' /\ NoneBelow'
  BY <1>1, <1>4, SliceFacts, SMTT(30) DEF RotationInv, PriorityBound, NoneBelow
<1>7. AboveIsPending'
  <2>1. \A g \in Range(avail) : Pri[g] > priority => Pending(g)
    BY <1>1, <1>2, Zenon DEF RotationInv, AboveIsPending, Scanning
  <2> QED
    BY <1>1, <1>2, <1>4, <2>1, Zenon DEF AboveIsPending
\* The second loop has passed the whole slice.
<1>8. \A f \in Fwdr : Enabled(f) /\ Pri[f] >= priority => inAvail(f) \/ Pending(f)
  <2> SUFFICES ASSUME NEW f \in Fwdr, Enabled(f), Pri[f] >= priority
               PROVE  inAvail(f) \/ Pending(f)
    OBVIOUS
  <2>1. PICK i \in 1..N : fwdrs[i] = f
    BY SliceFacts
  <2>2. i < scan
    BY <1>1, <1>3, SliceFacts, SMTT(30)
  <2> QED
    BY <1>1, <2>1, <2>2, Zenon DEF RotationInv, PassedCollected
<1>9. CASE avail = <<>> /\ StartInit(t, FALSE)
  <2>1. pc'[t] = "findPriority" /\ lock' = t /\ scan' = 1 /\ lock' # NoThread
    BY <1>9, GroupAssumption, Zenon DEF StartInit, Goto, RotationInv, TypeOK
  <2>2. LockInv'
    BY <1>2, <2>1, Zenon DEF LockInv, Scanning
  <2>3. \A u \in Threads : pc'[u] # "collect"
    BY <1>2, <2>1, Zenon DEF Scanning
  <2>4. PassedDisabled' /\ EmptyIsPending' /\ LeftOutIsPending'
    BY <2>1 DEF PassedDisabled, EmptyIsPending, LeftOutIsPending
  <2> QED
    BY <1>5, <1>6, <1>7, <2>2, <2>3, <2>4, Zenon
    DEF RotationInv, EnabledAboveIsPending, CollectedPassed, PassedCollected, FoundOrNone
<1>10. CASE Unlock(t)
  <2>1. lock' = NoThread /\ pc'[t] \in {"reset", "idle"}
    BY <1>10, Zenon DEF Unlock, Goto, RotationInv, TypeOK
  <2>2. \A u \in Threads : ~Scanning(u)'
    BY <1>2, <2>1 DEF Scanning
  <2>3. LockInv'
    BY <2>1, <2>2, GroupAssumption DEF LockInv
  <2>4. EmptyIsPending'
    <3> SUFFICES ASSUME avail = <<>>, NEW f \in Fwdr, Enabled(f)
                 PROVE  \E g \in Fwdr : Pending(g)
      BY <1>1, <1>2, Zenon DEF EmptyIsPending
    <3>1. CASE \A g \in Fwdr : Enabled(g) => Pending(g)
      BY <3>1
    <3>2. CASE \E g \in Fwdr : Pri[g] >= priority /\ (Enabled(g) \/ Pending(g))
      BY <1>4, <1>8, <3>2 DEF inAvail
    <3> QED
      BY <1>1, <3>1, <3>2 DEF RotationInv, FoundOrNone
  <2>5. LeftOutIsPending'
    <3> SUFFICES ASSUME UniformPriority, NEW f \in Fwdr, Enabled(f)
                 PROVE  inAvail(f) \/ Pending(f)
      BY <1>1, <1>2, Zenon DEF LeftOutIsPending, inAvail, UniformPriority
    <3>1. Pri[f] >= priority
      BY SliceFacts, Zenon DEF RotationInv, PriorityBound, UniformPriority
    <3> QED
      BY <1>8, <3>1
  <2> QED
    BY <1>5, <1>6, <1>7, <2>2, <2>3, <2>4, <2>5, Zenon
    DEF RotationInv, Scanning, PassedDisabled, EnabledAboveIsPending,
        CollectedPassed, PassedCollected, FoundOrNone
<1> QED
  BY <1>1, <1>9, <1>10, Zenon

\* Every step of the group keeps the invariant.
LEMMA NextRotationInv == RotationInv /\ [Next]_vars => RotationInv'
<1> SUFFICES ASSUME RotationInv, [Next]_vars PROVE RotationInv'
  OBVIOUS
<1>1. TypeOK /\ TypeOK'
  BY NextTypeOK DEF RotationInv
<1>2. CASE UNCHANGED vars
  <2>1. FlagStep
    BY <1>2, Zenon DEF vars, FlagStep, rotation, Pending, Scanning
  <2> QED
    BY <1>1, <2>1, FlagStepKeeps
<1>3. ASSUME NEW t \in Threads, Call(t) \/ Step(t) PROVE RotationInv'
  <2>1. CASE \/ Call(t) \/ StopCheckingEnable(t) \/ CompareMax(t)
             \/ MaxReached(t) \/ ResetFailures(t)
    BY <1>1, <2>1, IsFlagStep, FlagStepKeeps
  <2>2. CASE onStatusChanged(t)
    BY <1>1, <2>2, onStatusChangedKeeps
  <2>3. CASE FindPriority(t)
    BY <1>1, <2>3, FindPriorityKeeps
  <2>4. CASE Collect(t)
    BY <1>1, <2>4, CollectKeeps
  <2>5. CASE EndInit(t)
    BY <1>1, <2>5, EndInitKeeps
  <2> QED
    BY <1>3, <2>1, <2>2, <2>3, <2>4, <2>5 DEF Step
<1> QED
  BY <1>2, <1>3 DEF Next

-----------------------------------------------------------------------------
(* The theorems. *)

\* The inductive invariant holds in every reachable state of the group.
LEMMA RotationInvariant == Spec => []RotationInv
<1> QED
  BY InitRotationInv, NextRotationInv, PTL DEF Spec

\* Every variable of the group keeps its type.
THEOREM TypeCorrect == Spec => []TypeOK
<1>1. RotationInv => TypeOK
  BY DEF RotationInv
<1> QED
  BY <1>1, RotationInvariant, PTL

\* However Enable and Disable interleave with their handlers, the rotation
\* never lists a forwarder twice (group.go, onStatusChanged and init).
THEOREM NeverDuplicated == Spec => []NoDuplicates
<1>1. RotationInv => NoDuplicates
  BY DEF RotationInv
<1> QED
  BY <1>1, RotationInvariant, PTL

\* A forwarder that was disabled leaves the rotation when the handlers due for
\* it have run (group.go, onStatusChanged).
THEOREM DisabledForwardersLeave == Spec => []DisabledLeaves
<1>1. RotationInv => DisabledLeaves
  BY DEF RotationInv
<1> QED
  BY <1>1, RotationInvariant, PTL

\* With no handler due the rotation is one tier, that of the active priority.
THEOREM RotationIsOneTier == Spec => []OneTier
<1>1. RotationInv => OneTier
  <2> SUFFICES ASSUME RotationInv, Quiescent, NEW f \in Range(avail)
               PROVE  Pri[f] = priority
    BY DEF OneTier
  <2>1. f \in Fwdr /\ Pri[f] \in Nat /\ priority \in Nat
    BY AvailFacts, SliceFacts, Zenon DEF RotationInv, TypeOK
  <2>2. \A t \in Threads : pc[t] # "findPriority"
    BY GroupAssumption, Zenon DEF RotationInv, LockInv, Scanning, Quiescent
  <2>3. ~(Pri[f] > priority)
    BY <2>1, <2>2 DEF RotationInv, AboveIsPending, Quiescent
  <2>4. Pri[f] >= priority
    BY DEF RotationInv, NoneBelow
  <2> QED
    BY <2>1, <2>3, <2>4
<1> QED
  BY <1>1, RotationInvariant, PTL

\* With no handler due an empty rotation means that every forwarder is
\* disabled: the fall-back of nextDialer is taken only then.
THEOREM EmptyRotation == Spec => []EmptyMeansNoneEnabled
<1>1. RotationInv => EmptyMeansNoneEnabled
  BY DEF RotationInv, TypeOK, EmptyMeansNoneEnabled, EmptyIsPending, Quiescent, Enabled
<1> QED
  BY <1>1, RotationInvariant, PTL

\* With a single priority in use and no handler due, the rotation is exactly
\* the set of enabled forwarders.
THEOREM UniformRotation == Spec => []RotationExact
<1>1. RotationInv => RotationExact
  <2> SUFFICES ASSUME RotationInv, UniformPriority, Quiescent
               PROVE  Range(avail) = {f \in Fwdr : Enabled(f)}
    BY DEF RotationExact
  <2>1. \A f \in Fwdr : Enabled(f) => f \in Range(avail)
    BY DEF RotationInv, LeftOutIsPending, Quiescent, inAvail
  <2>2. \A f \in Range(avail) : f \in Fwdr /\ Enabled(f)
    BY AvailFacts DEF RotationInv, DisabledLeaves, Quiescent, Enabled
  <2> QED
    BY <2>1, <2>2
<1> QED
  BY <1>1, RotationInvariant, PTL

-----------------------------------------------------------------------------
(* The failure limit. *)

\* A counter that reaches maxfailures leaves its goroutine acting on it, and no
\* step ends that before the forwarder is disabled or its counter cleared.
LEMMA NextLimitNoticed == TypeOK /\ LimitNoticed /\ [Next]_vars => LimitNoticed'
<1> SUFFICES ASSUME TypeOK, LimitNoticed, [Next]_vars,
                    NEW f \in Fwdr, AtLimit(f)'
             PROVE  \E u \in Threads : ActsOnLimit(u, f)'
  BY DEF LimitNoticed
<1> USE DEF TypeOK, Labels, Goto
\* A goroutine that already acts on the limit is found in the state before.
<1>1. AtLimit(f) => \E u \in Threads : ActsOnLimit(u, f)
  BY DEF LimitNoticed
<1>2. ASSUME NEW t \in Threads, NEW g \in Fwdr, EnableCAS(t, g) PROVE ActsOnLimit(t, g)'
  BY <1>2, Zenon DEF EnableCAS, ActsOnLimit
<1>3. ASSUME NEW t \in Threads, NEW g \in Fwdr, EnableCAS(t, g),
             pc[t] \in {"idle", "enabling"}
      PROVE  \E u \in Threads : ActsOnLimit(u, f)'
  <2>1. CASE g = f
    BY <1>2, <1>3, <2>1, Zenon
  <2>2. CASE g # f
    <3>1. AtLimit(f)
      BY <1>3, <2>2, Zenon DEF EnableCAS, AtLimit, Enabled
    <3>2. PICK u \in Threads : ActsOnLimit(u, f)
      BY <1>1, <3>1
    <3>3. u # t
      BY <1>3, <3>2, Zenon DEF ActsOnLimit
    <3> QED
      BY <1>3, <3>2, <3>3, Zenon DEF EnableCAS, ActsOnLimit
  <2> QED
    BY <2>1, <2>2, Zenon
<1>4. ASSUME NEW t \in Threads, NEW g \in Fwdr, DisableCAS(t, g),
             pc[t] = "idle" \/ (pc[t] = "disabling" /\ g = arg[t])
      PROVE  \E u \in Threads : ActsOnLimit(u, f)'
  <2>1. g # f /\ AtLimit(f)
    BY <1>4, Zenon DEF DisableCAS, AtLimit, Enabled
  <2>2. PICK u \in Threads : ActsOnLimit(u, f)
    BY <1>1, <2>1
  <2>3. u # t
    BY <1>4, <2>1, <2>2, Zenon DEF ActsOnLimit
  <2> QED
    BY <1>4, <2>2, <2>3, Zenon DEF DisableCAS, ActsOnLimit
<1>5. ASSUME NEW t \in Threads, NEW g \in Fwdr, IncFailures(t, g)
      PROVE  \E u \in Threads : ActsOnLimit(u, f)'
  <2>1. CASE AtLimit(f)
    <3>1. PICK u \in Threads : ActsOnLimit(u, f)
      BY <1>1, <2>1
    <3>2. u # t
      BY <1>5, <3>1 DEF IncFailures, ActsOnLimit
    <3> QED
      BY <1>5, <3>1, <3>2, Zenon DEF IncFailures, ActsOnLimit
  <2>2. CASE ~AtLimit(f)
    <3>1. g = f /\ failures[f] + 1 = maxFailures[f]
      BY <1>5, <2>2, SMTT(30) DEF IncFailures, AtLimit, Enabled
    <3> QED
      BY <1>5, <3>1, Zenon DEF IncFailures, ActsOnLimit
  <2> QED
    BY <2>1, <2>2
<1>6. ASSUME NEW t \in Threads, NEW g \in Fwdr, StopChecking(t, g)
      PROVE  \E u \in Threads : ActsOnLimit(u, f)'
  <2>1. g # f /\ AtLimit(f)
    BY <1>6, Zenon DEF StopChecking, AtLimit, Enabled
  <2>2. PICK u \in Threads : ActsOnLimit(u, f)
    BY <1>1, <2>1
  <2>3. u # t
    BY <1>6, <2>2, Zenon DEF StopChecking, ActsOnLimit
  <2> QED
    BY <1>6, <2>1, <2>2, <2>3, Zenon DEF StopChecking, ActsOnLimit
<1>7. ASSUME NEW t \in Threads, CompareMax(t)
      PROVE  \E u \in Threads : ActsOnLimit(u, f)'
  <2>1. AtLimit(f) /\ maxFailures[f] # 0
    BY <1>7, Zenon DEF CompareMax, flags, AtLimit, Enabled
  <2>2. PICK u \in Threads : ActsOnLimit(u, f)
    BY <1>1, <2>1, Zenon
  <2>3. CASE u = t
    BY <1>7, <2>1, <2>2, <2>3, Zenon DEF CompareMax, ActsOnLimit
  <2>4. CASE u # t
    BY <1>7, <2>2, <2>4, Zenon DEF CompareMax, flags, ActsOnLimit
  <2> QED
    BY <2>3, <2>4
<1>8. ASSUME NEW t \in Threads, ResetFailures(t)
      PROVE  \E u \in Threads : ActsOnLimit(u, f)'
  <2>1. arg[t] # f /\ AtLimit(f)
    BY <1>8, SMTT(30) DEF ResetFailures, AtLimit, Enabled
  <2>2. PICK u \in Threads : ActsOnLimit(u, f)
    BY <1>1, <2>1
  <2> QED
    BY <1>8, <2>1, <2>2, Zenon DEF ResetFailures, ActsOnLimit
<1>9. ASSUME NEW t \in Threads,
             onStatusChanged(t) \/ FindPriority(t) \/ Collect(t) \/ EndInit(t)
      PROVE  \E u \in Threads : ActsOnLimit(u, f)'
  <2>1. /\ UNCHANGED <<flags, arg, call, count>>
        /\ pc[t] \in {"handler", "findPriority", "collect"}
        /\ \A u \in Threads : u # t => pc'[u] = pc[u]
        /\ \/ pc'[t] \in {"findPriority", "collect"}
           \/ pc'[t] = IF call[t] = "Enable" THEN "reset" ELSE "idle"
    BY <1>9, Zenon DEF onStatusChanged, FindPriority, Collect, EndInit, InitIfEmpty, StartInit, Unlock
  <2>2. AtLimit(f)
    BY <2>1, Zenon DEF flags, AtLimit, Enabled
  <2>3. PICK u \in Threads : ActsOnLimit(u, f)
    BY <1>1, <2>2
  <2> QED
    BY <2>1, <2>3, Zenon DEF ActsOnLimit, flags
<1>10. CASE UNCHANGED vars
  BY <1>1, <1>10, Zenon DEF vars, AtLimit, Enabled, ActsOnLimit
<1>11. \A t \in Threads : arg[t] \in Fwdr
  OBVIOUS
<1> HIDE DEF TypeOK, Labels, Goto
<1>12. ASSUME NEW t \in Threads, Call(t) PROVE \E u \in Threads : ActsOnLimit(u, f)'
  BY <1>3, <1>4, <1>5, <1>6, <1>12, Zenon DEF Call, Enable, Disable
<1>13. ASSUME NEW t \in Threads, Step(t) PROVE \E u \in Threads : ActsOnLimit(u, f)'
  BY <1>3, <1>4, <1>7, <1>8, <1>9, <1>11, <1>13, Zenon
  DEF Step, StopCheckingEnable, MaxReached
<1> QED
  BY <1>10, <1>12, <1>13 DEF Next

\* However failures are counted, cleared and compared, an enabled forwarder
\* whose counter stands at or above maxfailures has a goroutine about to disable
\* it or to clear the counter (forward.go, IncFailures and Enable).
THEOREM LimitIsNoticed == Spec => []LimitNoticed
<1>1. Init => LimitNoticed
  BY DEF Init, LimitNoticed, AtLimit, Enabled
<1> QED
  BY <1>1, NextLimitNoticed, TypeCorrect, PTL DEF Spec

-----------------------------------------------------------------------------
\* The Dials of a group.

DialTypes ==
  /\ config \in Configs
  /\ dialing \in [Threads -> {"no", "attempt", "failed"}]
  /\ tried \in [Threads -> Nat]
  /\ elapsed \in [Threads -> Nat]
  /\ lastCost \in [Threads -> Nat]
  /\ steady \in [Threads -> BOOLEAN]

\* While a retry is under way there is room for another attempt like the last;
\* the first attempt of a Dial starts the clock.
RoomFor(t) ==
  /\ tried[t] = 0 <=> dialing[t] = "no"
  /\ dialing[t] = "attempt" /\ tried[t] > 1 /\ config.dialBudget > 0
       => elapsed[t] + lastCost[t] < config.dialBudget
  /\ dialing[t] = "no" => elapsed[t] = 0 /\ lastCost[t] = 0

BudgetInv == DialTypes /\ FitsBudget /\ \A t \in Threads : RoomFor(t)

-----------------------------------------------------------------------------

\* The budget is a number of seconds.
LEMMA BudgetFacts == ASSUME DialTypes PROVE config.dialBudget \in Nat
  BY DialAssumption DEF DialTypes

\* Nobody dials at first.
LEMMA InitBudget == DialInit => BudgetInv
<1> SUFFICES ASSUME DialInit PROVE BudgetInv
  OBVIOUS
<1>1. DialTypes
  BY DEF DialInit, DialTypes
<1>2. QED BY <1>1 DEF DialInit, BudgetInv, FitsBudget, RoomFor

\* Steps that are not of a Dial: status changes and health checks.
LEMMA OthersBudget ==
  ASSUME BudgetInv, UNCHANGED <<config, dialVars>>
  PROVE  BudgetInv'
  BY Zenon DEF BudgetInv, DialTypes, FitsBudget, RoomFor, dialVars

\* Dial returns and its clock is gone.
LEMMA ReturnBudget ==
  ASSUME BudgetInv, UNCHANGED config, NEW t \in Threads, Return(t)
  PROVE  BudgetInv'
<1>1. DialTypes'
  BY DEF BudgetInv, DialTypes, Return
<1>2. ASSUME NEW u \in Threads
      PROVE  RoomFor(u)' /\ (config'.dialBudget > 0 /\ tried'[u] > 1 /\ steady'[u]
                               => elapsed'[u] < config'.dialBudget)
  <2>1. CASE u = t
    BY <2>1, Zenon DEF BudgetInv, DialTypes, Return, RoomFor
  <2>2. CASE u # t
    BY <2>2, Zenon DEF BudgetInv, DialTypes, Return, RoomFor, FitsBudget
  <2>3. QED BY <2>1, <2>2, Zenon
<1>3. QED BY <1>1, <1>2, Zenon DEF BudgetInv, FitsBudget

\* The first attempt: nothing has been spent.
LEMMA StartBudget ==
  ASSUME BudgetInv, UNCHANGED config, NEW t \in Threads, StartDial(t)
  PROVE  BudgetInv'
<1>1. DialTypes'
  BY Zenon DEF BudgetInv, DialTypes, StartDial
<1>2. ASSUME NEW u \in Threads
      PROVE  RoomFor(u)' /\ (config'.dialBudget > 0 /\ tried'[u] > 1 /\ steady'[u]
                               => elapsed'[u] < config'.dialBudget)
  <2>1. CASE u = t
    BY <2>1, SMTT(30) DEF BudgetInv, DialTypes, StartDial, RoomFor
  <2>2. CASE u # t
    BY <2>2, Zenon DEF BudgetInv, DialTypes, StartDial, RoomFor, FitsBudget
  <2>3. QED BY <2>1, <2>2, Zenon
<1>3. QED BY <1>1, <1>2, Zenon DEF BudgetInv, FitsBudget

\* An attempt that was not slower than the last has used the room it had.
LEMMA FailBudget ==
  ASSUME BudgetInv, UNCHANGED config, NEW t \in Threads, NEW cost \in Costs,
         AttemptFails(t, cost)
  PROVE  BudgetInv'
<1>1. cost \in Nat /\ config.dialBudget \in Nat
  BY DialAssumption, BudgetFacts DEF BudgetInv
<1>2. DialTypes'
  <2>1. steady' \in [Threads -> BOOLEAN]
    BY Zenon DEF BudgetInv, DialTypes, AttemptFails
  <2>2. dialing' \in [Threads -> {"no", "attempt", "failed"}]
    BY Zenon DEF BudgetInv, DialTypes, AttemptFails
  <2>3. elapsed' \in [Threads -> Nat] /\ lastCost' \in [Threads -> Nat]
    BY <1>1, SMTT(30) DEF BudgetInv, DialTypes, AttemptFails
  <2>4. QED BY <2>1, <2>2, <2>3, Zenon DEF BudgetInv, DialTypes, AttemptFails
<1>3. dialing[t] = "attempt" /\ tried' = tried
  BY Zenon DEF AttemptFails
<1>4. steady'[t] /\ tried[t] > 1 => steady[t] /\ cost <= lastCost[t]
  BY Zenon DEF BudgetInv, DialTypes, AttemptFails
<1>5. /\ elapsed'[t] = elapsed[t] + cost /\ lastCost'[t] = cost /\ dialing'[t] = "failed"
      /\ elapsed[t] \in Nat /\ lastCost[t] \in Nat /\ tried[t] \in Nat
  BY Zenon DEF BudgetInv, DialTypes, AttemptFails
<1>6. ASSUME NEW u \in Threads
      PROVE  RoomFor(u)' /\ (config'.dialBudget > 0 /\ tried'[u] > 1 /\ steady'[u]
                               => elapsed'[u] < config'.dialBudget)
  <2>1. CASE u = t
    BY <1>1, <1>3, <1>4, <1>5, <2>1, SMTT(30) DEF BudgetInv, RoomFor
  <2>2. CASE u # t
    <3>1. /\ dialing'[u] = dialing[u] /\ elapsed'[u] = elapsed[u]
          /\ lastCost'[u] = lastCost[u] /\ steady'[u] = steady[u]
      BY <2>2, Zenon DEF BudgetInv, DialTypes, AttemptFails
    <3>2. QED BY <1>3, <3>1, Zenon DEF BudgetInv, RoomFor, FitsBudget
  <2>3. QED BY <2>1, <2>2, Zenon
<1>7. QED BY <1>2, <1>6, Zenon DEF BudgetInv, FitsBudget

\* The gate lets a retry through when it has room, or Dial gives up.
LEMMA RetryBudget ==
  ASSUME BudgetInv, UNCHANGED config, NEW t \in Threads, Retry(t)
  PROVE  BudgetInv'
<1>1. CASE tried[t] < Len(cands[t]) /\ WithinBudget(t)
  <2>1. /\ dialing' = [dialing EXCEPT ![t] = "attempt"]
        /\ tried' = [tried EXCEPT ![t] = @ + 1]
        /\ UNCHANGED <<elapsed, lastCost, steady>> /\ dialing[t] = "failed"
    BY <1>1, Zenon DEF Retry
  <2>2. DialTypes'
    BY <2>1, SMTT(30) DEF BudgetInv, DialTypes
  <2>3. config.dialBudget \in Nat /\ elapsed[t] \in Nat /\ lastCost[t] \in Nat
    BY BudgetFacts DEF BudgetInv, DialTypes
  <2>4. ASSUME NEW u \in Threads
        PROVE  RoomFor(u)' /\ (config'.dialBudget > 0 /\ tried'[u] > 1 /\ steady'[u]
                                 => elapsed'[u] < config'.dialBudget)
    <3>1. CASE u = t
      BY <1>1, <2>1, <2>3, <3>1, SMTT(30) DEF BudgetInv, DialTypes, RoomFor, WithinBudget
    <3>2. CASE u # t
      BY <2>1, <3>2, Zenon DEF BudgetInv, DialTypes, RoomFor, FitsBudget
    <3>3. QED BY <3>1, <3>2, Zenon
  <2>5. QED BY <2>2, <2>4, Zenon DEF BudgetInv, FitsBudget
<1>2. CASE ~(tried[t] < Len(cands[t]) /\ WithinBudget(t))
  BY <1>2, ReturnBudget, Zenon DEF Retry
<1>3. QED BY <1>1, <1>2

\* Every step preserves the invariant.
LEMMA NextBudget == BudgetInv /\ [DialNext]_allVars => BudgetInv'
<1> SUFFICES ASSUME BudgetInv, [DialNext]_allVars PROVE BudgetInv'
  OBVIOUS
<1>1. CASE UNCHANGED allVars
  BY <1>1, OthersBudget DEF allVars
<1>2. ASSUME UNCHANGED config, NEW t \in Threads, Dial(t) PROVE BudgetInv'
  <2>1. CASE StartDial(t)
    BY <1>2, <2>1, StartBudget
  <2>2. CASE AttemptSucceeds(t)
    BY <1>2, <2>2, ReturnBudget DEF AttemptSucceeds
  <2>3. CASE Retry(t)
    BY <1>2, <2>3, RetryBudget
  <2>4. ASSUME NEW cost \in Costs, AttemptFails(t, cost) PROVE BudgetInv'
    BY <1>2, <2>4, FailBudget
  <2>5. QED BY <1>2, <2>1, <2>2, <2>3, <2>4 DEF Dial
<1>3. ASSUME UNCHANGED config, NEW t \in Threads, NEW f \in Fwdr,
             CheckSucceeds(t, f) \/ CheckDialFails(t, f) \/ CheckFails(t, f)
      PROVE  BudgetInv'
  BY <1>3, OthersBudget DEF CheckSucceeds, CheckDialFails, CheckFails
<1>4. ASSUME UNCHANGED config, UNCHANGED dialVars PROVE BudgetInv'
  BY <1>4, OthersBudget
<1>5. QED BY <1>1, <1>2, <1>3, <1>4 DEF DialNext, DialStep

\* However many goroutines dial and check, and whatever the attempts cost: unless
\* an attempt was slower than the one before it, a Dial that retried has spent
\* less than dialBudget.
THEOREM BudgetIsKept == DialSpec => []FitsBudget
<1>1. BudgetInv => FitsBudget
  BY DEF BudgetInv
<1>2. QED BY <1>1, InitBudget, NextBudget, PTL DEF DialSpec

-----------------------------------------------------------------------------
(* Filtering a slice.  The places kept are a set, so that these facts need  *)
(* no induction over the slice: the k-th place is the one with k places up  *)
(* to it, and an injection between sets of equal size reaches all of it.    *)

\* A set of numbers has a least one.
LEMMA LeastNumber ==
  ASSUME NEW S \in SUBSET Nat, S # {}
  PROVE  \E x \in S : \A y \in S : x <= y
<1> DEFINE R == OpToRel(<, Nat)
<1>1. \A x, y \in Nat : y < x => <<y, x>> \in R
  BY Zenon DEF OpToRel
<1>2. IsWellFoundedOn(R, Nat)
  BY NatLessThanWellFounded, Zenon
<1> HIDE DEF R
<1>3. PICK x \in S : \A y \in S : ~(<<y, x>> \in R)
  BY <1>2, WFMin, Zenon
<1>4. ASSUME NEW y \in S PROVE x <= y
  <2>1. ~(y < x)
    BY <1>1, <1>3, Zenon
  <2> QED BY <2>1
<1> QED BY <1>4

\* The places of a slice of n elements are n.
LEMMA PlacesOf ==
  ASSUME NEW n \in Nat PROVE IsFiniteSet(1 .. n) /\ Cardinality(1 .. n) = n
  BY FS_Interval

\* The places of a filtered slice have an order, and it goes through all of them.
LEMMA PlacesInOrder ==
  ASSUME NEW n \in Nat, NEW K \in SUBSET (1 .. n)
  PROVE  /\ Cardinality(K) \in 0 .. n
         /\ InOrder(K) \in [1 .. Cardinality(K) -> K]
         /\ \A i, j \in 1 .. Cardinality(K) : i < j => InOrder(K)[i] < InOrder(K)[j]
         /\ \A k \in K : \E i \in 1 .. Cardinality(K) : InOrder(K)[i] = k
<1>0. \A k \in K : k \in Nat
  OBVIOUS
<1> DEFINE upto(k) == {j \in K : j <= k}
           c == Cardinality(K)
           rank == [k \in K |-> Cardinality(upto(k))]
<1>1. IsFiniteSet(1 .. n) /\ Cardinality(1 .. n) = n
  BY PlacesOf
<1>2. IsFiniteSet(K) /\ c \in Nat /\ c <= n
  BY <1>1, FS_Subset, FS_CardinalityType, Zenon
<1>3. ASSUME NEW k \in K
      PROVE  IsFiniteSet(upto(k)) /\ rank[k] \in 1 .. c
  <2>1. IsFiniteSet(upto(k)) /\ Cardinality(upto(k)) <= c
    BY <1>2, FS_Subset
  <2>2. upto(k) # {}
    BY DEF upto
  <2>3. Cardinality(upto(k)) \in Nat /\ Cardinality(upto(k)) # 0
    BY <2>1, <2>2, FS_CardinalityType, FS_EmptySet, Zenon
  <2> HIDE DEF upto, c
  <2> QED BY <1>2, <2>1, <2>3
<1>4. ASSUME NEW k \in K, NEW l \in K, k < l
      PROVE  rank[k] < rank[l]
  <2>1. upto(k) \subseteq upto(l) /\ l \in upto(l) /\ l \notin upto(k)
    <3>1. \A j \in K : j <= k => j <= l
      BY <1>0, <1>4
    <3>2. l <= l /\ ~(l <= k)
      BY <1>0, <1>4
    <3> QED BY <3>1, <3>2, Zenon
  <2>2. IsFiniteSet(upto(l))
    BY <1>3
  <2>3. Cardinality(upto(k)) < Cardinality(upto(l))
    <3> HIDE DEF upto
    <3> QED BY <2>1, <2>2, FS_Subset, FS_CardinalityType
  <2> QED BY <2>3
<1> HIDE DEF rank
<1>5. rank \in [K -> 1 .. c]
  BY <1>3 DEF rank
<1>6. rank \in Injection(K, 1 .. c)
  <2>1. \A k, l \in K : rank[k] = rank[l] => k = l
    <3> SUFFICES ASSUME NEW k \in K, NEW l \in K, k # l PROVE rank[k] # rank[l]
      OBVIOUS
    <3>1. k < l \/ l < k
      OBVIOUS
    <3>2. rank[k] \in Nat /\ rank[l] \in Nat
      BY <1>2, <1>5
    <3> QED BY <1>4, <3>1, <3>2
  <2> QED BY <1>5, <2>1 DEF Injection, IsInjective
<1>7. \A i \in 1 .. c : \E k \in K : rank[k] = i
  <2>1. IsFiniteSet(1 .. c) /\ Cardinality(1 .. c) = c
    BY <1>2, PlacesOf
  <2>2. rank \in Surjection(K, 1 .. c)
    BY <1>6, <2>1, FS_Injection
  <2> QED BY <2>2 DEF Surjection
<1> DEFINE p == [i \in 1 .. c |-> CHOOSE k \in K : rank[k] = i]
<1>8. p \in [1 .. c -> K] /\ \A i \in 1 .. c : rank[p[i]] = i
  BY <1>7
<1>9. ASSUME NEW i \in 1 .. c, NEW j \in 1 .. c, i < j PROVE p[i] < p[j]
  <2>1. p[i] \in K /\ p[j] \in K /\ rank[p[i]] = i /\ rank[p[j]] = j
    BY <1>8, Zenon
  <2>2. p[i] \in Nat /\ p[j] \in Nat /\ i \in Nat /\ j \in Nat
    <3> HIDE DEF p, c
    <3>1. p[i] \in Nat /\ p[j] \in Nat
      BY <1>0, <2>1, Zenon
    <3>2. i \in Nat /\ j \in Nat
      BY <1>2
    <3> QED BY <3>1, <3>2
  <2> HIDE DEF p
  <2>3. p[i] # p[j]
    BY <1>9, <2>1, <2>2
  <2>4. ~(p[j] < p[i])
    <3> SUFFICES ASSUME p[j] < p[i] PROVE FALSE
      OBVIOUS
    <3>1. rank[p[j]] < rank[p[i]]
      BY <1>4, <2>1, Zenon
    <3> QED BY <1>9, <2>1, <2>2, <3>1
  <2> QED BY <2>2, <2>3, <2>4
<1> HIDE DEF p
<1>10. \E q \in [1 .. c -> K] : \A i, j \in DOMAIN q : i < j => q[i] < q[j]
  BY <1>8, <1>9, Zenon
<1>11. /\ InOrder(K) \in [1 .. c -> K]
       /\ \A i, j \in DOMAIN InOrder(K) : i < j => InOrder(K)[i] < InOrder(K)[j]
  BY <1>10, Zenon DEF InOrder
<1> DEFINE o == InOrder(K)
<1>12. o \in [1 .. c -> K] /\ \A i, j \in 1 .. c : i < j => o[i] < o[j]
  BY <1>11
<1> HIDE DEF o
<1>13. o \in Injection(1 .. c, K)
  <2>1. ASSUME NEW i \in 1 .. c, NEW j \in 1 .. c, o[i] = o[j] PROVE i = j
    <3>1. o[i] \in Nat
      <4>1. o[i] \in K
        BY <1>12
      <4> QED BY <1>0, <4>1, Zenon
    <3>2. i \in Nat /\ j \in Nat
      <4> HIDE DEF c
      <4> QED BY <1>2
    <3>3. ~(i < j) /\ ~(j < i)
      BY <1>12, <2>1, <3>1
    <3> QED BY <3>2, <3>3
  <2> QED BY <1>12, <2>1 DEF Injection, IsInjective
<1>14. \A k \in K : \E i \in 1 .. c : o[i] = k
  <2>1. Cardinality(1 .. c) = c
    BY <1>2, PlacesOf
  <2>2. o \in Surjection(1 .. c, K)
    BY <1>2, <1>13, <2>1, FS_Injection, Zenon
  <2> QED BY <2>2 DEF Surjection
<1> QED BY <1>2, <1>12, <1>14, SMTT(30) DEF o

\* A filter that appends what it keeps, as idleCleanup and dialCandidates do,
\* yields elements of the slice, all those it was to keep, and no duplicates
\* if there were none.
LEMMA KeptFacts ==
  ASSUME NEW S, NEW s \in Seq(S), NEW K \in SUBSET (1 .. Len(s))
  PROVE  /\ Kept(s, K) \in Seq(S) /\ Len(Kept(s, K)) = Cardinality(K)
         /\ Cardinality(K) \in 0 .. Len(s)
         /\ \A i \in 1 .. Len(Kept(s, K)) : InOrder(K)[i] \in K /\ Kept(s, K)[i] = s[InOrder(K)[i]]
         /\ \A k \in K : \E i \in 1 .. Len(Kept(s, K)) : Kept(s, K)[i] = s[k]
         /\ IsInjective(s) => IsInjective(Kept(s, K))
<1> DEFINE c == Cardinality(K)
           p == InOrder(K)
<1>1. Len(s) \in Nat /\ \A k \in K : k \in 1 .. Len(s) /\ k \in Nat /\ s[k] \in S
  OBVIOUS
<1>2. /\ c \in 0 .. Len(s) /\ p \in [1 .. c -> K]
      /\ \A i, j \in 1 .. c : i < j => p[i] < p[j]
      /\ \A k \in K : \E i \in 1 .. c : p[i] = k
  BY PlacesInOrder, SMTT(30)
<1>3. Kept(s, K) = [i \in 1 .. c |-> s[p[i]]]
  BY DEF Kept
<1> HIDE DEF c, p
<1>4. c \in Nat /\ \A i \in 1 .. c : s[p[i]] \in S
  <2>1. c \in Nat
    BY <1>1, <1>2
  <2>2. \A i \in 1 .. c : p[i] \in K
    BY <1>2
  <2> QED BY <1>1, <2>1, <2>2, Zenon
<1>5. Kept(s, K) \in Seq(S) /\ Len(Kept(s, K)) = c
  BY <1>3, <1>4
<1>6. \A i \in 1 .. c : p[i] \in K /\ Kept(s, K)[i] = s[p[i]]
  BY <1>2, <1>3
<1>7. ASSUME IsInjective(s), NEW i \in 1 .. c, NEW j \in 1 .. c, Kept(s, K)[i] = Kept(s, K)[j]
      PROVE  i = j
  <2>1. p[i] = p[j]
    <3>1. s[p[i]] = s[p[j]] /\ p[i] \in 1 .. Len(s) /\ p[j] \in 1 .. Len(s)
      BY <1>1, <1>6, <1>7, Zenon
    <3> QED BY <1>7, <3>1 DEF IsInjective
  <2>2. p[i] \in Nat /\ i \in Nat /\ j \in Nat
    <3>1. p[i] \in Nat
      BY <1>1, <1>6, Zenon
    <3>2. \A m \in 1 .. c : m \in Nat
      BY <1>4
    <3> QED BY <3>1, <3>2
  <2>3. ~(i < j) /\ ~(j < i)
    BY <1>2, <2>1, <2>2
  <2> QED BY <2>2, <2>3
<1>8. IsInjective(s) => IsInjective(Kept(s, K))
  BY <1>5, <1>7 DEF IsInjective
<1>9. \A k \in K : \E i \in 1 .. c : Kept(s, K)[i] = s[k]
  BY <1>2, <1>6, SMTT(30)
<1> QED BY <1>2, <1>5, <1>6, <1>8, <1>9, Zenon DEF c, p

-----------------------------------------------------------------------------
(* The candidate list. *)

\* The place of the first pick, from which the walk starts (`start = i + 1`).
LEMMA StartPlace ==
  ASSUME NEW S, NEW s \in Seq(S), NEW e
  PROVE  FirstPlace(e, s) \in 0 .. Len(s)
<1> DEFINE I == {i \in 1 .. Len(s) : s[i] = e}
<1>1. I \in SUBSET Nat /\ DOMAIN s = 1 .. Len(s) /\ Len(s) \in Nat
  OBVIOUS
<1>2. CASE e \in Range(s)
  <2>1. I # {}
    BY <1>1, <1>2 DEF Range
  <2>2. PICK i \in I : \A j \in I : i <= j
    <3> HIDE DEF I
    <3> QED BY <1>1, <2>1, LeastNumber
  <2>3. ASSUME NEW j \in 1 .. i - 1 PROVE s[j] # e
    BY <1>1, <2>2
  <2>4. \E k \in DOMAIN s : s[k] = e /\ \A j \in 1 .. k - 1 : s[j] # e
    BY <1>1, <2>3
  <2>5. FirstPlace(e, s) \in DOMAIN s
    BY <1>2, <2>4, Zenon DEF FirstPlace
  <2> QED BY <1>1, <2>5
<1>3. CASE e \notin Range(s)
  BY <1>1, <1>3 DEF FirstPlace
<1> QED BY <1>2, <1>3

\* The index arithmetic of the walk, idx % len(pool), wraps at most once when the
\* start is inside the pool.
LEMMA WrapFacts ==
  ASSUME NEW n \in Nat \ {0}, NEW k \in Nat, k < 2 * n
  PROVE  k % n = IF k < n THEN k ELSE k - n
<1>1. CASE k \in 0 .. n - 1
  <2>1. k % n = k
    BY <1>1
  <2> QED BY <1>1, <2>1
<1>2. CASE k \in n .. 2 * n - 1
  <2>1. k % n = k - n
    BY <1>2
  <2> QED BY <1>2, <2>1
<1> QED BY <1>1, <1>2

\* Walking a slice cyclically, from any place, visits each place once.
LEMMA WalkFacts ==
  ASSUME NEW S, NEW s \in Seq(S), Len(s) > 0, NEW start \in 0 .. Len(s), NEW walk,
         walk = [i \in 1 .. Len(s) |-> At(s, start + i - 1)]
  PROVE  /\ walk \in Seq(S) /\ Len(walk) = Len(s)
         /\ IsInjective(s) => IsInjective(walk)
         /\ \A e \in Range(s) : \E i \in 1 .. Len(s) : walk[i] = e
<1> DEFINE n == Len(s)
           place(i) == (IF start + i - 1 < n THEN start + i - 1 ELSE start + i - 1 - n) + 1
<1>1. n \in Nat /\ n > 0 /\ start \in Nat /\ start <= n
  OBVIOUS
<1>2. \A k \in 1 .. n : s[k] \in S
  OBVIOUS
<1> HIDE DEF n
<1>3. ASSUME NEW i \in 1 .. n PROVE ((start + i - 1) % n) + 1 = place(i) /\ place(i) \in 1 .. n
  <2> DEFINE k == start + i - 1
             r == k % n
  <2>1. k \in Nat /\ k < 2 * n /\ n \in Nat \ {0}
    BY <1>1
  <2>2. k = start + i - 1
    OBVIOUS
  <2> HIDE DEF k
  <2>3. r = IF k < n THEN k ELSE k - n
    BY <2>1, WrapFacts, Zenon
  <2> HIDE DEF r
  <2>4. r + 1 = place(i) /\ place(i) \in 1 .. n
    BY <1>1, <2>1, <2>2, <2>3, SMTT(30)
  <2> QED BY <2>4, Zenon DEF r, k
<1>4. \A i \in 1 .. n : walk[i] = s[place(i)]
  BY <1>3, Zenon DEF At, n
<1>5. walk \in [1 .. n -> S]
  BY <1>2, <1>3, <1>4, Zenon DEF n
<1>6. ASSUME NEW i \in 1 .. n, NEW j \in 1 .. n, place(i) = place(j) PROVE i = j
  BY <1>1, <1>6, SMTT(30)
<1>7. ASSUME NEW k \in 1 .. n PROVE \E i \in 1 .. n : place(i) = k
  <2>1. CASE k <= start
    <3>1. n + k - start \in 1 .. n /\ place(n + k - start) = k
      BY <1>1, <2>1
    <3> QED BY <3>1
  <2>2. CASE ~(k <= start)
    <3>1. k - start \in 1 .. n /\ place(k - start) = k
      BY <1>1, <2>2
    <3> QED BY <3>1
  <2> QED BY <2>1, <2>2, Zenon
<1> HIDE DEF place
<1>8. walk \in Seq(S) /\ Len(walk) = n /\ DOMAIN walk = 1 .. n
  <2>1. \A f \in [1 .. n -> S] : f \in Seq(S) /\ Len(f) = n /\ DOMAIN f = 1 .. n
    BY <1>1
  <2> QED BY <1>5, <2>1, Zenon
<1>9. DOMAIN s = 1 .. n
  BY DEF n
<1>10. ASSUME IsInjective(s) PROVE IsInjective(walk)
  <2>1. \A i, j \in 1 .. n : s[i] = s[j] => i = j
    BY <1>9, <1>10 DEF IsInjective
  <2>2. ASSUME NEW i \in 1 .. n, NEW j \in 1 .. n, walk[i] = walk[j] PROVE i = j
    <3>1. place(i) \in 1 .. n /\ place(j) \in 1 .. n
      BY <1>3
    <3>2. s[place(i)] = s[place(j)]
      BY <1>4, <2>2, Zenon
    <3>3. place(i) = place(j)
      BY <2>1, <3>1, <3>2
    <3> QED BY <1>6, <3>3
  <2>3. \A i, j \in DOMAIN walk : walk[i] = walk[j] => i = j
    BY <1>8, <2>2, ZenonT(60)
  <2> QED BY <2>3, Zenon DEF IsInjective
<1>11. ASSUME NEW e \in Range(s) PROVE \E i \in 1 .. n : walk[i] = e
  <2>1. PICK k \in 1 .. n : s[k] = e
    BY <1>9, Zenon DEF Range
  <2>2. PICK i \in 1 .. n : place(i) = k
    BY <1>7
  <2> QED BY <1>4, <2>1, <2>2, Zenon
<1> QED BY <1>8, <1>10, <1>11 DEF n

\* dialCandidates: no forwarder twice, the first pick in front, and all of the
\* pool when n allows it.
LEMMA CandidateFacts ==
  ASSUME NEW S, NEW pool \in Seq(S), Len(pool) > 0, IsInjective(pool),
         NEW first \in Range(pool), NEW n \in Nat \ {0}, NEW out,
         out = dialCandidates(pool, first, n)
  PROVE  /\ out \in Seq(S) /\ Len(out) > 0 /\ IsInjective(out)
         /\ n >= Len(pool) => Range(pool) \subseteq Range(out)
<1> DEFINE start == FirstPlace(first, pool)
           walk == [i \in 1..Len(pool) |-> At(pool, start + i - 1)]
           K == {i \in 1..Len(pool) : walk[i] # first}
           others == Kept(walk, K)
           m == Lesser(Lesser(n, Len(pool)) - 1, Len(others))
<1>1. out = <<first>> \o SubSeq(others, 1, m)
  BY DEF dialCandidates
<1>2. start \in 0 .. Len(pool)
  BY StartPlace
<1> HIDE DEF start
<1>3. /\ walk \in Seq(S) /\ Len(walk) = Len(pool) /\ IsInjective(walk)
      /\ \A e \in Range(pool) : \E i \in 1 .. Len(pool) : walk[i] = e
  BY <1>2, WalkFacts, SMTT(30)
<1> HIDE DEF walk
<1>4. K \in SUBSET (1 .. Len(walk)) /\ \A i \in K : walk[i] # first
  BY <1>3
<1>5. PICK h \in 1 .. Len(pool) : walk[h] = first
  BY <1>3
<1>6. h \notin K /\ \A i \in 1 .. Len(pool) : i \notin K => walk[i] = first
  BY <1>5
<1> HIDE DEF K
<1>7. /\ others \in Seq(S) /\ Len(others) = Cardinality(K)
      /\ \A i \in 1 .. Len(others) : InOrder(K)[i] \in K /\ others[i] = walk[InOrder(K)[i]]
      /\ \A k \in K : \E i \in 1 .. Len(others) : others[i] = walk[k]
      /\ IsInjective(others)
  BY <1>3, <1>4, KeptFacts, SMTT(30)
<1>8. \A i \in 1 .. Len(others) : others[i] # first
  BY <1>4, <1>7, Zenon
<1>9. Len(others) <= Len(pool) - 1
  <2>1. IsFiniteSet(1 .. Len(pool)) /\ Cardinality(1 .. Len(pool)) = Len(pool)
    <3>1. Len(pool) \in Nat
      OBVIOUS
    <3> QED BY <3>1, PlacesOf
  <2>2. K \in SUBSET (1 .. Len(pool)) /\ K # 1 .. Len(pool)
    BY <1>3, <1>4, <1>5, <1>6
  <2>3. Cardinality(K) <= Len(pool) /\ Cardinality(K) # Len(pool) /\ IsFiniteSet(K)
    BY <2>1, <2>2, FS_Subset, Zenon
  <2>4. Cardinality(K) \in Nat /\ Len(pool) \in Nat
    BY <2>3, FS_CardinalityType
  <2>5. \A c, p \in Nat : c <= p /\ c # p => c <= p - 1
    OBVIOUS
  <2>6. Len(others) = Cardinality(K)
    BY <1>7, Zenon
  <2> QED BY <2>3, <2>4, <2>5, <2>6, Zenon
<1> HIDE DEF others
<1>10. m \in 0 .. Len(others) /\ (n >= Len(pool) => m = Len(others))
  <2>1. Len(others) \in Nat /\ Len(pool) \in Nat
    BY <1>7, SMTT(30)
  <2> QED BY <1>9, <2>1 DEF Lesser
<1> HIDE DEF m
<1> DEFINE tail == SubSeq(others, 1, m)
<1>11. /\ tail \in Seq(S) /\ Len(tail) = m
       /\ \A i \in 1 .. m : tail[i] = others[i]
  BY <1>7, <1>10, SMTT(30)
<1> HIDE DEF tail
<1>12. /\ out \in Seq(S) /\ Len(out) = m + 1 /\ out[1] = first
       /\ \A i \in 2 .. m + 1 : out[i] = others[i - 1]
  <2>1. first \in S
    BY DEF Range
  <2>2. out = <<first>> \o tail /\ m \in Nat
    BY <1>1, <1>10 DEF tail
  <2>3. \A i \in 2 .. m + 1 : out[i] = tail[i - 1]
    BY <1>11, <2>1, <2>2, SMTT(30)
  <2> QED BY <1>11, <2>1, <2>2, <2>3, SMTT(30)
<1>13. ASSUME NEW i \in 1 .. m + 1, NEW j \in 1 .. m + 1, out[i] = out[j] PROVE i = j
  <2>1. ASSUME NEW k \in 2 .. m + 1 PROVE out[k] # first
    <3>1. k - 1 \in 1 .. Len(others)
      BY <1>7, <1>10, SMTT(30)
    <3> QED BY <1>8, <1>12, <3>1, Zenon
  <2>2. CASE i = 1 \/ j = 1
    BY <1>10, <1>12, <1>13, <2>1, <2>2, SMTT(30)
  <2>3. CASE i # 1 /\ j # 1
    <3>1. others[i - 1] = others[j - 1] /\ i - 1 \in 1 .. Len(others) /\ j - 1 \in 1 .. Len(others)
      BY <1>7, <1>10, <1>12, <1>13, <2>3, SMTT(30)
    <3>2. DOMAIN others = 1 .. Len(others)
      BY <1>7, SMTT(30)
    <3>3. i - 1 = j - 1
      BY <1>7, <3>1, <3>2, Zenon DEF IsInjective
    <3> QED BY <1>10, <3>3
  <2> QED BY <2>2, <2>3
<1>14. IsInjective(out)
  BY <1>12, <1>13, SMTT(30) DEF IsInjective
<1>15. ASSUME n >= Len(pool), NEW e \in Range(pool) PROVE e \in Range(out)
  <2>1. PICK i \in 1 .. Len(pool) : walk[i] = e
    BY <1>3
  <2>2. CASE i \in K
    <3>1. PICK k \in 1 .. Len(others) : others[k] = e
      BY <1>7, <2>1, <2>2, Zenon
    <3>2. k + 1 \in 2 .. m + 1 /\ k + 1 - 1 = k
      BY <1>7, <1>10, <1>15, SMTT(30)
    <3>3. k + 1 \in DOMAIN out /\ out[k + 1] = e
      BY <1>10, <1>12, <3>1, <3>2, SMTT(30)
    <3> QED BY <3>3, Zenon DEF Range
  <2>3. CASE i \notin K
    <3>1. 1 \in DOMAIN out /\ out[1] = e
      BY <1>6, <1>10, <1>12, <2>1, <2>3, SMTT(30)
    <3> QED BY <3>1, Zenon DEF Range
  <2> QED BY <2>2, <2>3
<1> QED BY <1>10, <1>12, <1>14, <1>15, SMTT(30)

-----------------------------------------------------------------------------
(* The strategies. *)

\* What nextDialer and dialCandidates choose from.
LEMMA PoolFacts ==
  ASSUME RotationInv
  PROVE  /\ Pool \in Seq(Fwdr) /\ Len(Pool) > 0 /\ IsInjective(Pool)
         /\ avail # <<>> => Pool = avail
<1>1. avail \in Seq(Fwdr) /\ IsInjective(avail)
  BY DEF RotationInv, TypeOK, NoDuplicates
<1>2. fwdrs \in Seq(Fwdr) /\ Len(fwdrs) > 0 /\ IsInjective(fwdrs)
  BY GroupAssumption DEF N
<1>3. CASE avail = <<>>
  BY <1>2, <1>3 DEF Pool
<1>4. CASE avail # <<>>
  BY <1>1, <1>4 DEF Pool
<1> QED BY <1>3, <1>4

\* A place of a slice, counted modulo its length (schedulers rr and dh).
LEMMA AtFacts ==
  ASSUME NEW S, NEW s \in Seq(S), Len(s) > 0, NEW k \in Nat
  PROVE  At(s, k) \in Range(s)
<1>1. Len(s) \in Nat \ {0} /\ DOMAIN s = 1 .. Len(s)
  OBVIOUS
<1>2. k % Len(s) \in 0 .. Len(s) - 1
  BY <1>1
<1>3. (k % Len(s)) + 1 \in DOMAIN s
  BY <1>1, <1>2
<1> QED BY <1>3 DEF At, Range

\* Whatever the strategy, the first pick is of the pool.
LEMMA PickFacts ==
  ASSUME RotationInv, config \in Configs, index \in Nat,
         NEW first \in Fwdr, nextDialer(first)
  PROVE  first \in Range(Pool) /\ index' \in Nat
<1>1. /\ Pool \in Seq(Fwdr) /\ Len(Pool) > 0 /\ IsInjective(Pool)
      /\ avail # <<>> => Pool = avail
  BY PoolFacts
<1>2. CASE avail = <<>> \/ config.next = "rr"
  <2>1. index' = (index + 1) % IndexMod /\ first = At(Pool, index')
    BY <1>2 DEF nextDialer
  <2>2. index' \in Nat
    BY <2>1, DialAssumption
  <2> QED BY <1>1, <2>1, <2>2, AtFacts
<1>3. CASE ~(avail = <<>> \/ config.next = "rr")
  <2>1. index' = index /\ first \in StrategyPicks /\ Pool = avail
    BY <1>1, <1>3 DEF nextDialer
  <2>2. config.next \in {"ha", "lha", "dh"}
    BY <1>3, DialAssumption
  <2>3. CASE config.next = "ha"
    <3>1. first = avail[1] /\ 1 \in DOMAIN avail
      BY <1>1, <2>1, <2>3 DEF StrategyPicks
    <3> QED BY <2>1, <3>1, Zenon DEF Range
  <2>4. CASE config.next = "lha"
    <3>1. first \in Range(avail)
      BY <2>1, <2>4 DEF StrategyPicks, scheduleLHA
    <3> QED BY <2>1, <3>1
  <2>5. CASE config.next = "dh"
    <3>1. PICK h \in Hashes : first = At(avail, h)
      BY <2>1, <2>5 DEF StrategyPicks, scheduleDH
    <3>2. h \in Nat
      BY DialAssumption
    <3> QED BY <1>1, <2>1, <3>1, <3>2, AtFacts
  <2> QED BY <2>2, <2>3, <2>4, <2>5
<1> QED BY <1>2, <1>3

-----------------------------------------------------------------------------
(* Dials on top of the group. *)

\* A Dial under way is at one of its candidates, all of them forwarders of the
\* group and no two the same.
AtCandidate(t) ==
  /\ cands[t] \in Seq(Fwdr) /\ IsInjective(cands[t])
  /\ dialing[t] # "no" => tried[t] \in 1 .. Len(cands[t])

DialInv ==
  /\ RotationInv
  /\ BudgetInv
  /\ index \in Nat
  /\ cands \in [Threads -> Seq(Fwdr)]
  /\ \A t \in Threads : AtCandidate(t)

\* No Dial has candidates at first.
LEMMA InitDialInv == DialInit => DialInv
<1> SUFFICES ASSUME DialInit PROVE DialInv
  OBVIOUS
<1>1. RotationInv /\ BudgetInv
  BY InitRotationInv, InitBudget DEF DialInit
<1>2. index \in Nat
  BY DEF DialInit
<1>3. <<>> \in Seq(Fwdr) /\ DOMAIN <<>> = {}
  OBVIOUS
<1>4. cands \in [Threads -> Seq(Fwdr)] /\ \A t \in Threads : cands[t] = <<>> /\ dialing[t] = "no"
  BY <1>3 DEF DialInit
<1>5. \A t \in Threads : AtCandidate(t)
  BY <1>3, <1>4, Zenon DEF AtCandidate, IsInjective
<1> QED BY <1>1, <1>2, <1>4, <1>5 DEF DialInv

\* A step of Dial or of a health check is a call into the group, a step of one,
\* or none of the group's business.
LEMMA DialStepIsGroupStep ==
  ASSUME DialInv, [DialNext]_allVars
  PROVE  [Next]_vars
<1>1. CASE UNCHANGED allVars
  BY <1>1 DEF allVars
<1>2. ASSUME NEW t \in Threads, Dial(t) PROVE [Next]_vars
  <2>1. CASE StartDial(t) \/ AttemptSucceeds(t) \/ Retry(t)
    <3>1. UNCHANGED vars
      BY <2>1, Zenon DEF StartDial, AttemptSucceeds, Retry
    <3> QED BY <3>1
  <2>2. ASSUME NEW cost \in Costs, AttemptFails(t, cost) PROVE [Next]_vars
    <3>1. dialing[t] # "no" /\ IncFailures(t, cands[t][tried[t]])
      BY <2>2, Zenon DEF AttemptFails
    <3>2. cands[t] \in Seq(Fwdr) /\ tried[t] \in 1 .. Len(cands[t])
      BY <3>1, Zenon DEF DialInv, AtCandidate
    <3>3. cands[t][tried[t]] \in Fwdr
      BY <3>2, SMTT(30)
    <3> QED BY <3>1, <3>3, Zenon DEF Next, Call
  <2> QED BY <1>2, <2>1, <2>2 DEF Dial
<1>3. ASSUME NEW t \in Threads, NEW f \in Fwdr, CheckSucceeds(t, f) \/ CheckDialFails(t, f) \/ CheckFails(t, f)
      PROVE  [Next]_vars
  BY <1>3, Zenon DEF CheckSucceeds, CheckDialFails, CheckFails, Next, Call
<1>4. ASSUME NEW t \in Threads, Step(t) PROVE [Next]_vars
  BY <1>4 DEF Next
<1> QED BY <1>1, <1>2, <1>3, <1>4 DEF DialNext, DialStep

\* StartDial takes a candidate list of distinct forwarders.
LEMMA StartCandidates ==
  ASSUME DialInv, UNCHANGED config, NEW t \in Threads, StartDial(t)
  PROVE  /\ index' \in Nat
         /\ cands' \in [Threads -> Seq(Fwdr)]
         /\ \A u \in Threads : AtCandidate(u)'
         /\ config.dialAttempts >= Len(Pool) => Range(Pool) \subseteq Range(cands'[t])
<1>1. PICK first \in Fwdr :
        /\ nextDialer(first)
        /\ cands' = [cands EXCEPT ![t] = dialCandidates(Pool, first, config.dialAttempts)]
  BY Zenon DEF StartDial
<1>2. Pool \in Seq(Fwdr) /\ Len(Pool) > 0 /\ IsInjective(Pool)
  BY PoolFacts DEF DialInv
<1>3. config \in Configs
  BY DEF DialInv, BudgetInv, DialTypes
<1>4. config.dialAttempts \in Nat \ {0}
  BY <1>3, DialAssumption
<1>5. first \in Range(Pool) /\ index' \in Nat
  BY <1>1, <1>3, PickFacts DEF DialInv
<1> DEFINE out == dialCandidates(Pool, first, config.dialAttempts)
<1>6. /\ out \in Seq(Fwdr) /\ Len(out) > 0 /\ IsInjective(out)
      /\ config.dialAttempts >= Len(Pool) => Range(Pool) \subseteq Range(out)
  BY <1>2, <1>4, <1>5, CandidateFacts, SMTT(30)
<1>7. cands' = [cands EXCEPT ![t] = out]
  BY <1>1
<1> HIDE DEF out
<1>8. cands \in [Threads -> Seq(Fwdr)] /\ dialing \in [Threads -> {"no", "attempt", "failed"}]
      /\ tried \in [Threads -> Nat]
  BY DEF DialInv, BudgetInv, DialTypes
<1>9. cands' \in [Threads -> Seq(Fwdr)] /\ cands'[t] = out
  BY <1>6, <1>7, <1>8
<1>10. ASSUME NEW u \in Threads PROVE AtCandidate(u)'
  <2>1. CASE u = t
    <3>1. tried'[t] = 1
      BY <1>8, Zenon DEF StartDial
    <3>2. 1 \in 1 .. Len(out)
      BY <1>6
    <3> QED BY <1>6, <1>9, <2>1, <3>1, <3>2, Zenon DEF AtCandidate
  <2>2. CASE u # t
    <3>1. cands'[u] = cands[u] /\ dialing'[u] = dialing[u] /\ tried'[u] = tried[u]
      BY <1>7, <1>8, <2>2, Zenon DEF StartDial
    <3>2. AtCandidate(u)
      BY DEF DialInv
    <3> QED BY <3>1, <3>2, Zenon DEF AtCandidate
  <2> QED BY <2>1, <2>2
<1> QED BY <1>5, <1>6, <1>9, <1>10, Zenon

\* Dial returns, and its candidates are gone.
LEMMA ReturnCandidates ==
  ASSUME DialInv, NEW t \in Threads, Return(t)
  PROVE  cands' \in [Threads -> Seq(Fwdr)] /\ \A u \in Threads : AtCandidate(u)'
<1>1. /\ cands \in [Threads -> Seq(Fwdr)] /\ dialing \in [Threads -> {"no", "attempt", "failed"}]
      /\ tried \in [Threads -> Nat]
  BY DEF DialInv, BudgetInv, DialTypes
<1>2. <<>> \in Seq(Fwdr) /\ IsInjective(<<>>)
  BY DEF IsInjective
<1>3. cands' \in [Threads -> Seq(Fwdr)]
  BY <1>1, <1>2 DEF Return
<1>4. ASSUME NEW u \in Threads PROVE AtCandidate(u)'
  <2>1. CASE u = t
    <3>1. cands'[u] = <<>> /\ dialing'[u] = "no"
      BY <1>1, <2>1 DEF Return
    <3> QED BY <1>2, <3>1, Zenon DEF AtCandidate
  <2>2. CASE u # t
    <3>1. cands'[u] = cands[u] /\ dialing'[u] = dialing[u] /\ tried'[u] = tried[u]
      BY <1>1, <2>2, Zenon DEF Return
    <3>2. AtCandidate(u)
      BY DEF DialInv
    <3> QED BY <3>1, <3>2, Zenon DEF AtCandidate
  <2> QED BY <2>1, <2>2
<1> QED BY <1>3, <1>4

\* A failed attempt and a retry stay within the list.
LEMMA AttemptCandidates ==
  ASSUME DialInv, NEW t \in Threads, Retry(t) \/ \E cost \in Costs : AttemptFails(t, cost)
  PROVE  cands' \in [Threads -> Seq(Fwdr)] /\ \A u \in Threads : AtCandidate(u)'
<1>1. /\ cands \in [Threads -> Seq(Fwdr)] /\ dialing \in [Threads -> {"no", "attempt", "failed"}]
      /\ tried \in [Threads -> Nat]
  BY Zenon DEF DialInv, BudgetInv, DialTypes
<1>2. \A u \in Threads : AtCandidate(u)
  BY DEF DialInv
<1>3. ASSUME NEW cost \in Costs, AttemptFails(t, cost)
      PROVE  \A u \in Threads : AtCandidate(u)'
  <2> SUFFICES ASSUME NEW u \in Threads PROVE AtCandidate(u)'
    OBVIOUS
  <2>1. cands' = cands /\ tried' = tried /\ dialing[t] = "attempt"
    BY <1>3, Zenon DEF AttemptFails
  <2>2. u # t => dialing'[u] = dialing[u]
    BY <1>1, <1>3, Zenon DEF AttemptFails
  <2> QED BY <1>2, <2>1, <2>2, Zenon DEF AtCandidate
<1>4. ASSUME Retry(t), tried[t] < Len(cands[t]) /\ WithinBudget(t)
      PROVE  \A u \in Threads : AtCandidate(u)'
  <2> SUFFICES ASSUME NEW u \in Threads PROVE AtCandidate(u)'
    OBVIOUS
  <2>1. cands' = cands /\ tried' = [tried EXCEPT ![t] = @ + 1] /\ dialing[t] = "failed"
    BY <1>4, Zenon DEF Retry
  <2>2. CASE u = t
    <3>1. cands'[u] = cands[u] /\ tried'[u] = tried[u] + 1 /\ tried[u] < Len(cands[u])
      BY <1>1, <1>4, <2>1, <2>2, Zenon
    <3>2. cands[u] \in Seq(Fwdr) /\ IsInjective(cands[u]) /\ tried[u] \in 1 .. Len(cands[u])
      BY <1>2, <2>1, <2>2, Zenon DEF AtCandidate
    <3>3. tried[u] + 1 \in 1 .. Len(cands[u])
      <4>1. Len(cands[u]) \in Nat /\ tried[u] \in Nat
        <5>1. \A s \in Seq(Fwdr) : Len(s) \in Nat
          OBVIOUS
        <5>2. \A n : \A i \in 1 .. n : i \in Nat
          OBVIOUS
        <5> QED BY <3>2, <5>1, <5>2, Zenon
      <4>2. \A m, n \in Nat : m < n => m + 1 \in 1 .. n
        OBVIOUS
      <4> QED BY <3>1, <4>1, <4>2, Zenon
    <3> QED BY <3>1, <3>2, <3>3, Zenon DEF AtCandidate
  <2>3. CASE u # t
    <3>1. cands'[u] = cands[u] /\ tried'[u] = tried[u] /\ dialing'[u] = dialing[u]
      BY <1>1, <1>4, <2>1, <2>3, Zenon DEF Retry
    <3> QED BY <1>2, <3>1, Zenon DEF AtCandidate
  <2> QED BY <2>2, <2>3
<1>5. CASE Retry(t) /\ ~(tried[t] < Len(cands[t]) /\ WithinBudget(t))
  <2>1. Return(t)
    BY <1>5, Zenon DEF Retry
  <2> QED BY <2>1, ReturnCandidates
<1>6. ASSUME UNCHANGED cands PROVE cands' \in [Threads -> Seq(Fwdr)]
  BY <1>1, <1>6
<1>7. CASE Retry(t) /\ tried[t] < Len(cands[t]) /\ WithinBudget(t)
  BY <1>4, <1>6, <1>7, Zenon DEF Retry
<1>8. CASE \E cost \in Costs : AttemptFails(t, cost)
  <2>1. PICK cost \in Costs : AttemptFails(t, cost)
    BY <1>8
  <2>2. UNCHANGED cands
    BY <2>1, Zenon DEF AttemptFails
  <2> QED BY <1>3, <1>6, <2>1, <2>2
<1> QED BY <1>5, <1>7, <1>8

\* Every step preserves the invariant.
LEMMA NextDialInv == DialInv /\ [DialNext]_allVars => DialInv'
<1> SUFFICES ASSUME DialInv, [DialNext]_allVars PROVE DialInv'
  OBVIOUS
<1>1. RotationInv'
  BY DialStepIsGroupStep, NextRotationInv DEF DialInv
<1>2. BudgetInv'
  BY NextBudget DEF DialInv
<1> DEFINE Rest == /\ index' \in Nat
                   /\ cands' \in [Threads -> Seq(Fwdr)] /\ \A u \in Threads : AtCandidate(u)'
<1>3. ASSUME UNCHANGED <<index, dialVars>>
      PROVE  index' \in Nat /\ cands' \in [Threads -> Seq(Fwdr)] /\ \A u \in Threads : AtCandidate(u)'
  BY <1>3, Zenon DEF dialVars, DialInv, AtCandidate
<1>4. ASSUME UNCHANGED config, NEW t \in Threads, Dial(t) PROVE Rest
  <2>1. index \in Nat
    BY DEF DialInv
  <2>2. CASE StartDial(t)
    BY <1>4, <2>1, <2>2, StartCandidates
  <2>3. CASE AttemptSucceeds(t)
    <3>1. index' = index /\ Return(t)
      BY <2>3 DEF AttemptSucceeds
    <3> QED BY <2>1, <3>1, ReturnCandidates
  <2>4. CASE Retry(t) \/ \E cost \in Costs : AttemptFails(t, cost)
    <3>1. index' = index
      BY <2>4, Zenon DEF Retry, AttemptFails
    <3> QED BY <2>1, <2>4, <3>1, AttemptCandidates
  <2> QED BY <1>4, <2>2, <2>3, <2>4, Zenon DEF Dial
<1>5. ASSUME NEW t \in Threads, NEW f \in Fwdr, CheckSucceeds(t, f) \/ CheckDialFails(t, f) \/ CheckFails(t, f) PROVE Rest
  <2>1. UNCHANGED <<index, dialVars>>
    BY <1>5 DEF CheckSucceeds, CheckDialFails, CheckFails
  <2> QED BY <1>3, <2>1
<1>6. ASSUME UNCHANGED <<index, dialVars>> PROVE Rest
  BY <1>3, <1>6
<1>7. Rest
  <2> HIDE DEF Rest
  <2> QED BY <1>4, <1>5, <1>6 DEF DialNext, DialStep, allVars
<1> QED BY <1>1, <1>2, <1>7 DEF DialInv

\* The rotation is no longer than the group's slice.
LEMMA RotationFits == ASSUME RotationInv PROVE Len(avail) <= N
<1>1. avail \in Seq(Fwdr) /\ IsInjective(avail) /\ Len(avail) \in Nat
  BY DEF RotationInv, TypeOK, NoDuplicates
<1>2. fwdrs \in Seq(Fwdr) /\ N \in Nat /\ DOMAIN fwdrs = 1 .. N
  BY GroupAssumption DEF N
<1>3. fwdrs \in Surjection(1 .. N, Fwdr)
  BY <1>2 DEF Surjection, Fwdr, Range, N
<1>4. IsFiniteSet(Fwdr) /\ Cardinality(Fwdr) <= N
  BY <1>2, <1>3, FS_Surjection, PlacesOf
<1>5. avail \in Injection(1 .. Len(avail), Fwdr)
  BY <1>1 DEF Injection
<1>6. Cardinality(1 .. Len(avail)) <= Cardinality(Fwdr) /\ Cardinality(1 .. Len(avail)) = Len(avail)
  BY <1>1, <1>4, <1>5, FS_Injection, PlacesOf
<1>7. Cardinality(Fwdr) \in Nat
  BY <1>4, FS_CardinalityType
<1> QED BY <1>1, <1>2, <1>4, <1>6, <1>7

\* What a Dial takes while no status change is pending.
LEMMA StartTakesHealthy ==
  ASSUME DialInv, RotationExact, UNCHANGED config, NEW t \in Threads, StartDial(t),
         Quiescent, UniformPriority, config.dialAttempts >= N
  PROVE  {f \in Fwdr : Enabled(f)} \subseteq Range(cands'[t])
<1>1. Range(avail) = {f \in Fwdr : Enabled(f)}
  BY DEF RotationExact
<1>2. CASE avail = <<>>
  <2>1. Range(avail) = {}
    BY <1>2 DEF Range
  <2> QED BY <1>1, <2>1
<1>3. CASE avail # <<>>
  <2>1. Pool = avail /\ avail \in Seq(Fwdr)
    BY <1>3, PoolFacts DEF DialInv
  <2>2. Len(avail) <= N /\ Len(avail) \in Nat /\ N \in Nat
    BY <2>1, RotationFits, GroupAssumption, SMTT(30) DEF DialInv, N
  <2>3. config \in Configs
    BY DEF DialInv, BudgetInv, DialTypes
  <2>4. config.dialAttempts \in Nat
    BY <2>3, DialAssumption
  <2>5. config.dialAttempts >= Len(Pool)
    BY <2>1, <2>2, <2>4
  <2>6. Range(Pool) \subseteq Range(cands'[t])
    BY <2>5, StartCandidates
  <2> QED BY <1>1, <2>1, <2>6
<1> QED BY <1>2, <1>3

\* The invariant holds throughout.
LEMMA DialInvariant == DialSpec => []DialInv
<1> QED BY InitDialInv, NextDialInv, PTL DEF DialSpec

\* Dialling and health-checking a group does to its bookkeeping only what
\* FwdrGroup allows, so all that is proved of the rotation holds under Dial: in
\* particular a failure is only ever charged to a forwarder of the group.
THEOREM DialsAreCalls == DialSpec => Spec
<1>1. DialInit => Init
  BY DEF DialInit
<1>2. DialInv /\ [DialNext]_allVars => [Next]_vars
  BY DialStepIsGroupStep
<1> QED BY <1>1, <1>2, DialInvariant, PTL DEF DialSpec, Spec

\* For every group, strategy, hash and number of attempts, the candidates of a
\* Dial are distinct: the strategies that always pick the same forwarder for a
\* destination still retry through another (dialCandidates).
THEOREM RetriesGoElsewhere == DialSpec => []DistinctTargets
<1>1. DialInv => DistinctTargets
  BY Zenon DEF DialInv, AtCandidate, DistinctTargets
<1> QED BY <1>1, DialInvariant, PTL

\* With one priority in use, no status change pending and dialattempts at least
\* the number of forwarders, a Dial tries every healthy one before it gives up.
THEOREM DialTriesTheHealthy == DialSpec => HealthyAreTried
<1> DEFINE Taken ==
      \A t \in Threads :
        StartDial(t) /\ Quiescent /\ UniformPriority /\ config.dialAttempts >= N
          => {f \in Fwdr : Enabled(f)} \subseteq Range(cands'[t])
<1>1. DialInv /\ RotationExact /\ [DialNext]_allVars => [Taken]_allVars
  <2> SUFFICES ASSUME DialInv, RotationExact, DialNext, NEW t \in Threads, StartDial(t),
                      Quiescent, UniformPriority, config.dialAttempts >= N
               PROVE  {f \in Fwdr : Enabled(f)} \subseteq Range(cands'[t])
    OBVIOUS
  <2>1. UNCHANGED config
    BY DEF DialNext
  <2> QED BY <2>1, StartTakesHealthy
<1> HIDE DEF Taken
<1>2. DialSpec => [][Taken]_allVars
  BY <1>1, DialInvariant, DialsAreCalls, UniformRotation, PTL DEF DialSpec
<1> QED BY <1>2 DEF HealthyAreTried, Taken
=============================================================================
