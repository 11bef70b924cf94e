------------------------------ MODULE FwdrGroup ------------------------------
(***************************************************************************)
(* The availability bookkeeping of one forwarder group: the health flag    *)
(* and failure counter of each Forwarder (rule/forward.go) and the         *)
(* rotation `avail` with its active `priority` (rule/group.go).            *)
(*                                                                         *)
(* Any number of goroutines (dials, relays reporting through Record, and   *)
(* one checker per forwarder) call Enable, Disable and IncFailures at any  *)
(* time.  Enable and Disable flip the flag with one compare-and-swap and   *)
(* only then run the group's handler under the group mutex, so the         *)
(* rotation trails the flags.  init() reads the flags one atomic load at a *)
(* time while they change underneath it, and is a scan of several steps    *)
(* here for that reason.                                                   *)
(*                                                                         *)
(* Grain: one step per atomic load, store, add or compare-and-swap of a    *)
(* shared word.  A load whose outcome is only used by the next access to   *)
(* the same word is merged with it, and a lock acquisition is merged with  *)
(* the first access made under it.                                         *)
(***************************************************************************)
EXTENDS Naturals, Sequences, Functions

CONSTANTS
  fwdrs,         \* the group's slice, as sort.Sort(priSlice) left it
  Pri,           \* Forwarder.priority, fixed by parseOption
  MaxFailures,   \* Strategy.MaxFailures; 0 never disables
  Threads,       \* goroutines that call into the group
  NoThread,      \* the value of `lock` when the mutex is free
  CountBound     \* cap on a failure counter, for model checking

Fwdr == Range(fwdrs)

N == Len(fwdrs)

ASSUME GroupAssumption ==
  /\ fwdrs \in Seq(Fwdr)
  /\ N > 0
  /\ IsInjective(fwdrs)
  /\ \A f \in Fwdr : Pri[f] \in Nat
  /\ \A i, j \in 1..N : i < j => Pri[fwdrs[i]] >= Pri[fwdrs[j]]
  /\ MaxFailures \in Nat
  /\ CountBound \in Nat
  /\ NoThread \notin Threads

VARIABLES
  disabled,      \* Forwarder.disabled
  failures,      \* Forwarder.failures
  maxFailures,   \* Forwarder.maxFailures
  avail,         \* FwdrGroup.avail
  priority,      \* FwdrGroup.priority
  lock,          \* FwdrGroup.mu, the writer that holds it
  scan,          \* loop index of the init() the lock holder is in
  again,         \* that init() is followed by the `len(p.avail) == 0` test
  pc, arg, call, count   \* per goroutine: where it is, the receiver, the
                         \* method it runs, and IncFailures' local

vars == <<disabled, failures, maxFailures, avail, priority, lock, scan, again,
          pc, arg, call, count>>

flags == <<disabled, failures, maxFailures>>

rotation == <<avail, priority, lock, scan, again>>

Enabled(f) == ~disabled[f]

Goto(t, label) == pc' = [pc EXCEPT ![t] = label]

-----------------------------------------------------------------------------
(* rule/forward.go *)

\* Enable and Disable run the handler only when their CAS changed the flag.
\* Enable always ends by clearing the failure counter.
EnableCAS(t, f) ==
  /\ disabled' = [disabled EXCEPT ![f] = FALSE]
  /\ Goto(t, IF disabled[f] THEN "handler" ELSE "reset")
  /\ arg' = [arg EXCEPT ![t] = f]
  /\ call' = [call EXCEPT ![t] = "Enable"]
  /\ UNCHANGED <<failures, maxFailures, rotation, count>>

DisableCAS(t, f) ==
  /\ disabled' = [disabled EXCEPT ![f] = TRUE]
  /\ Goto(t, IF disabled[f] THEN "idle" ELSE "handler")
  /\ arg' = [arg EXCEPT ![t] = f]
  /\ call' = [call EXCEPT ![t] = "Disable"]
  /\ UNCHANGED <<failures, maxFailures, rotation, count>>

\* A successful health check, a warm check or Record(dialer, true).
Enable(t, f) == pc[t] = "idle" /\ EnableCAS(t, f)

\* A failed health check.
Disable(t, f) == pc[t] = "idle" /\ DisableCAS(t, f)

\* A checker met ErrNotSupported: SetMaxFailures(0), then Enable.
StopChecking(t, f) ==
  /\ pc[t] = "idle"
  /\ maxFailures' = [maxFailures EXCEPT ![f] = 0]
  /\ arg' = [arg EXCEPT ![t] = f]
  /\ Goto(t, "enabling")
  /\ UNCHANGED <<disabled, failures, rotation, call, count>>

StopCheckingEnable(t) == pc[t] = "enabling" /\ EnableCAS(t, arg[t])

\* The atomic add of IncFailures, called by Forwarder.Dial on a dial error and
\* by Record(dialer, false).
IncFailures(t, f) ==
  /\ pc[t] = "idle"
  /\ failures[f] < CountBound
  /\ failures' = [failures EXCEPT ![f] = @ + 1]
  /\ count' = [count EXCEPT ![t] = failures[f] + 1]
  /\ arg' = [arg EXCEPT ![t] = f]
  /\ Goto(t, "counted")
  /\ UNCHANGED <<disabled, maxFailures, rotation, call>>

\* Mutant: the limit is noticed one failure late.
CompareMaxLate(t) ==
  /\ pc[t] = "counted"
  /\ LET max == maxFailures[arg[t]]
     IN  Goto(t, IF max # 0 /\ count[t] > max THEN "disabling" ELSE "idle")
  /\ count' = [count EXCEPT ![t] = 0]
  /\ UNCHANGED <<flags, rotation, arg, call>>

\* Only the call whose add reached maxFailures exactly goes on to Disable.
CompareMax(t) ==
  /\ pc[t] = "counted"
  /\ LET max == maxFailures[arg[t]]
     IN  Goto(t, IF max # 0 /\ count[t] = max THEN "disabling" ELSE "idle")
  /\ count' = [count EXCEPT ![t] = 0]
  /\ UNCHANGED <<flags, rotation, arg, call>>

\* f.Enabled() followed by the CAS of Disable.
MaxReached(t) == pc[t] = "disabling" /\ DisableCAS(t, arg[t])

\* The store that ends Enable.
ResetFailures(t) ==
  /\ pc[t] = "reset"
  /\ failures' = [failures EXCEPT ![arg[t]] = 0]
  /\ Goto(t, "idle")
  /\ UNCHANGED <<disabled, maxFailures, rotation, arg, call, count>>

-----------------------------------------------------------------------------
(* rule/group.go *)

\* Mutant: append without looking for the forwarder first.
NeverInAvail(f) == FALSE

inAvail(f) == f \in Range(avail)

\* Mutant: a disabled forwarder stays where it is.
KeepAll(s, f) == s

\* p.avail[i], p.avail = p.avail[len-1], p.avail[:len-1] at f's first index.
SwapRemove(s, f) ==
  IF f \notin Range(s) THEN s
  ELSE LET i == CHOOSE k \in DOMAIN s : s[k] = f /\ \A j \in 1..(k - 1) : s[j] # f
       IN  [k \in 1..(Len(s) - 1) |-> IF k = i THEN s[Len(s)] ELSE s[k]]

\* Unlock and return to Enable or Disable.
Unlock(t) ==
  /\ lock' = NoThread
  /\ scan' = 1
  /\ again' = FALSE
  /\ Goto(t, IF call[t] = "Enable" THEN "reset" ELSE "idle")

\* Call init() with the mutex held.
StartInit(t, testAfter) ==
  /\ lock' = t
  /\ scan' = 1
  /\ again' = testAfter
  /\ Goto(t, "findPriority")

\* `if len(p.avail) == 0 { p.init() }`, then return.
InitIfEmpty(t, s) ==
  IF s = <<>> THEN StartInit(t, FALSE) ELSE Unlock(t)

\* Mutant: an enabled forwarder waits for the next init().
OnlyRemove(f) == IF disabled[f] THEN SwapRemove(avail, f) ELSE avail

\* What the handler makes of the rotation when it does not call init() at once.
UpdatedAvail(f) ==
  IF disabled[f] THEN SwapRemove(avail, f)
  ELSE IF Pri[f] = priority /\ ~inAvail(f) THEN Append(avail, f)
  ELSE avail

onStatusChanged(t) ==
  LET f == arg[t]
  IN  /\ pc[t] = "handler"
      /\ lock = NoThread
      /\ IF Enabled(f) /\ Pri[f] > priority
         THEN StartInit(t, TRUE) /\ UNCHANGED avail
         ELSE avail' = UpdatedAvail(f) /\ InitIfEmpty(t, avail')
      /\ UNCHANGED <<flags, priority, arg, call, count>>

\* First loop of init(): the first enabled forwarder sets the priority; when
\* it is over, `p.avail = nil`.
FindPriority(t) ==
  /\ pc[t] = "findPriority"
  /\ \/ /\ scan <= N /\ disabled[fwdrs[scan]]
        /\ scan' = scan + 1
        /\ UNCHANGED <<avail, priority, pc>>
     \/ /\ scan <= N /\ Enabled(fwdrs[scan])
        /\ priority' = Pri[fwdrs[scan]]
        /\ avail' = <<>> /\ scan' = 1 /\ Goto(t, "collect")
     \/ /\ scan > N
        /\ avail' = <<>> /\ scan' = 1 /\ Goto(t, "collect")
        /\ UNCHANGED priority
  /\ UNCHANGED <<flags, lock, again, arg, call, count>>

\* Second loop of init(): one flag read per forwarder.
Collect(t) ==
  /\ pc[t] = "collect"
  /\ scan <= N
  /\ LET f == fwdrs[scan]
     IN  avail' = IF Enabled(f) /\ Pri[f] >= priority THEN Append(avail, f) ELSE avail
  /\ scan' = scan + 1
  /\ UNCHANGED <<flags, priority, lock, again, pc, arg, call, count>>

\* Mutant: the priority of an emptied tier stays.
EndInitKeepsPriority(t) ==
  /\ pc[t] = "collect"
  /\ scan > N
  /\ IF again THEN InitIfEmpty(t, avail) ELSE Unlock(t)
  /\ UNCHANGED <<flags, avail, priority, arg, call, count>>

\* End of init(), and of onStatusChanged unless its last test calls init() anew.
EndInit(t) ==
  /\ pc[t] = "collect"
  /\ scan > N
  /\ priority' = IF avail = <<>> THEN 0 ELSE priority
  /\ IF again THEN InitIfEmpty(t, avail) ELSE Unlock(t)
  /\ UNCHANGED <<flags, avail, arg, call, count>>

-----------------------------------------------------------------------------

\* ForwarderFromURL returns its forwarder disabled, and newFwdrGroup runs
\* init() before any handler is installed.
Init ==
  /\ disabled = [f \in Fwdr |-> TRUE]
  /\ failures = [f \in Fwdr |-> 0]
  /\ maxFailures = [f \in Fwdr |-> MaxFailures]
  /\ avail = <<>>
  /\ priority = 0
  /\ lock = NoThread
  /\ scan = 1
  /\ again = FALSE
  /\ pc = [t \in Threads |-> "idle"]
  /\ arg = [t \in Threads |-> fwdrs[1]]
  /\ call = [t \in Threads |-> "Enable"]
  /\ count = [t \in Threads |-> 0]

\* A goroutine calls into the group.
Call(t) ==
  \E f \in Fwdr : Enable(t, f) \/ Disable(t, f) \/ IncFailures(t, f) \/ StopChecking(t, f)

\* A goroutine inside a call goes on.
Step(t) ==
  \/ StopCheckingEnable(t) \/ CompareMax(t) \/ MaxReached(t) \/ ResetFailures(t)
  \/ onStatusChanged(t) \/ FindPriority(t) \/ Collect(t) \/ EndInit(t)

Next == \E t \in Threads : Call(t) \/ Step(t)

Spec == Init /\ [][Next]_vars

\* A goroutine inside a call goes on, and sync.RWMutex is starvation-free: a
\* writer that keeps finding the mutex taken gets it in the end.  Whether calls
\* are made is up to the environment.
FairSpec ==
  Spec /\ \A t \in Threads : WF_vars(Step(t)) /\ SF_vars(onStatusChanged(t))

-----------------------------------------------------------------------------

Labels == {"idle", "enabling", "counted", "disabling", "handler",
           "findPriority", "collect", "reset"}

\* The types of the state; in particular the rotation of onStatusChanged and
\* init() is a slice of the group's own forwarders with no nil entry, and the
\* loops of init() stay inside the slice.
TypeOK ==
  /\ disabled \in [Fwdr -> BOOLEAN]
  /\ failures \in [Fwdr -> Nat]
  /\ maxFailures \in [Fwdr -> Nat]
  /\ avail \in Seq(Fwdr)
  /\ priority \in Nat
  /\ lock \in Threads \cup {NoThread}
  /\ scan \in 1..(N + 1)
  /\ again \in BOOLEAN
  /\ pc \in [Threads -> Labels]
  /\ arg \in [Threads -> Fwdr]
  /\ call \in [Threads -> {"Enable", "Disable"}]
  /\ count \in [Threads -> Nat]

\* A flag of f has changed and the handler for that change has not run yet.
Pending(f) == \E t \in Threads : pc[t] = "handler" /\ arg[t] = f

\* No handler is due or running.
Quiescent == lock = NoThread /\ \A f \in Fwdr : ~Pending(f)

\* The rotation never lists a forwarder twice, whatever Disable/Enable calls
\* interleave (the `inAvail` test of onStatusChanged is there for this).
NoDuplicates == IsInjective(avail)

\* A disabled forwarder stays in the rotation only as long as the handler of
\* the Disable that turned it off, or of a later Enable, has yet to run.
DisabledLeaves ==
  \A f \in Range(avail) : disabled[f] => Pending(f)

\* Between status changes the rotation is one priority tier, the active one.
OneTier == Quiescent => \A f \in Range(avail) : Pri[f] = priority

\* Between status changes an empty rotation means that no forwarder is
\* enabled: the group does not fall back to dialling unhealthy forwarders
\* (nextDialer's round robin over all of them) while a healthy one exists.
EmptyMeansNoneEnabled == Quiescent /\ avail = <<>> => \A f \in Fwdr : disabled[f]

\* With a single priority in use, between status changes the rotation is
\* exactly the set of enabled forwarders.
UniformPriority == \A f, g \in Fwdr : Pri[f] = Pri[g]

RotationExact ==
  UniformPriority /\ Quiescent => Range(avail) = {f \in Fwdr : Enabled(f)}

\* The claim of status.go on GroupStatus: an enabled forwarder outside the
\* rotation is one below the group's active priority.
OutsideRotationIsBelow == Quiescent =>
  \A f \in Fwdr : Enabled(f) /\ ~inAvail(f) => Pri[f] < priority

\* An enabled forwarder whose counter has reached maxFailures is about to be
\* disabled by the goroutine that counted the last failure, or about to have
\* its counter cleared by the Enable that turned it on: the exact comparison in
\* IncFailures never lets the counter slip past the limit unnoticed.
AtLimit(f) == Enabled(f) /\ maxFailures[f] # 0 /\ failures[f] >= maxFailures[f]

ActsOnLimit(t, f) ==
  /\ arg[t] = f
  /\ \/ pc[t] = "counted" /\ count[t] = maxFailures[f]
     \/ pc[t] \in {"disabling", "reset"}
     \/ pc[t] \in {"handler", "findPriority", "collect"} /\ call[t] = "Enable"

LimitNoticed == \A f \in Fwdr : AtLimit(f) => \E t \in Threads : ActsOnLimit(t, f)

=============================================================================
