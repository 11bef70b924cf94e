----------------------------- MODULE HealthCheck -----------------------------
(***************************************************************************)
(* The health checkers of one group (rule/group.go: warmCheck,             *)
(* startCheckers, check, stop) on top of the group's bookkeeping.          *)
(*                                                                         *)
(* A warm check of every forwarder runs first; when all have ended the     *)
(* group serves and one goroutine per forwarder checks it again and again. *)
(* The checkers read the forwarder's flag and the group's priority without *)
(* the mutex, while the Enable and Disable calls of the others change      *)
(* both.  Dials are left out: GroupDial has them.                          *)
(*                                                                         *)
(* Intervals have no length here: a sleep is a wait that ends.  Only       *)
(* whether the backoff `wait` is zero matters to the control.              *)
(*                                                                         *)
(* A check need not end.  Its TCP connect, and the exchange of a tcp or    *)
(* http check, have deadlines; the handshakes inside a dial, the TLS       *)
(* handshake of an https check and the command of a file check have none.  *)
(* An upstream that falls silent there holds the checker for as long as it *)
(* stays silent.                                                           *)
(***************************************************************************)
EXTENDS FwdrGroup

CONSTANTS
  Checks,              \* the forwarder each goroutine of Threads checks
  CheckDisabledOnly,   \* Strategy.CheckDisabledOnly
  MaxWait              \* the cap of `wait`, 16 in the code

ASSUME CheckAssumption ==
  /\ Checks \in [Threads -> Fwdr]
  /\ CheckDisabledOnly \in BOOLEAN
  /\ MaxWait \in Nat \ {0}

VARIABLES
  health,   \* the world: what a check of the forwarder finds right now: "up",
            \* "down" (it fails), "silent" (it fails or hangs), "unsupported"
  at,       \* where a checker is in warmCheck or check
  wait,     \* its backoff
  done      \* FwdrGroup.done is closed

checkVars == <<health, at, wait, done>>

healthVars == <<vars, checkVars>>

Become(t, place) == at' = [at EXCEPT ![t] = place]

-----------------------------------------------------------------------------
(* A check.  The dial of a tcp or http check goes through Forwarder.Dial,    *)
(* which counts its failure before the checker sees the error.               *)

DialCounted(t, f) ==
  /\ health[f] # "up"
  /\ IncFailures(t, f)

\* One goroutine of warmCheck: success enables, failure leaves the flag alone.
WarmSucceeds(t, f) ==
  /\ at[t] \in {"warm", "warm hung"} /\ health[f] = "up"
  /\ Enable(t, f)
  /\ Become(t, "warmed")
  /\ UNCHANGED <<health, wait, done>>

WarmFails(t, f) ==
  /\ at[t] \in {"warm", "warm hung"} /\ health[f] # "up" /\ pc[t] = "idle"
  /\ Become(t, "warmed")
  /\ \/ DialCounted(t, f)
     \/ health[f] # "unsupported" /\ UNCHANGED vars
  /\ UNCHANGED <<health, wait, done>>

\* A check meets a silent upstream where nothing bounds it.  It may still end as
\* any other check, should the upstream answer or the connection break.
Hang(t, f) ==
  /\ at[t] \in {"warm", "checking"} /\ health[f] = "silent" /\ pc[t] = "idle"
  /\ Become(t, IF at[t] = "warm" THEN "warm hung" ELSE "hung")
  /\ UNCHANGED <<vars, health, wait, done>>

\* wg.Wait() returns, the state is published and the checkers are started.
startCheckers ==
  /\ \A t \in Threads : at[t] = "warmed" /\ pc[t] = "idle"
  /\ at' = [t \in Threads |-> "top"]
  /\ UNCHANGED <<vars, health, wait, done>>

\* The warm checks are over and the checkers have been started.
Serving == \A t \in Threads : at[t] \notin {"warm", "warm hung", "warmed"}

\* stop() closes p.done, once the checkers run.
stop ==
  /\ Serving
  /\ ~done
  /\ done' = TRUE
  /\ UNCHANGED <<vars, health, at, wait>>

\* Mutant: p.done is looked at only in the first select.
TopBlind(t) ==
  /\ at[t] = "top" /\ pc[t] = "idle"
  /\ Become(t, IF wait[t] > 0 THEN "asleep" ELSE "awake")
  /\ UNCHANGED <<vars, health, wait, done>>

\* The two selects at the top of the loop.  With a positive interval the
\* goroutine goes to sleep unless p.done is closed already; with none it only
\* looks at p.done.
Top(t) ==
  /\ at[t] = "top" /\ pc[t] = "idle"
  /\ Become(t, IF done THEN "exited" ELSE IF wait[t] > 0 THEN "asleep" ELSE "awake")
  /\ UNCHANGED <<vars, health, wait, done>>

\* Asleep, the timer and p.done compete.
Timer(t) ==
  /\ at[t] = "asleep"
  /\ Become(t, "awake")
  /\ UNCHANGED <<vars, health, wait, done>>

Stopped(t) ==
  /\ at[t] = "asleep" /\ done
  /\ Become(t, "exited")
  /\ UNCHANGED <<vars, health, wait, done>>

\* Mutant: a forwarder below the active priority is left alone for good.
SkipLowerAlways(t, f) ==
  /\ at[t] = "awake"
  /\ Become(t, IF Pri[f] < priority THEN "exited" ELSE "look")
  /\ UNCHANGED <<vars, health, wait, done>>

\* `if wait > 0 && (fwdr.Priority() < p.Priority())`
SkipLowerTier(t, f) ==
  /\ at[t] = "awake"
  /\ Become(t, IF wait[t] > 0 /\ Pri[f] < priority THEN "top" ELSE "look")
  /\ UNCHANGED <<vars, health, wait, done>>

\* `if fwdr.Enabled() && p.config.CheckDisabledOnly`
SkipEnabled(t, f) ==
  /\ at[t] = "look"
  /\ Become(t, IF Enabled(f) /\ CheckDisabledOnly THEN "top" ELSE "checking")
  /\ UNCHANGED <<vars, health, wait, done>>

CheckSucceeds(t, f) ==
  /\ at[t] \in {"checking", "hung"} /\ health[f] = "up"
  /\ Enable(t, f)
  /\ wait' = [wait EXCEPT ![t] = 1]
  /\ Become(t, "top")
  /\ UNCHANGED <<health, done>>

\* The failure of the check's own dial is counted first.
CheckDialFails(t, f) ==
  /\ at[t] \in {"checking", "hung"}
  /\ DialCounted(t, f)
  /\ Become(t, "failing")
  /\ UNCHANGED <<health, wait, done>>

\* Mutant: a failed check only backs off.
BackOffOnly(t, f) ==
  /\ \/ at[t] = "failing" /\ health[f] # "unsupported"
     \/ at[t] \in {"checking", "hung"} /\ health[f] \in {"down", "silent"}
  /\ pc[t] = "idle"
  /\ wait' = [wait EXCEPT ![t] = IF @ < MaxWait THEN @ + 1 ELSE MaxWait]
  /\ Become(t, "top")
  /\ UNCHANGED <<vars, health, done>>

CheckFails(t, f) ==
  /\ \/ at[t] = "failing" /\ health[f] # "unsupported"
     \/ at[t] \in {"checking", "hung"} /\ health[f] \in {"down", "silent"}
  /\ Disable(t, f)
  /\ wait' = [wait EXCEPT ![t] = IF @ < MaxWait THEN @ + 1 ELSE MaxWait]
  /\ Become(t, "top")
  /\ UNCHANGED <<health, done>>

\* proxy.ErrNotSupported, which Forwarder.Dial has counted like any failure: the
\* forwarder stays enabled and is never checked again.
NotSupported(t, f) ==
  /\ at[t] = "failing" /\ health[f] = "unsupported"
  /\ StopChecking(t, f)
  /\ Become(t, "exited")
  /\ UNCHANGED <<health, wait, done>>

-----------------------------------------------------------------------------

\* A forwarder's upstream fails, falls silent or recovers.
Turn(f) ==
  /\ health[f] # "unsupported"
  /\ \E h \in {"up", "down", "silent"} \ {health[f]} : health' = [health EXCEPT ![f] = h]
  /\ UNCHANGED <<vars, at, wait, done>>

CheckInit ==
  /\ Init
  /\ health \in [Fwdr -> {"up", "down", "silent", "unsupported"}]
  /\ at = [t \in Threads |-> "warm"]
  /\ wait = [t \in Threads |-> 0]
  /\ done = FALSE

Hung(t) == at[t] \in {"hung", "warm hung"}

\* One step of the checker itself.
CheckerStep(t) ==
  LET f == Checks[t]
  IN  \/ WarmSucceeds(t, f) \/ WarmFails(t, f)
      \/ Top(t) \/ Timer(t) \/ Stopped(t) \/ SkipLowerTier(t, f) \/ SkipEnabled(t, f)
      \/ CheckSucceeds(t, f) \/ CheckDialFails(t, f) \/ CheckFails(t, f)
      \/ NotSupported(t, f) \/ Hang(t, f)

CheckNext ==
  \/ \E t \in Threads : CheckerStep(t)
  \/ startCheckers
  \/ stop
  \/ \E f \in Fwdr : Turn(f)
  \/ \E t \in Threads : Step(t) /\ UNCHANGED checkVars

CheckSpec == CheckInit /\ [][CheckNext]_healthVars

\* A check that has not hung ends or hangs, timers fire, a goroutine inside a
\* call goes on, and the mutex is starvation-free.  Nothing is assumed of a check
\* that hangs, nor of the upstreams.
FairCheckSpec ==
  /\ CheckSpec
  /\ WF_healthVars(startCheckers)
  /\ \A t \in Threads : WF_healthVars(~Hung(t) /\ CheckerStep(t))
  /\ \A t \in Threads :
       /\ WF_healthVars(Step(t) /\ UNCHANGED checkVars)
       /\ SF_healthVars(onStatusChanged(t) /\ UNCHANGED checkVars)

-----------------------------------------------------------------------------

\* The group serves and the forwarder's checker is not held by a check.
Watched(f) == Serving /\ \A t \in Threads : Checks[t] = f => at[t] # "hung"

\* A forwarder whose upstream stays up ends up enabled for good, unless its tier
\* is below the active one or a check of it hangs.
Recovers == \A f \in Fwdr :
  <>[](health[f] = "up" /\ Pri[f] >= priority /\ ~done /\ Watched(f)) => <>[]Enabled(f)

\* A forwarder whose upstream stays down or silent ends up disabled, and stays
\* so, unless a check of it hangs.
Detects == \A f \in Fwdr :
  <>[](health[f] \in {"down", "silent"} /\ Pri[f] >= priority /\ ~done /\ Watched(f))
    => \/ CheckDisabledOnly
       \/ <>[]~Enabled(f)

\* What operators would expect of a health check, and the missing deadlines deny:
\* an upstream that stays silent is disabled.
SilentIsDetected == \A f \in Fwdr :
  <>[](health[f] = "silent" /\ Pri[f] >= priority /\ ~done /\ Serving) => <>[]~Enabled(f)

\* As long as one upstream stays up, of whatever tier, and no check of it hangs,
\* the rotation is never empty for good, whatever the other checks do: when a
\* tier empties, init() drops the priority to 0 so that the checkers skip nobody.
SomeoneServes ==
  (\E f \in Fwdr : <>[](health[f] = "up" /\ ~done /\ Watched(f))) => []<>(avail # <<>>)

\* After stop() every checker exits, or is held by a check that does not end.
CheckersExit == done ~> \A t \in Threads : at[t] \in {"exited", "hung"}

\* The comments of check(): only the first iteration does without sleep, every
\* other one blocks until the next interval or until stop().
SleepsBetweenChecks == [][
  \A t \in Threads : at[t] \in {"awake", "look"} /\ at'[t] = "top" => wait[t] > 0]_healthVars
=============================================================================
