----------------------------- MODULE ProxyReload -----------------------------
(***************************************************************************)
(* Hot reload (rule/proxy.go: NewProxy, Reload; main.go: the signal loop   *)
(* and reload).  Each generation of the config is a proxyState with its    *)
(* own forwarders and checkers.  The signal goroutine builds a state,      *)
(* waits for its warm check, publishes it by one atomic swap, starts its   *)
(* checkers and tells those of the old state to stop.  The swapped-out     *)
(* state lives on in checks that are under way.                            *)
(*                                                                         *)
(* A check goes through the phases of rule/check.go: the dial, the TLS     *)
(* handshake of an https check, and the exchange, which alone runs under   *)
(* the deadline that checktimeout sets.  A checker's flag changes and      *)
(* sleeps are modelled in FwdrGroup and HealthCheck.                       *)
(***************************************************************************)
EXTENDS Naturals

CONSTANTS
  MaxGenerations,   \* how many generations are built, for model checking
  Fwdr,             \* the forwarders of a generation
  WithTLS           \* whether the check url is https

ASSUME ReloadAssumption == MaxGenerations \in Nat \ {0} /\ WithTLS \in BOOLEAN

Generations == 1..MaxGenerations

None == 0   \* no state published yet

VARIABLES
  published,  \* Proxy.state: the published generation
  building,   \* the generation NewProxy or Reload is working on
  built,      \* the last generation handed out
  main,       \* the signal goroutine: where it is in NewProxy or Reload
  sigCh,      \* a SIGHUP is waiting in the channel
  checker,    \* per generation and forwarder: where its goroutine is
  done        \* generations whose done channel is closed

reloadVars == <<published, building, built, main, sigCh, checker, done>>

Warming == {"warmDial", "warmTLS", "warmExchange"}

Checking == {"dial", "TLS", "exchange"}

Live == {"loop"} \cup Checking

Move(g, f, place) == checker' = [checker EXCEPT ![g][f] = place]

-----------------------------------------------------------------------------
(* The signal goroutine. *)

\* The operator sends SIGHUP; Notify drops it when one is already queued.
Hangup ==
  /\ sigCh' = TRUE
  /\ UNCHANGED <<published, building, built, main, checker, done>>

\* The loop of main takes the signal.
Receive ==
  /\ main = "wait" /\ sigCh
  /\ sigCh' = FALSE
  /\ main' = "build"
  /\ UNCHANGED <<published, building, built, checker, done>>

\* Mutant: the new state is published before it is warm.
BuildPublishes ==
  /\ main = "build" /\ built < MaxGenerations
  /\ building' = built + 1 /\ built' = built + 1
  /\ checker' = [checker EXCEPT ![built + 1] = [f \in Fwdr |-> "warmDial"]]
  /\ published' = built + 1
  /\ main' = "warm"
  /\ UNCHANGED <<sigCh, done>>

\* parseConfig and buildState succeed; warmCheck starts a goroutine for each
\* forwarder.
Build ==
  /\ main = "build" /\ built < MaxGenerations
  /\ building' = built + 1 /\ built' = built + 1
  /\ checker' = [checker EXCEPT ![built + 1] = [f \in Fwdr |-> "warmDial"]]
  /\ main' = "warm"
  /\ UNCHANGED <<published, sigCh, done>>

\* A malformed config: log, and keep the existing one (fatal at startup).
BuildFails ==
  /\ main = "build" /\ published # None
  /\ main' = "wait"
  /\ UNCHANGED <<published, building, built, sigCh, checker, done>>

\* wg.Wait() returns and the state is swapped in.
Swap ==
  /\ main = "warm"
  /\ \A f \in Fwdr : checker[building][f] = "warmed"
  /\ main' = "start"
  /\ published' = building /\ building' = published
  /\ UNCHANGED <<built, sigCh, checker, done>>

\* startCheckers on the new state; `building` now holds the old one.
Start ==
  /\ main = "start"
  /\ checker' = [checker EXCEPT ![published] = [f \in Fwdr |-> "loop"]]
  /\ main' = "stop"
  /\ UNCHANGED <<published, building, built, sigCh, done>>

\* stopCheckers on the old state, if there is one.
StopOld ==
  /\ main = "stop"
  /\ done' = IF building = None THEN done ELSE done \cup {building}
  /\ main' = "wait"
  /\ UNCHANGED <<published, building, built, sigCh, checker>>

-----------------------------------------------------------------------------
(* A check of forwarder f in generation g. *)

\* A phase ends well and the next one begins.
Advance(g, f) ==
  /\ \/ checker[g][f] = "warmDial" /\ Move(g, f, IF WithTLS THEN "warmTLS" ELSE "warmExchange")
     \/ checker[g][f] = "warmTLS" /\ Move(g, f, "warmExchange")
     \/ checker[g][f] = "dial" /\ Move(g, f, IF WithTLS THEN "TLS" ELSE "exchange")
     \/ checker[g][f] = "TLS" /\ Move(g, f, "exchange")
  /\ UNCHANGED <<published, building, built, main, sigCh, done>>

\* The check ends, in any phase with an error and after the exchange also with
\* success: a warm check is over, a later one goes back to the loop.
CheckEnds(g, f) ==
  /\ \/ checker[g][f] \in Warming /\ Move(g, f, "warmed")
     \/ checker[g][f] \in Checking /\ Move(g, f, "loop")
  /\ UNCHANGED <<published, building, built, main, sigCh, done>>

\* Mutant: check() never looks at done.
CheckForever(g, f) ==
  /\ checker[g][f] = "loop"
  /\ Move(g, f, "dial")
  /\ UNCHANGED <<published, building, built, main, sigCh, done>>

\* The loop of check(): the next check, or the exit that done asks for.
NextCheck(g, f) ==
  /\ checker[g][f] = "loop"
  /\ Move(g, f, IF g \in done THEN "exited" ELSE "dial")
  /\ UNCHANGED <<published, building, built, main, sigCh, done>>

-----------------------------------------------------------------------------

\* NewProxy runs the same sequence once at startup.
ReloadInit ==
  /\ published = None
  /\ building = None
  /\ built = 0
  /\ main = "build"
  /\ sigCh = FALSE
  /\ checker = [g \in Generations |-> [f \in Fwdr |-> "none"]]
  /\ done = {}

ReloadStep == Receive \/ Build \/ BuildFails \/ Swap \/ Start \/ StopOld

Check(g, f) == Advance(g, f) \/ CheckEnds(g, f) \/ NextCheck(g, f)

ReloadNext ==
  \/ Hangup
  \/ ReloadStep
  \/ \E g \in Generations, f \in Fwdr : Check(g, f)

ReloadSpec == ReloadInit /\ [][ReloadNext]_reloadVars

\* The goroutines run, and every check ends one way or the other.
ReloadFairSpec ==
  /\ ReloadSpec
  /\ WF_reloadVars(ReloadStep)
  /\ \A g \in Generations, f \in Fwdr : WF_reloadVars(Check(g, f))

\* The goroutines run, and what the code puts a deadline on ends: the dial
\* (dialtimeout) and the exchange (checktimeout), not the TLS handshake.
DeadlineSpec ==
  /\ ReloadSpec
  /\ WF_reloadVars(ReloadStep)
  /\ \A g \in Generations, f \in Fwdr :
       WF_reloadVars(checker[g][f] \notin {"warmTLS", "TLS"} /\ Check(g, f))

-----------------------------------------------------------------------------

\* The state of the reload is well typed; main's local never names a
\* generation that was not built.
ReloadTypeOK ==
  /\ published \in 0..built
  /\ building \in 0..built
  /\ built \in 0..MaxGenerations
  /\ main \in {"build", "warm", "start", "stop", "wait"}
  /\ sigCh \in BOOLEAN
  /\ checker \in [Generations -> [Fwdr -> Live \cup Warming \cup {"none", "warmed", "exited"}]]
  /\ done \subseteq 1..built

\* A Dial that loads the published state finds every forwarder checked: no warm
\* check of that state is still under way.
PublishedIsWarm ==
  published # None => \A f \in Fwdr : checker[published][f] \notin Warming

\* However reloads follow each other, only the checkers of the published state
\* and of the one it replaced a moment ago go on checking: all others were told
\* to stop.
AtMostOneUnstopped ==
  \A g \in Generations :
    (\E f \in Fwdr : checker[g][f] \in Live) =>
      g = published \/ g \in done \/ (main \in {"start", "stop"} /\ g = building)

\* The old state's checkers come to an end after every reload.
OldCheckersEnd ==
  \A g \in Generations : published > g ~> \A f \in Fwdr : checker[g][f] \notin Live

\* The comment on stopCheckers: when it has returned, the stopped state has no
\* live goroutine.
StoppedIsQuiet ==
  main = "wait" => \A g \in done, f \in Fwdr : checker[g][f] \notin Live

\* The comment on warmCheck: it ends, bounded by checktimeout.
WarmCheckEnds == main = "warm" ~> main = "start"
=============================================================================
