----------------------------- MODULE DNSUpstream -----------------------------
(***************************************************************************)
(* How DNS queries share the list of upstream servers (dns/upstream.go and *)
(* the loop of Client.exchange in dns/client.go).  All queries for a       *)
(* domain use one UPStream, whose only state is an atomic index; SwitchIf  *)
(* compares with one atomic load and then adds, or loads again.            *)
(***************************************************************************)
EXTENDS Naturals

CONSTANTS
  N,          \* the number of servers
  IndexMod,   \* the index wraps here: 2^32 in the code
  Queries     \* goroutines inside exchange

ASSUME UpstreamAssumption ==
  /\ N \in Nat \ {0}
  /\ IndexMod \in Nat \ {0}

Servers == 0 .. N - 1

VARIABLES
  index,    \* UPStream.index
  up,       \* the servers that answer (environment)
  pc,       \* per query: idle, attempt, compare, switch, reread or failed
  server,   \* exchange's `server`
  tries,    \* rounds of its loop that are over
  tried,    \* history: the servers this query has been sent to
  moved     \* history: queries under which the index left the order of the servers:
            \* another query moved it, or it wrapped and N does not divide IndexMod

vars == <<index, up, pc, server, tries, tried, moved>>

-----------------------------------------------------------------------------

Goto(q, label) == pc' = [pc EXCEPT ![q] = label]

\* UPStream.Server
Server == index % N

\* exchange: choose the current server.
Begin(q) ==
  /\ pc[q] = "idle"
  /\ server' = [server EXCEPT ![q] = Server]
  /\ tries' = [tries EXCEPT ![q] = 0]
  /\ tried' = [tried EXCEPT ![q] = {}]
  /\ moved' = moved \ {q}
  /\ Goto(q, "attempt")
  /\ UNCHANGED <<index, up>>

\* Mutant: the answer that arrives in the last round is not returned.
AttemptLastLost(q) ==
  /\ pc[q] = "attempt"
  /\ tried' = [tried EXCEPT ![q] = @ \cup {server[q]}]
  /\ IF server[q] \in up /\ tries[q] + 1 < N
     THEN Goto(q, "idle") /\ UNCHANGED tries
     ELSE Goto(q, "compare") /\ tries' = [tries EXCEPT ![q] = @ + 1]
  /\ UNCHANGED <<index, up, server, moved>>

\* One round: dial the server and exchange with it; the query ends with an answer
\* or goes on to SwitchIf.
Attempt(q) ==
  /\ pc[q] = "attempt"
  /\ tried' = [tried EXCEPT ![q] = @ \cup {server[q]}]
  /\ IF server[q] \in up
     THEN Goto(q, "idle") /\ UNCHANGED tries
     ELSE Goto(q, "compare") /\ tries' = [tries EXCEPT ![q] = @ + 1]
  /\ UNCHANGED <<index, up, server, moved>>

\* SwitchIf: the comparison.
Compare(q) ==
  /\ pc[q] = "compare"
  /\ Goto(q, IF Server = server[q] THEN "switch" ELSE "reread")
  /\ UNCHANGED <<index, up, server, tries, tried, moved>>

\* Mutant: the loop gives up one round early.
NextRoundShort(q) ==
  Goto(q, IF tries[q] + 1 < N THEN "attempt" ELSE "failed")

\* `for range ups.Len()`
NextRound(q) ==
  Goto(q, IF tries[q] < N THEN "attempt" ELSE "failed")

\* UPStream.Switch
Switch(q) ==
  /\ pc[q] = "switch"
  /\ index' = (index + 1) % IndexMod
  /\ server' = [server EXCEPT ![q] = index' % N]
  /\ NextRound(q)
  /\ moved' = moved \cup IF index' = 0 /\ IndexMod % N # 0 THEN Queries ELSE Queries \ {q}
  /\ UNCHANGED <<up, tries, tried>>

\* SwitchIf: another query has switched already; take what it chose.
Reread(q) ==
  /\ pc[q] = "reread"
  /\ server' = [server EXCEPT ![q] = Server]
  /\ NextRound(q)
  /\ UNCHANGED <<index, up, tries, tried, moved>>

\* The loop ran out: Record(dialer, false) charges the forwarder.
Blame(q) ==
  /\ pc[q] = "failed"
  /\ Goto(q, "idle")
  /\ UNCHANGED <<index, up, server, tries, tried, moved>>

\* A server goes down or comes back.
Flip(s) ==
  /\ up' = IF s \in up THEN up \ {s} ELSE up \cup {s}
  /\ UNCHANGED <<index, pc, server, tries, tried, moved>>

-----------------------------------------------------------------------------

Init ==
  /\ index = 0
  /\ up \in SUBSET Servers
  /\ pc = [q \in Queries |-> "idle"]
  /\ server = [q \in Queries |-> 0]
  /\ tries = [q \in Queries |-> 0]
  /\ tried = [q \in Queries |-> {}]
  /\ moved = {}

Step(q) == Begin(q) \/ Attempt(q) \/ Compare(q) \/ Switch(q) \/ Reread(q) \/ Blame(q)

Next == (\E q \in Queries : Step(q)) \/ (\E s \in Servers : Flip(s))

Spec == Init /\ [][Next]_vars

\* A query that is under way goes on: goroutines are scheduled, and attempts end
\* by the dial timeout and Config.Timeout.
FairSpec == Spec /\ \A q \in Queries : WF_vars(Step(q))

-----------------------------------------------------------------------------

\* A query under which neither another query nor the wrap of the index at 2^32
\* upset the order has been sent to every server when exchange gives up and
\* charges the forwarder.
AllTriedAlone ==
  \A q \in Queries : pc[q] = "failed" /\ q \notin moved => tried[q] = Servers

\* The comment above Record in exchange: the forwarder is charged with a failure
\* when all upstream servers have failed the query.
AllTried == \A q \in Queries : pc[q] = "failed" => tried[q] = Servers

\* Once some server stays up, exchange finds it: there is a time from which only
\* queries under which the index left the order run out of servers.
OneServerSuffices ==
  (\E s \in Servers : <>[](s \in up))
    => <>[](\A q \in Queries : pc[q] = "failed" => q \in moved)
=============================================================================
