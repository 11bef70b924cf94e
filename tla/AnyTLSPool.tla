----------------------------- MODULE AnyTLSPool -----------------------------
(***************************************************************************)
(* The pool of the AnyTLS client, proxy/anytls/session/client.go.  A dial  *)
(* takes the most recently idled session or creates one and opens a stream *)
(* on it; closing the stream puts the session back.  Sessions die on their *)
(* own, expire, and die with the client.  What happens inside a session is *)
(* AnyTLSSession; here OpenStream succeeds or fails.  One action is what   *)
(* runs under one lock, or between two.                                    *)
(***************************************************************************)
EXTENDS Naturals, Sequences, Functions

CONSTANTS
  Users,      \* goroutines that dial
  Sessions,   \* bound: sessions ever created, numbered from 1
  Opens       \* bound: dials per user

ASSUME OpensAssumption == Opens \in Nat

VARIABLES
  closing,    \* Client.Close: no, cancelled (ctx is done) or closed
  idle,       \* idleSessions
  table,      \* sessions
  se,         \* per session: made, dead, where Close is, InIdle
  us          \* per user: where it is, its session, whether it has a stream

pool == <<closing, idle, table, se, us>>

Cancelled == closing # "no"
Live(s) == ~se[s].die
S(u) == us[u].s
Goto(u, pc) == us' = [us EXCEPT ![u].pc = pc]

\* The idle list is cut down to the sessions at the places K, in their order.
KeepIdle(K) ==
  \E n \in 0 .. Len(idle) : \E p \in [1 .. n -> K] :
    /\ Range(p) = K /\ \A i, j \in 1 .. n : i < j => p[i] < p[j]
    /\ idle' = [i \in 1 .. n |-> idle[p[i]]]

PoolInit ==
  /\ closing = "no" /\ idle = <<>> /\ table = {}
  /\ se = [s \in Sessions |-> [made |-> FALSE, die |-> FALSE, hook |-> "no", inIdle |-> FALSE]]
  /\ us = [u \in Users |-> [pc |-> "out", s |-> 0, open |-> FALSE, left |-> Opens]]

-----------------------------------------------------------------------------
\* Session.Close: one caller closes die and runs the hook of createSession;
\* the others return at once.

Close(e) == IF e.die THEN e ELSE [e EXCEPT !.die = TRUE, !.hook = "unmark"]

DieHookUnmark(s) ==
  /\ se[s].hook = "unmark"
  /\ se' = [se EXCEPT ![s].hook = "unlist", ![s].inIdle = FALSE]
  /\ UNCHANGED <<closing, idle, table, us>>

DieHookUnlist(s) ==
  /\ se[s].hook = "unlist"
  /\ se' = [se EXCEPT ![s].hook = "forget"]
  /\ LET at == {k \in DOMAIN idle : idle[k] = s} IN
     KeepIdle({k \in DOMAIN idle : k \notin at \/ \E j \in at : j < k})
  /\ UNCHANGED <<closing, table, us>>

DieHookForget(s) ==
  /\ se[s].hook = "forget"
  /\ se' = [se EXCEPT ![s].hook = "done"]
  /\ table' = table \ {s}
  /\ UNCHANGED <<closing, idle, us>>

\* The receive loop ends, or a control frame cannot be written.
SessionDies(s) ==
  /\ se[s].made /\ Live(s)
  /\ se' = [se EXCEPT ![s] = Close(@)]
  /\ UNCHANGED <<closing, idle, table, us>>

-----------------------------------------------------------------------------
\* CreateStream.

CreateStream(u) ==
  /\ us[u].pc = "out" /\ us[u].left > 0 /\ ~Cancelled
  /\ us' = [us EXCEPT ![u] = [pc |-> "get", s |-> 0, open |-> FALSE, left |-> @.left - 1]]
  /\ UNCHANGED <<closing, idle, table, se>>

\* getIdleSession pops until it finds a session that lives; k is its place.
getIdleSession(u) ==
  /\ us[u].pc = "get"
  /\ \E k \in 0 .. Len(idle) :
     /\ k > 0 => Live(idle[k])
     /\ \A j \in k + 1 .. Len(idle) : ~Live(idle[j])
     /\ idle' = SubSeq(idle, 1, IF k = 0 THEN 0 ELSE k - 1)
     /\ se' = [s \in Sessions |->
                 IF \E j \in k .. Len(idle) : j > 0 /\ idle[j] = s
                 THEN [se[s] EXCEPT !.inIdle = FALSE] ELSE se[s]]
     /\ us' = [us EXCEPT ![u].pc = IF k = 0 THEN "dial" ELSE "open",
                         ![u].s  = IF k = 0 THEN 0 ELSE idle[k]]
  /\ UNCHANGED <<closing, table>>

\* createOutboundConn fails: to dial, to shake hands or to authenticate.
DialFails(u) ==
  /\ us[u].pc = "dial"
  /\ Goto(u, "out")
  /\ UNCHANGED <<closing, idle, table, se>>

createSession(u, s) ==
  /\ us[u].pc = "dial"
  /\ ~se[s].made /\ \A r \in 1 .. s - 1 : se[r].made
  /\ se' = [se EXCEPT ![s].made = TRUE]
  /\ table' = table \cup {s}
  /\ us' = [us EXCEPT ![u].pc = "open", ![u].s = s]
  /\ UNCHANGED <<closing, idle>>

OpenStream(u) ==
  /\ us[u].pc = "open" /\ Live(S(u))
  /\ us' = [us EXCEPT ![u].pc = "use", ![u].open = TRUE]
  /\ UNCHANGED <<closing, idle, table, se>>

OpenStreamFails(u) ==
  /\ us[u].pc = "open"
  /\ se' = [se EXCEPT ![S(u)] = Close(@)]
  /\ Goto(u, "out")
  /\ UNCHANGED <<closing, idle, table>>

-----------------------------------------------------------------------------
\* CloseFunc.

\* Mutant: without closeOnce a second Close does everything again.
CloseFuncTwice(u) ==
  /\ us[u].pc \in {"use", "out"} /\ us[u].s # 0
  /\ us' = [us EXCEPT ![u].pc = "idle", ![u].open = FALSE]
  /\ UNCHANGED <<closing, idle, table, se>>

\* A stream may be closed again later: closeOnce makes that nothing.
CloseFunc(u) ==
  /\ us[u].pc \in {"use", "out"} /\ us[u].open
  /\ us' = [us EXCEPT ![u].pc = "idle", ![u].open = FALSE]
  /\ UNCHANGED <<closing, idle, table, se>>

\* Mutant: the context is not looked at.
CloseFuncIdleAlways(u) ==
  /\ us[u].pc = "idle"
  /\ Goto(u, IF Live(S(u)) THEN "mark" ELSE "out")
  /\ UNCHANGED <<closing, idle, table, se>>

\* A live session of a live client goes back.
CloseFuncIdle(u) ==
  /\ us[u].pc = "idle"
  /\ se' = IF Live(S(u)) /\ Cancelled THEN [se EXCEPT ![S(u)] = Close(@)] ELSE se
  /\ Goto(u, IF Live(S(u)) /\ ~Cancelled THEN "mark" ELSE "out")
  /\ UNCHANGED <<closing, idle, table>>

returnToIdle(u) ==
  /\ us[u].pc = "mark"
  /\ se' = [se EXCEPT ![S(u)].inIdle = TRUE]
  /\ Goto(u, IF se[S(u)].inIdle THEN "out" ELSE "list")
  /\ UNCHANGED <<closing, idle, table>>

returnToIdleList(u) ==
  /\ us[u].pc = "list"
  /\ idle' = Append(idle, S(u))
  /\ Goto(u, "out")
  /\ UNCHANGED <<closing, table, se>>

-----------------------------------------------------------------------------

\* idleCleanup: the list is in the order of IdleSince, so the expired sessions
\* are the first n of it.
idleCleanup(n) ==
  /\ ~Cancelled
  /\ LET old == {idle[i] : i \in 1 .. n}
         gone == {s \in Range(idle) : ~Live(s)} \cup old IN
     /\ gone # {}
     /\ KeepIdle({i \in DOMAIN idle : idle[i] \notin gone})
     /\ se' = [s \in Sessions |->
                 IF s \notin gone THEN se[s] ELSE Close([se[s] EXCEPT !.inIdle = FALSE])]
  /\ UNCHANGED <<closing, table, us>>

\* Client.Close: cancel, then close what the table holds.
ClientCancel ==
  /\ closing = "no"
  /\ closing' = "cancelled"
  /\ UNCHANGED <<idle, table, se, us>>

ClientClose ==
  /\ closing = "cancelled"
  /\ closing' = "closed" /\ table' = {}
  /\ se' = [s \in Sessions |-> IF s \in table THEN Close(se[s]) ELSE se[s]]
  /\ UNCHANGED <<idle, us>>

-----------------------------------------------------------------------------

PoolUser(u) ==
  \/ getIdleSession(u) \/ DialFails(u) \/ \E s \in Sessions : createSession(u, s)
  \/ OpenStream(u) \/ OpenStreamFails(u)
  \/ CloseFuncIdle(u) \/ returnToIdle(u) \/ returnToIdleList(u)

DieHook(s) == DieHookUnmark(s) \/ DieHookUnlist(s) \/ DieHookForget(s)

PoolNext ==
  \/ \E u \in Users : CreateStream(u) \/ PoolUser(u) \/ CloseFunc(u)
  \/ \E s \in Sessions : DieHook(s) \/ SessionDies(s)
  \/ \E n \in 0 .. Len(idle) : idleCleanup(n)
  \/ ClientCancel \/ ClientClose

\* Every goroutine goes on while it can.
PoolFairness ==
  /\ \A u \in Users : WF_pool(PoolUser(u))
  /\ \A s \in Sessions : WF_pool(DieHook(s))
  /\ WF_pool(ClientClose)

PoolSpec == PoolInit /\ [][PoolNext]_pool /\ PoolFairness

-----------------------------------------------------------------------------
\* Properties.

Holders(s) ==
  {u \in Users : S(u) = s /\ us[u].pc \in {"open", "use", "idle", "mark", "list"}}

\* A session serves one stream user at a time (CreateStream, CloseFunc): no two
\* users hold it, none holds it while it is in the idle list, and the list
\* names it at most once, whatever the order of closes, deaths and clean-ups.
ExclusiveUse ==
  /\ IsInjective(idle)
  /\ \A s \in Sessions :
       /\ \A u, v \in Holders(s) : u = v
       /\ s \in Range(idle) => Holders(s) = {}

\* After Client.Close no session stays behind: from some time on every session
\* that still lives is one a user still holds, although sessions are created
\* and put back while the client closes (CreateStream, CloseFunc, createSession).
ClosedClientEmpties ==
  (closing = "closed") ~>
    [](\A s \in Sessions : se[s].made /\ Live(s) => Holders(s) # {})

=============================================================================
