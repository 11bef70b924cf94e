-------------------------------- MODULE Relay --------------------------------
(***************************************************************************)
(* proxy/conn.go: the two copies between an accepted connection "l" and    *)
(* the connection "r" it is relayed to, with the peers at their far ends.  *)
(* A peer's bytes are a sequence of items; sockets hold a bounded number.  *)
(* The plain HTTP server's exchange uses the same copies with another end. *)
(***************************************************************************)
EXTENDS Integers, SequencesExt

CONSTANT Cap   \* bound: items written to a peer and not yet taken by it

VARIABLES
  conn,   \* per side: state, plan (what the peer has yet to send), in (arrived,
          \* unread), fin (how the peer ended), out (written to it), got (what it
          \* took), dl (the read deadline), timer (what a deadline comes to)
  copy,   \* per side read from: pc, the item in hand, and the copy's error
  pc      \* of the goroutine that serves the connection

Sides == {"l", "r"}
Far(s) == IF s = "l" THEN "r" ELSE "l"

NewConn(state, plan, timer) ==
  [state |-> state, plan |-> plan, in |-> <<>>, fin |-> "no", out |-> <<>>,
   got |-> <<>>, dl |-> "none", timer |-> timer]
NewCopy == [pc |-> "idle", hold |-> <<>>, err |-> "none"]

\* A read past its deadline fails with os.ErrDeadlineExceeded ("os"), but a stream
\* of smux or a connection of kcp with an error of its own ("own"), and a channel
\* of ssh has no deadlines ("none"); other layers use the one below.
Timer(kinds) ==
  LET at == {i \in DOMAIN kinds : kinds[i] \in {"smux", "kcp", "ssh"}} IN
  IF at = {} THEN "os" ELSE IF kinds[Max(at)] = "ssh" THEN "none" ELSE "own"

TimeoutOf(s) == IF conn[s].timer = "own" THEN "late" ELSE "timeout"

-----------------------------------------------------------------------------
\* The peers.

PeerSends(s) ==
  /\ conn[s].state = "open" /\ conn[s].fin = "no" /\ conn[s].plan # <<>>
  /\ conn' = [conn EXCEPT ![s].in = Append(@, Head(conn[s].plan)), ![s].plan = Tail(@)]
  /\ UNCHANGED <<copy, pc>>

PeerTakes(s) ==
  /\ conn[s].out # <<>>
  /\ conn' = [conn EXCEPT ![s].got = Append(@, Head(conn[s].out)), ![s].out = Tail(@)]
  /\ UNCHANGED <<copy, pc>>

\* The peer shuts its side down, or resets the connection.
PeerEnds(s) ==
  /\ conn[s].state = "open" /\ conn[s].fin = "no"
  /\ \/ conn' = [conn EXCEPT ![s].fin = "eof"]
     \/ conn' = [conn EXCEPT ![s].fin = "rst", ![s].in = <<>>, ![s].out = <<>>]
  /\ UNCHANGED <<copy, pc>>

DeadlinePasses(s) ==
  /\ conn[s].dl = "set"
  /\ conn' = [conn EXCEPT ![s].dl = "past"]
  /\ UNCHANGED <<copy, pc>>

-----------------------------------------------------------------------------
\* Copy, CopyBuffer: one item at a time.

CopyRead(a) ==
  /\ copy[a].pc = "read" /\ conn[a].state = "open"
  /\ conn[a].in # <<>> /\ conn[a].dl \notin {"past", "cut"}
  /\ copy' = [copy EXCEPT ![a].pc = "write", ![a].hold = <<Head(conn[a].in)>>]
  /\ conn' = [conn EXCEPT ![a].in = Tail(@)]
  /\ UNCHANGED pc

CopyWrite(a) ==
  /\ copy[a].pc = "write"
  /\ LET b == conn[Far(a)] IN
     b.state = "open" /\ b.fin # "rst" /\ b.dl # "cut" /\ Len(b.out) < Cap
  /\ conn' = [conn EXCEPT ![Far(a)].out = @ \o copy[a].hold]
  /\ copy' = [copy EXCEPT ![a].pc = "read", ![a].hold = <<>>]
  /\ UNCHANGED pc

\* How the copy from a ends: "none" at EOF, "timeout" or "late" at a deadline, or
\* the side that failed.
Ends(a) ==
  LET x == conn[a]
      y == conn[Far(a)] IN
  IF copy[a].pc = "read"
  THEN (IF x.state = "open" /\ x.fin = "eof" /\ x.in = <<>> THEN {"none"} ELSE {})
       \cup (IF x.fin = "rst" \/ x.state # "open" THEN {a} ELSE {})
       \cup (IF x.dl \in {"past", "cut"} THEN {TimeoutOf(a)} ELSE {})
  ELSE IF copy[a].pc = "write"
  THEN (IF y.fin = "rst" \/ y.state # "open" THEN {Far(a)} ELSE {})
       \cup (IF y.dl = "cut" THEN {TimeoutOf(Far(a))} ELSE {})
  ELSE {}


\* Relay: SetReadDeadline, five seconds from now, on the side still being read.
\* servHTTP: the copy of the request body cuts both connections, now.  The error
\* of a connection without deadlines is ignored.
SetDeadline(s, dl) == IF conn[s].timer = "none" THEN conn[s] ELSE [conn[s] EXCEPT !.dl = dl]

Unblock(a) ==
  IF pc = "relay" /\ conn[Far(a)].dl = "none"
  THEN [conn EXCEPT ![Far(a)] = SetDeadline(Far(a), "set")]
  ELSE IF pc = "plain" /\ a = "l" THEN [s \in Sides |-> SetDeadline(s, "cut")]
  ELSE conn

CopyEnds(a) ==
  \E err \in Ends(a) :
    /\ copy' = [copy EXCEPT ![a].pc = "done", ![a].hold = <<>>, ![a].err = err]
    /\ conn' = Unblock(a)
    /\ UNCHANGED pc

-----------------------------------------------------------------------------
\* Relay.

Running == [NewCopy EXCEPT !.pc = "read"]

\* Mutant: the goroutine is not waited for.
RelayDoneHalf == copy["r"].pc = "done"

\* Both copies are done: the WaitGroup.
RelayDone == \A s \in Sides : copy[s].pc = "done"

\* The error Relay returns: the first copy's before the second's, and none that is
\* os.ErrDeadlineExceeded.
RelayError ==
  LET real == {"l", "r", "late"} IN
  IF copy["l"].err \in real THEN copy["l"].err
  ELSE IF copy["r"].err \in real THEN copy["r"].err ELSE "none"

=============================================================================
