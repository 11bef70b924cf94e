---------------------------- MODULE AnyTLSSession ---------------------------
(***************************************************************************)
(* One AnyTLS session and its streams, proxy/anytls/session/session.go and *)
(* stream.go, used as the pool uses it: one stream after the other.  The   *)
(* receive loop hands frames to the streams; per stream a write loop moves *)
(* them from a bounded queue into a pipe.  Data frames are numbered.       *)
(* The server is external: it follows the protocol and sends data on a     *)
(* stream once it has the target address.                                  *)
(***************************************************************************)
EXTENDS Naturals, Sequences, Functions

CONSTANTS
  Streams,    \* bound: streams opened on the session
  Frames,     \* bound: data frames the server sends, per stream
  QueueCap,   \* dataQueueCap: 64 in the code
  WireCap     \* bound: frames on their way to the client

ASSUME StreamsAssumption == Streams \in Nat

VARIABLES
  ss,         \* the session
  st,         \* per stream id: the stream
  user        \* the user of the session: where it is; its stream is ss.sid

session == <<ss, st, user>>
Sids == 1 .. Streams
Frame(t, sid, n) == [t |-> t, sid |-> sid, n |-> n]
NoFrame == Frame("none", 0, 0)
sid == ss.sid

\* NewClientSession and Run: the settings wait in the buffer, which is off once
\* it has been flushed.  peer is the server's version, ver what it told; wire
\* the frames to the client, hand the one the receive loop works on.
NewSession(version) ==
  [die |-> FALSE, ended |-> FALSE, up |-> TRUE, loop |-> TRUE, peer |-> version,
   ver |-> 0, sid |-> 0, streams |-> {}, buffer |-> "on", wire |-> <<>>,
   hand |-> NoFrame]

\* newStream: by is what took dieOnce; pipe is open, or what a read returns
\* once it is closed; moving is the frame inside pw.Write; read and end are what
\* the reader got.  heard, acked and sent are the server's side.
NewStream ==
  [by |-> "none", q |-> <<>>, moving |-> 0, writer |-> TRUE, pipe |-> "open",
   syn |-> "none", read |-> <<>>, end |-> "none", heard |-> "no", acked |-> FALSE,
   sent |-> 0]

SessionInit ==
  /\ \E v \in {1, 2} : ss = NewSession(v)
  /\ st = [i \in Sids |-> NewStream]
  /\ user = "out"

-----------------------------------------------------------------------------
\* dieOnce.Do of a stream: the first closer sets closed, closes the queue and
\* decides whether what is in it is discarded (done).
DieOnce(x, by) == IF x.by = "none" THEN [x EXCEPT !.by = by] ELSE x
Closed(x) == x.by # "none"
Done(x) == x.by \in {"overflow", "force", "open"}

\* pw.Close, pw.CloseWithError and pr.Close: the first one is what a read sees.
ClosePipe(x, err) == IF x.pipe = "open" THEN [x EXCEPT !.pipe = err] ELSE x

closeLocally(x) == DieOnce(x, "fin")
overflowClose(x) == ClosePipe(DieOnce(x, "overflow"), "eof")
forceClose(x) == ClosePipe(DieOnce(x, "force"), "error")
closePipe(x) == DieOnce(x, "open")

CloseSession(e) == [e EXCEPT !.die = TRUE]

\* The rest of Session.Close: every registered stream is closed under
\* streamLock, then the connection.
CloseStreams ==
  /\ ss.die /\ ~ss.ended
  /\ st' = [i \in Sids |-> IF i \in ss.streams THEN forceClose(st[i]) ELSE st[i]]
  /\ ss' = [ss EXCEPT !.ended = TRUE, !.streams = {}, !.up = FALSE, !.wire = <<>>]
  /\ UNCHANGED user

\* writeConn: what is written while buffering arrives with the first write
\* after it; only the first SYN is.
Writable(e) == e.buffer = "on" \/ e.up
Flushed(e) == IF e.buffer = "full" THEN [e EXCEPT !.buffer = "off"] ELSE e
Hears(x, what) ==
  IF ~Writable(ss) \/ ss.buffer = "on" \/ x.heard = "fin" THEN x
  ELSE [x EXCEPT !.heard = what, !.acked = @ /\ what # "fin"]

\* writeControlFrame: a failed write closes the session.
Control(e) == IF Writable(e) THEN Flushed(e) ELSE CloseSession(e)

-----------------------------------------------------------------------------
\* OpenStream, with what CreateStream does on an error: it closes the session.

flushBuffering(e) == [e EXCEPT !.buffer = IF @ = "on" THEN "full" ELSE @]

OpenFails(e) == ss' = CloseSession(e) /\ user' = "out"

\* Up to and including flushBuffering.
OpenSyn ==
  /\ user = "out" /\ sid < Streams
  /\ \/ ss.die /\ OpenFails(ss) /\ UNCHANGED st
     \/ /\ ~ss.die /\ ~Writable(ss)
        /\ st' = [st EXCEPT ![sid + 1] = closePipe(@)]
        /\ OpenFails([ss EXCEPT !.sid = sid + 1])
     \/ /\ ~ss.die /\ Writable(ss)
        /\ st' = [st EXCEPT ![sid + 1] = Hears(@, "syn")]
        /\ ss' = flushBuffering([Flushed(ss) EXCEPT !.sid = sid + 1])
        /\ user' = "register"

\* Mutant: the stream is registered without looking at die.
RegisterBlindly ==
  /\ user = "register"
  /\ ss' = [ss EXCEPT !.streams = @ \cup {sid}]
  /\ user' = IF sid >= 2 /\ ss.ver >= 2 THEN "synack" ELSE "addr"
  /\ UNCHANGED st

\* The registration under streamLock, and whether OpenStream then waits.
Register ==
  /\ user = "register"
  /\ \/ /\ ss.die
        /\ st' = [st EXCEPT ![sid] = closePipe(@)]
        /\ OpenFails(ss)
     \/ /\ ~ss.die
        /\ ss' = [ss EXCEPT !.streams = @ \cup {sid}]
        /\ user' = IF sid >= 2 /\ ss.ver >= 2 THEN "synack" ELSE "addr"
        /\ UNCHANGED st

SynAccepted ==
  /\ user = "synack" /\ st[sid].syn = "ok"
  /\ st' = [st EXCEPT ![sid].syn = "none"]
  /\ user' = "addr"
  /\ UNCHANGED ss

\* The server refused the stream, or three seconds went by.
SynRefused ==
  /\ user = "synack"
  /\ st' = [st EXCEPT ![sid] = forceClose(@)]
  /\ OpenFails([ss EXCEPT !.streams = @ \ {sid}])

SynDied ==
  /\ user = "synack" /\ ss.die
  /\ user' = "out"
  /\ UNCHANGED <<ss, st>>

-----------------------------------------------------------------------------
\* Using a stream.  AnyTLS.Dial writes the target address and closes the stream
\* when that fails; later a failed write is an error for the user alone.

Write ==
  /\ user \in {"addr", "use"}
  /\ LET ok == ~Closed(st[sid]) /\ Writable(ss) IN
     /\ ss' = IF ok THEN Flushed(ss) ELSE ss
     /\ st' = IF ok THEN [st EXCEPT ![sid] = Hears(@, "addr")] ELSE st
     /\ user' = IF ok \/ user = "use" THEN "use" ELSE "bad"

\* Stream.Read: the pipe hands over the frame the write loop holds.
Read ==
  /\ user = "use" /\ st[sid].pipe = "open" /\ st[sid].moving > 0
  /\ st' = [st EXCEPT ![sid].moving = 0, ![sid].read = Append(@, st[sid].moving)]
  /\ UNCHANGED <<ss, user>>

ReadEnds ==
  /\ user = "use" /\ st[sid].pipe # "open" /\ st[sid].end = "none"
  /\ st' = [st EXCEPT ![sid].end = st[sid].pipe]
  /\ UNCHANGED <<ss, user>>

\* SetReadDeadline, when its time has come.
ReadDeadline ==
  /\ user = "use" /\ st[sid].pipe = "open"
  /\ st' = [st EXCEPT ![sid] = ClosePipe(@, "error")]
  /\ UNCHANGED <<ss, user>>

\* CloseRemote up to its pw.Close: with the reader gone, nothing can be seen any
\* more of what the queue and the pipe hold.
CloseRemote ==
  /\ user \in {"bad", "use"}
  /\ st' = [st EXCEPT ![sid] = [NewStream EXCEPT !.by = "user", !.pipe = "eof",
                !.writer = st[sid].writer, !.heard = st[sid].heard, !.acked = st[sid].acked]]
  /\ user' = IF st[sid].by = "none" THEN "fin" ELSE "out"
  /\ UNCHANGED ss

streamClosed ==
  /\ user = "fin"
  /\ ss' = IF ss.die THEN ss ELSE [Control(ss) EXCEPT !.streams = @ \ {sid}]
  /\ st' = IF ss.die THEN st ELSE [st EXCEPT ![sid] = Hears(@, "fin")]
  /\ user' = "out"

-----------------------------------------------------------------------------
\* recvLoop: one step takes a frame off the wire and looks its stream up, the
\* next one, without streamLock, acts on the stream it found.

RecvFrame ==
  /\ ss.loop /\ ss.hand = NoFrame /\ ~ss.die /\ ss.wire # <<>>
  /\ LET f == Head(ss.wire)
         e == [ss EXCEPT !.wire = Tail(@)]
         found == [e EXCEPT !.hand = IF f.sid \in e.streams THEN f ELSE NoFrame] IN
     /\ ss' = CASE f.t \in {"PSH", "SYNACK"} -> found
                [] f.t = "FIN"      -> [found EXCEPT !.streams = @ \ {f.sid}]
                [] f.t = "SETTINGS" -> [e EXCEPT !.ver = f.n]
                [] f.t = "HEART"    -> Control(e)
                [] f.t = "ALERT"    -> [CloseSession(e) EXCEPT !.loop = FALSE]
     /\ st' = IF f.t = "HEART" /\ ss.buffer = "full"
              THEN [st EXCEPT ![1] = Hears(@, "syn")] ELSE st
  /\ UNCHANGED user

enqueue(x) == ~Closed(x) /\ Len(x.q) < QueueCap

\* Mutant: a frame that finds the queue full is dropped, the stream goes on.
HandleDataDrops ==
  /\ ss.hand.t = "PSH"
  /\ LET f == ss.hand IN
     st' = [st EXCEPT ![f.sid].q = IF enqueue(st[f.sid]) THEN Append(@, f.n) ELSE @]
  /\ ss' = [ss EXCEPT !.hand = NoFrame]
  /\ UNCHANGED user

HandleData ==
  /\ ss.hand.t = "PSH"
  /\ LET f == ss.hand
         e == [ss EXCEPT !.hand = NoFrame] IN
     \/ /\ enqueue(st[f.sid])
        /\ st' = [st EXCEPT ![f.sid].q = Append(@, f.n)]
        /\ ss' = e
     \/ /\ ~enqueue(st[f.sid])
        /\ st' = [st EXCEPT ![f.sid] = Hears(overflowClose(@), "fin")]
        /\ ss' = Control([e EXCEPT !.streams = @ \ {f.sid}])
  /\ UNCHANGED user

HandleFin ==
  /\ ss.hand.t = "FIN"
  /\ st' = [st EXCEPT ![ss.hand.sid] = closeLocally(@)]
  /\ ss' = [ss EXCEPT !.hand = NoFrame]
  /\ UNCHANGED user

\* synDone holds one result: the send succeeds whether or not OpenStream waits,
\* as the server answers a SYN once.
HandleSynack ==
  /\ ss.hand.t = "SYNACK"
  /\ st' = [st EXCEPT ![ss.hand.sid].syn = IF ss.hand.n = 0 THEN "ok" ELSE "refused"]
  /\ ss' = [ss EXCEPT !.hand = NoFrame]
  /\ UNCHANGED user

\* The connection fails, or the session died: the loop ends with Close.
RecvEnds ==
  /\ ss.loop /\ ss.hand = NoFrame
  /\ ss.die \/ (~ss.up /\ ss.wire = <<>>)
  /\ ss' = [CloseSession(ss) EXCEPT !.loop = FALSE]
  /\ UNCHANGED <<st, user>>

\* writeLoop: the next frame goes into the pipe ...
WriteLoopTakes(i) ==
  /\ st[i].writer /\ st[i].moving = 0 /\ st[i].q # <<>>
  /\ st' = [st EXCEPT ![i].moving = Head(st[i].q), ![i].q = Tail(@)]
  /\ UNCHANGED <<ss, user>>

\* ... until the queue is closed and empty, done is closed, or the pipe is.
WriteLoopEnds(i) ==
  /\ st[i].writer
  /\ \/ st[i].moving = 0 /\ Closed(st[i]) /\ (st[i].q = <<>> \/ Done(st[i]))
     \/ st[i].moving > 0 /\ st[i].pipe # "open"
  /\ st' = [st EXCEPT ![i] = [ClosePipe(@, "eof")
                               EXCEPT !.writer = FALSE, !.moving = 0, !.q = <<>>]]
  /\ UNCHANGED <<ss, user>>

-----------------------------------------------------------------------------
\* The server and the network.

Send(f) ==
  /\ ss.up /\ Len(ss.wire) < WireCap
  /\ ss' = [ss EXCEPT !.wire = Append(@, f)]
  /\ UNCHANGED user

Open(i) == st[i].heard \in {"syn", "addr"}

Server(i) ==
  \/ /\ Open(i) /\ ss.peer = 2 /\ ~st[i].acked
     /\ st' = [st EXCEPT ![i].acked = TRUE]
     /\ \E err \in {0, 1} : Send(Frame("SYNACK", i, err))
  \/ /\ Open(i) /\ st[i].heard = "addr" /\ st[i].sent < Frames[i]
     /\ ss.peer = 2 => st[i].acked
     /\ st' = [st EXCEPT ![i].sent = @ + 1]
     /\ Send(Frame("PSH", i, st[i].sent + 1))
  \/ /\ Open(i) /\ (ss.peer = 2 => st[i].acked)
     /\ st' = [st EXCEPT ![i].heard = "fin", ![i].acked = FALSE]
     /\ Send(Frame("FIN", i, 0))

\* Settings, heartbeats and alerts; padding and unknown frames are skipped.
ServerSettings ==
  /\ ss.peer = 2 /\ ss.ver = 0 /\ st[1].heard # "no"
  /\ Frame("SETTINGS", 0, 2) \notin Range(ss.wire)
  /\ Send(Frame("SETTINGS", 0, 2))
  /\ UNCHANGED st

ServerExtra(t) ==
  /\ Send(Frame(t, 0, 0))
  /\ UNCHANGED st

\* The connection breaks; what was on the wire may be lost.
Break ==
  /\ ss.up
  /\ \E kept \in BOOLEAN :
       ss' = [ss EXCEPT !.up = FALSE, !.wire = IF kept THEN @ ELSE <<>>]
  /\ UNCHANGED <<st, user>>

-----------------------------------------------------------------------------

\* A user reads while there is something to read and closes the stream when a
\* read or the first write failed; nothing makes it close the stream before.
UserGoesOn ==
  \/ (sid > 0 /\ user # "out" /\ Register) \/ SynAccepted \/ SynRefused \/ SynDied
  \/ (user = "addr" /\ Write) \/ Read \/ ReadEnds
  \/ (user = "use" /\ st[sid].end # "none" /\ CloseRemote)
  \/ (user = "bad" /\ CloseRemote) \/ streamClosed

RecvLoop == RecvFrame \/ HandleData \/ HandleFin \/ HandleSynack \/ RecvEnds
WriteLoop(i) == WriteLoopTakes(i) \/ WriteLoopEnds(i)

SessionNext ==
  \/ OpenSyn \/ UserGoesOn \/ Write \/ ReadDeadline \/ CloseRemote
  \/ CloseStreams \/ RecvLoop
  \/ \E i \in Sids : WriteLoop(i) \/ Server(i)
  \/ ServerSettings \/ Break
  \/ \E t \in {"HEART", "ALERT"} : ServerExtra(t)

\* Every goroutine goes on while it can.
SessionFairness ==
  /\ WF_session(UserGoesOn) /\ WF_session(CloseStreams \/ RecvLoop)
  /\ \A i \in Sids : WF_session(WriteLoop(i))

SessionSpec == SessionInit /\ [][SessionNext]_session /\ SessionFairness

-----------------------------------------------------------------------------
\* Properties.

\* What a reader gets is what the server sent on that stream, in order and
\* without a gap; and an end of file caused by the server's FIN comes after all
\* of it (enqueue, writeLoop, closeLocally), on a session that dies as well.
DrainInOrder ==
  \A i \in Sids :
    /\ \A k \in DOMAIN st[i].read : st[i].read[k] = k
    /\ st[i].by = "fin" /\ st[i].end = "eof" => Len(st[i].read) = st[i].sent

\* When a session dies, every stream ever opened on it comes to its end: its
\* write loop exits and its readers return, also for a stream that was being
\* opened at that moment (Session.Close, OpenStream's check under streamLock).
DeadSessionEnds ==
  ss.die ~> (\A i \in 1 .. sid : ~st[i].writer /\ st[i].pipe # "open")

=============================================================================
