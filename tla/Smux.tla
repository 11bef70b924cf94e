-------------------------------- MODULE Smux --------------------------------
(***************************************************************************)
(* The stream multiplexer, pkg/smux/session.go and stream.go, versions 1   *)
(* and 2, between an end "o" that opens streams and writes and an end "p"  *)
(* that accepts them and reads; the code is the same at both ends, and one *)
(* direction of data exercises all of it (window updates flow back).       *)
(*                                                                         *)
(* Counters of bytes are taken modulo Wrap, as the code's are modulo 2^32: *)
(* streams are endless and the counters go round.  A byte carries its      *)
(* place in the stream, modulo Wrap, as its contents.                      *)
(***************************************************************************)
EXTENDS Integers, Sequences, FiniteSets, SequencesExt, FiniteSetsExt

CONSTANTS
  Loads,    \* Config and use of the sessions of a behaviour, see load
  WireCap   \* bound: frames on their way to one end

\* VerifyConfig and the defaults: a window is far from half the counters' range,
\* and a frame at most half the stream buffer.
ASSUME SmuxAssumption ==
  \A l \in Loads : l.ver = 2 =>
    l.frame <= l.buffer \div 2 /\ l.window < l.wrap \div 2 /\ l.buffer < l.wrap \div 2

VARIABLES
  load,     \* the version, MaxFrameSize, MaxStreamBuffer, MaxReceiveBuffer and
            \* initialPeerWindow, the size of the counters' type (wrap: 2^32 in
            \* the code), the streams, the longest Write and who may close
  ses,      \* per end: die, the read and write errors, whether the loops run
  bucket,   \* tokens of p, and its one-place bucketNotify
  bell,
  starved,  \* p's recvLoop waits for that notification
  shaper,   \* per end: write requests, control frames before data
  wire,     \* per end: frames on their way to it
  w,        \* per stream: o's side and the goroutine that writes
  r         \* per stream: p's side and the goroutine that reads

vars == <<load, ses, bucket, bell, starved, shaper, wire, w, r>>
io == <<ses, shaper, wire>>

Ends == {"o", "p"}
Sids == load.sids
Wrap == load.wrap
FrameSize == load.frame
StreamBuffer == load.buffer
AllSids == UNION {l.sids : l \in Loads}
Frame(cmd, sid, from, n) == [cmd |-> cmd, sid |-> sid, from |-> from, n |-> n]
Plus(a, b) == (a + b) % Wrap
Signed(a) == IF a >= Wrap \div 2 THEN a - Wrap ELSE a
Min2(a, b) == IF a < b THEN a ELSE b

\* newStream at both ends; numWritten, peerConsumed, peerWindow and chUpdate are
\* the writer's, buffers (of bytes <<from, n>>), incr and chReadEvent the
\* reader's.  todo is what the current Write has left, chunk what fits the
\* window, flight the frame handed to the shaper; hold is what the reader took
\* and has not yet returned as tokens.
NewWriter ==
  [pc |-> "new", reg |-> FALSE, die |-> FALSE, fin |-> FALSE, written |-> 0,
   consumed |-> 0, window |-> load.window, update |-> FALSE, todo |-> 0, chunk |-> 0,
   flight |-> 0]
NewReader ==
  [pc |-> "none", reg |-> FALSE, die |-> FALSE, fin |-> FALSE, buffers |-> <<>>,
   event |-> FALSE, read |-> 0, incr |-> 0, hold |-> 0, notify |-> FALSE, end |-> "none",
   closing |-> FALSE]

\* newSession at both ends.
Init ==
  /\ load \in Loads
  /\ ses = [e \in Ends |-> [die |-> FALSE, rerr |-> "none", werr |-> FALSE]]
  /\ bucket = load.receive /\ bell = FALSE /\ starved = FALSE
  /\ shaper = [e \in Ends |-> <<>>] /\ wire = [e \in Ends |-> <<>>]
  /\ w = [i \in Sids |-> NewWriter] /\ r = [i \in Sids |-> NewReader]

-----------------------------------------------------------------------------
\* shaperLoop and sendLoop.

\* The heap's order: control frames first, then the order of the requests.
Control == {"SYN", "UPD"}
Push(q, f) ==
  IF f.cmd \in Control
  THEN LET k == Cardinality({j \in DOMAIN q : q[j].cmd \in Control}) IN
       InsertAt(q, k + 1, f)
  ELSE Append(q, f)

Dead(e) == ses[e].die \/ ses[e].werr

\* writeFrameInternal, the request.
Request(e, f) == ~Dead(e) /\ shaper' = [shaper EXCEPT ![e] = Push(@, f)]
\* ... and its result: the frame is out.
Sent(e, i, cmds) == \A k \in DOMAIN shaper[e] :
                       ~(shaper[e][k].sid = i /\ shaper[e][k].cmd \in cmds)

Other(e) == IF e = "o" THEN "p" ELSE "o"

sendLoop(e) ==
  /\ ~Dead(e) /\ shaper[e] # <<>>
  /\ Len(wire[Other(e)]) < WireCap
  /\ shaper' = [shaper EXCEPT ![e] = Tail(@)]
  /\ wire' = [wire EXCEPT ![Other(e)] = Append(@, Head(shaper[e]))]
  /\ UNCHANGED <<load, starved, ses, bucket, bell, w, r>>

\* The connection is gone: the write fails and notifyWriteError is called.
sendLoopFails(e) ==
  /\ ~Dead(e) /\ shaper[e] # <<>> /\ ses[Other(e)].die
  /\ ses' = [ses EXCEPT ![e].werr = TRUE]
  /\ UNCHANGED <<load, starved, bucket, bell, shaper, wire, w, r>>

-----------------------------------------------------------------------------
\* OpenStream and Write, at o.

OpenStream(i) ==
  /\ w[i].pc = "new"
  /\ Request("o", Frame("SYN", i, 0, 0))
  /\ w' = [w EXCEPT ![i].pc = "syn"]
  /\ UNCHANGED <<load, starved, ses, bucket, bell, wire, r>>

\* The registration, when the SYN is out.
OpenStreamEnds(i) ==
  /\ w[i].pc = "syn"
  /\ \/ /\ ~Dead("o") /\ ses["o"].rerr = "none" /\ Sent("o", i, {"SYN"})
        /\ w' = [w EXCEPT ![i].pc = "idle", ![i].reg = TRUE]
     \/ /\ Dead("o") \/ ses["o"].rerr # "none"
        /\ w' = [w EXCEPT ![i].pc = "out"]
  /\ UNCHANGED <<load, starved, ses, bucket, bell, shaper, wire, r>>

\* Mutant: the window is not reduced by what is on its way.
WindowWhole(x) == x.window

\* writeV2: what is on its way and what the peer's window leaves, in the
\* counters' arithmetic.
Inflight(x) == Signed((x.written - x.consumed) % Wrap)
Window(x) == x.window - Inflight(x)

\* The head of the loop of Write: how much of the data goes out now, or
\* ErrConsumed.
Chunked(x) ==
  LET n == IF load.ver = 1 THEN x.todo
           ELSE IF Window(x) <= 0 THEN 0 ELSE Min2(Window(x), x.todo) IN
  IF load.ver = 2 /\ Inflight(x) < 0 THEN [x EXCEPT !.pc = "consumed"]
  ELSE [x EXCEPT !.chunk = n, !.todo = @ - n, !.pc = IF n > 0 THEN "frame" ELSE "window"]

\* A Write of n bytes; a stream closed by either side refuses it.
Write(i, n) ==
  /\ w[i].pc = "idle" /\ ~w[i].fin /\ ~w[i].die
  /\ w' = [w EXCEPT ![i] = Chunked([@ EXCEPT !.todo = n])]
  /\ UNCHANGED <<load, starved, ses, bucket, bell, shaper, wire, r>>

WriteFrame(i) ==
  /\ w[i].pc = "frame"
  /\ LET n == Min2(w[i].chunk, FrameSize) IN
     /\ Request("o", Frame("PSH", i, w[i].written, n))
     /\ w' = [w EXCEPT ![i].pc = "await", ![i].chunk = @ - n, ![i].flight = n]
  /\ UNCHANGED <<load, starved, ses, bucket, bell, wire, r>>

\* The frame is out: go on with the chunk, with the window, or return.
WriteFrameSent(i) ==
  /\ w[i].pc = "await" /\ Sent("o", i, {"PSH"})
  /\ w' = [w EXCEPT ![i].written = Plus(@, w[i].flight), ![i].flight = 0,
                    ![i].pc = IF w[i].chunk > 0 THEN "frame"
                              ELSE IF w[i].todo > 0 THEN "window" ELSE "idle"]
  /\ UNCHANGED <<load, starved, ses, bucket, bell, shaper, wire, r>>

\* chUpdate: look at the window again.
WindowMoved(i) ==
  /\ w[i].pc = "window" /\ w[i].update
  /\ w' = [w EXCEPT ![i] = Chunked([@ EXCEPT !.update = FALSE])]
  /\ UNCHANGED <<load, starved, ses, bucket, bell, shaper, wire, r>>

\* Write returns an error: the session or the connection is gone, or, while it
\* waits for the window, either side closed the stream.
WriteFails(i) ==
  /\ \/ w[i].pc \in {"frame", "await"} /\ Dead("o")
     \/ w[i].pc = "window" /\ (ses["o"].werr \/ w[i].fin \/ w[i].die)
  /\ w' = [w EXCEPT ![i].pc = "out", ![i].todo = 0, ![i].chunk = 0, ![i].flight = 0,
                    ![i].written = Plus(@, w[i].flight)]
  /\ UNCHANGED <<load, starved, ses, bucket, bell, shaper, wire, r>>

\* Close of the writer's stream: the FIN waits its turn behind the data.
CloseWriter(i) ==
  /\ <<"writer", i>> \in load.closes /\ w[i].pc \in {"idle", "out"} /\ w[i].reg /\ ~w[i].die
  /\ w' = [w EXCEPT ![i].die = TRUE, ![i].pc = "close"]
  /\ shaper' = IF Dead("o") THEN shaper
               ELSE [shaper EXCEPT !["o"] = Push(@, Frame("FIN", i, 0, 0))]
  /\ UNCHANGED <<load, starved, ses, bucket, bell, wire, r>>

\* streamClosed at o, which holds no data.
CloseWriterEnds(i) ==
  /\ w[i].pc = "close" /\ (Sent("o", i, {"FIN"}) \/ Dead("o"))
  /\ w' = [w EXCEPT ![i].pc = "closed", ![i].reg = FALSE]
  /\ UNCHANGED <<load, starved, ses, bucket, bell, shaper, wire, r>>

-----------------------------------------------------------------------------
\* Read and WriteTo, at p.

\* The stream is accepted and somebody reads from it.
AcceptStream(i) ==
  /\ r[i].pc = "offered" /\ ~ses["p"].die
  /\ r' = [r EXCEPT ![i].pc = "try"]
  /\ UNCHANGED <<load, starved, io, bucket, bell, w>>

Half == StreamBuffer \div 2

\* Take n bytes of the first buffer, all of it for WriteTo; version 2 decides
\* whether the peer is to be told.
Take(i, n) ==
  /\ r[i].pc = "try" /\ r[i].buffers # <<>>
  /\ LET b == Head(r[i].buffers)
         incr == r[i].incr + n
         read == Plus(r[i].read, n)
         tell == load.ver = 2 /\ (incr >= Half \/ read = n) IN
     /\ n <= b[2]
     /\ r' = [r EXCEPT ![i].buffers = IF n = b[2] THEN Tail(@)
                                      ELSE <<<<Plus(b[1], n), b[2] - n>>>> \o Tail(@),
                       ![i].end = IF b[1] = r[i].read THEN @ ELSE "garbled",
                       ![i].read = read, ![i].hold = n, ![i].pc = "return",
                       ![i].incr = IF load.ver = 1 \/ tell THEN 0 ELSE incr,
                       ![i].notify = tell /\ read > 0]
  /\ UNCHANGED <<load, starved, io, bucket, bell, w>>

\* Mutant: the tokens come back, the receive loop is not told.
returnTokensQuietly(i) ==
  /\ r[i].pc = "return"
  /\ bucket' = bucket + r[i].hold
  /\ r' = [r EXCEPT ![i].hold = 0, ![i].pc = IF r[i].notify THEN "tell" ELSE "try"]
  /\ UNCHANGED <<load, starved, io, bell, w>>

returnTokens(i) ==
  /\ r[i].pc = "return"
  /\ bucket' = bucket + r[i].hold
  /\ bell' = (bell \/ bucket' > 0)
  /\ r' = [r EXCEPT ![i].hold = 0, ![i].pc = IF r[i].notify THEN "tell" ELSE "try"]
  /\ UNCHANGED <<load, starved, io, w>>

sendWindowUpdate(i) ==
  /\ r[i].pc = "tell"
  /\ Request("p", Frame("UPD", i, r[i].read, StreamBuffer))
  /\ r' = [r EXCEPT ![i].pc = "told"]
  /\ UNCHANGED <<load, starved, ses, bucket, bell, wire, w>>

WindowUpdateSent(i) ==
  /\ r[i].pc = "told" /\ Sent("p", i, {"UPD"})
  /\ r' = [r EXCEPT ![i].pc = "try"]
  /\ UNCHANGED <<load, starved, io, bucket, bell, w>>

WindowUpdateFails(i) ==
  /\ r[i].pc \in {"tell", "told"} /\ Dead("p")
  /\ r' = [r EXCEPT ![i].pc = "out", ![i].end = "error"]
  /\ UNCHANGED <<load, starved, io, bucket, bell, w>>

\* Nothing to take: waitRead, or, for Read on a stream closed at this end, io.EOF
\* (WriteTo goes on to waitRead).
TryNothing(i) ==
  /\ r[i].pc = "try" /\ r[i].buffers = <<>>
  /\ LET x == [r[i] EXCEPT !.incr = IF r[i].read = 0 THEN 0 ELSE @] IN
     \/ r' = [r EXCEPT ![i] = [x EXCEPT !.pc = "wait"]]
     \/ r[i].die /\ r' = [r EXCEPT ![i] = [x EXCEPT !.pc = "out", !.end = "eof"]]
  /\ UNCHANGED <<load, starved, io, bucket, bell, w>>

\* waitRead: a select, any of what is ready (a deadline of the user aside).  The
\* error of the connection is handed on as it is.
WaitRead(i) ==
  /\ r[i].pc = "wait"
  /\ \/ r[i].event /\ r' = [r EXCEPT ![i].event = FALSE, ![i].pc = "try"]
     \/ /\ r[i].fin /\ r[i].buffers # <<>>
        /\ r' = [r EXCEPT ![i].pc = "try"]
     \/ /\ r[i].fin /\ r[i].buffers = <<>>
        /\ r' = [r EXCEPT ![i].pc = "out", ![i].end = "eof"]
     \/ /\ ses["p"].rerr # "none"
        /\ r' = [r EXCEPT ![i].pc = "out", ![i].end = ses["p"].rerr]
     \/ /\ r[i].die
        /\ r' = [r EXCEPT ![i].pc = "out", ![i].end = "error"]
  /\ UNCHANGED <<load, starved, io, bucket, bell, w>>

\* Close of the reader's stream, by any goroutine.
CloseReader(i) ==
  /\ <<"reader", i>> \in load.closes /\ r[i].pc \notin {"none", "offered"} /\ ~r[i].die
  /\ r' = [r EXCEPT ![i].die = TRUE, ![i].closing = TRUE]
  /\ shaper' = IF Dead("p") THEN shaper
               ELSE [shaper EXCEPT !["p"] = Push(@, Frame("FIN", i, 0, 0))]
  /\ UNCHANGED <<load, starved, ses, bucket, bell, wire, w>>

Buffered(i) == FoldLeft(LAMBDA n, b : n + b[2], 0, r[i].buffers)

\* Mutant: streamClosed forgets the buffers without their tokens.
CloseReaderKeepsTokens(i) ==
  /\ r[i].closing /\ (Sent("p", i, {"FIN"}) \/ Dead("p"))
  /\ r' = [r EXCEPT ![i].closing = FALSE, ![i].reg = FALSE, ![i].buffers = <<>>]
  /\ UNCHANGED <<load, starved, io, bucket, bell, w>>

\* streamClosed with recycleTokens.
CloseReaderEnds(i) ==
  /\ r[i].closing /\ (Sent("p", i, {"FIN"}) \/ Dead("p"))
  /\ bucket' = bucket + Buffered(i)
  /\ bell' = (bell \/ (Buffered(i) > 0 /\ bucket' > 0))
  /\ r' = [r EXCEPT ![i].closing = FALSE, ![i].reg = FALSE, ![i].buffers = <<>>]
  /\ UNCHANGED <<load, starved, io, w>>

-----------------------------------------------------------------------------
\* recvLoop.  At p it waits for tokens before it reads a frame; at o, which gets
\* no data, there always are some.

\* Mutant: new bytes go to the front.
pushBytesFront(q, b) == <<b>> \o q

pushBytes(q, b) == Append(q, b)

Receives(e) == ses[e].rerr = "none" /\ ~ses[e].die

recvAtP ==
  /\ Receives("p") /\ bucket > 0 /\ ~starved /\ wire["p"] # <<>>
  /\ wire' = [wire EXCEPT !["p"] = Tail(@)]
  /\ LET f == Head(wire["p"])
         i == f.sid IN
     \/ /\ f.cmd = "SYN"
        /\ r' = [r EXCEPT ![i].reg = TRUE, ![i].pc = "offered"]
        /\ UNCHANGED bucket
     \/ /\ f.cmd = "FIN"
        /\ r' = IF r[i].reg THEN [r EXCEPT ![i].fin = TRUE, ![i].event = TRUE] ELSE r
        /\ UNCHANGED bucket
     \/ /\ f.cmd = "PSH"
        /\ r' = IF r[i].reg
                THEN [r EXCEPT ![i].buffers = pushBytes(@, <<f.from, f.n>>), ![i].event = TRUE]
                ELSE r
        /\ bucket' = IF r[i].reg THEN bucket - f.n ELSE bucket
  /\ UNCHANGED <<load, starved, ses, bell, shaper, w>>

\* The wait for tokens: it begins when there are none, and only a signal ends
\* it.
recvWaits ==
  /\ Receives("p")
  /\ \/ bucket <= 0 /\ ~starved /\ starved' = TRUE /\ UNCHANGED bell
     \/ starved /\ bell /\ starved' = FALSE /\ bell' = FALSE
  /\ UNCHANGED <<load, io, bucket, w, r>>

recvAtO ==
  /\ Receives("o") /\ wire["o"] # <<>>
  /\ wire' = [wire EXCEPT !["o"] = Tail(@)]
  /\ LET f == Head(wire["o"])
         i == f.sid IN
     w' = IF ~w[i].reg THEN w
          ELSE IF f.cmd = "FIN" THEN [w EXCEPT ![i].fin = TRUE]
          ELSE [w EXCEPT ![i].consumed = f.from, ![i].window = f.n, ![i].update = TRUE]
  /\ UNCHANGED <<load, starved, ses, bucket, bell, shaper, r>>

\* The connection was closed at either end: notifyReadError, which stores io.EOF
\* when it is the peer that closed it between two frames.  A loop that waits for
\* tokens when the session dies returns without it.
recvFails(e) ==
  /\ ses[e].rerr = "none" /\ wire[e] = <<>>
  /\ (ses["o"].die \/ ses["p"].die) /\ (e = "p" => bucket > 0 /\ ~starved)
  /\ \E err \in {"error"} \cup (IF ses[e].die THEN {} ELSE {"eof"}) :
       ses' = [ses EXCEPT ![e].rerr = err]
  /\ UNCHANGED <<load, starved, bucket, bell, shaper, wire, w, r>>

-----------------------------------------------------------------------------
\* keepalive: a ping is a frame the peer ignores; with it goes a signal to the
\* receive loop.
keepalive ==
  /\ ~ses["p"].die /\ ~bell
  /\ bell' = TRUE
  /\ UNCHANGED <<load, starved, io, bucket, w, r>>

\* Mutant: the streams are not told.
CloseSilently(e) ==
  /\ <<"session", e>> \in load.closes /\ ~ses[e].die
  /\ ses' = [ses EXCEPT ![e].die = TRUE]
  /\ wire' = [wire EXCEPT ![e] = <<>>]
  /\ UNCHANGED <<load, starved, bucket, bell, shaper, w, r>>

\* Session.Close, by a keepalive without an answer or by its owner: every
\* stream dies and the connection is closed.
Close(e) ==
  /\ <<"session", e>> \in load.closes /\ ~ses[e].die
  /\ ses' = [ses EXCEPT ![e].die = TRUE]
  /\ wire' = [wire EXCEPT ![e] = <<>>]
  /\ w' = IF e = "o" THEN [i \in Sids |-> [w[i] EXCEPT !.die = @ \/ w[i].reg]] ELSE w
  /\ r' = IF e = "p" THEN [i \in Sids |-> [r[i] EXCEPT !.die = @ \/ r[i].reg]] ELSE r
  /\ UNCHANGED <<load, starved, bucket, bell, shaper>>

-----------------------------------------------------------------------------

Writer(i) ==
  \/ OpenStreamEnds(i) \/ WriteFrame(i) \/ WriteFrameSent(i)
  \/ WindowMoved(i) \/ WriteFails(i) \/ CloseWriterEnds(i)

Reader(i) ==
  \/ AcceptStream(i) \/ CloseReaderEnds(i) \/ (\E n \in 1 .. FrameSize : Take(i, n)) \/ returnTokens(i)
  \/ sendWindowUpdate(i) \/ WindowUpdateSent(i) \/ WindowUpdateFails(i)
  \/ TryNothing(i) \/ WaitRead(i)

Loops ==
  \/ \E e \in Ends : sendLoopFails(e) \/ recvFails(e)
  \/ recvWaits

Next ==
  \/ \E i \in Sids :
       \/ Writer(i) \/ Reader(i) \/ OpenStream(i) \/ CloseWriter(i) \/ CloseReader(i)
       \/ \E n \in 1 .. load.max : Write(i, n)
  \/ recvAtP \/ recvAtO \/ Loops
  \/ \E e \in Ends : sendLoop(e) \/ Close(e)
  \/ keepalive

\* The goroutines of the sessions and those that read and write go on while
\* they can.
Fairness ==
  /\ \A i \in AllSids :
       WF_vars(i \in Sids /\ Writer(i)) /\ WF_vars(i \in Sids /\ Reader(i))
  /\ WF_vars(recvAtP) /\ WF_vars(recvAtO) /\ WF_vars(Loops)
  /\ \A e \in Ends : WF_vars(sendLoop(e))

Spec == Init /\ [][Next]_vars /\ Fairness

-----------------------------------------------------------------------------
\* Properties.

\* No token is lost or made: what the bucket lacks is exactly what the streams
\* buffer and the readers have in hand, through reads, closes and late frames
\* (recvLoop, returnTokens, streamClosed).
TokensConserved ==
  bucket + MapThenSumSet(LAMBDA i : Buffered(i) + r[i].hold, Sids) = load.receive

\* A reader gets the bytes in the order of the writes, and io.EOF only after the
\* last of them, unless the stream was closed at the reader's end or the
\* connection has ended, which a reader cannot tell from the writer's FIN (Write,
\* pushBytes, tryRead, waitRead).
ReadsAll ==
  \A i \in Sids :
    /\ r[i].end # "garbled"
    /\ r[i].end = "eof" /\ ~r[i].die /\ ses["p"].rerr = "none" => r[i].read = w[i].written

\* Version 2 never has more bytes on their way than a window the peer granted,
\* and never takes a healthy peer for one that acknowledges what was not sent
\* (ErrConsumed), at the moment the counters go round as well (writeV2, update).
WindowRespected ==
  load.ver = 2 =>
    \A i \in Sids :
      /\ (w[i].written + w[i].flight - r[i].read) % Wrap <= Max({load.window, StreamBuffer})
      /\ w[i].pc # "consumed"

\* No wake-up is lost: a stream never stays behind for ever without a byte being
\* read, while both sessions and the reader's stream live; nor does a writer wait
\* for a window for ever (bucketNotify, chReadEvent, chUpdate, and the update
\* that is skipped when the counters go round).
Behind(i) ==
  /\ i \in Sids
  /\ r[i].read # w[i].written \/ r[i].buffers # <<>> \/ wire["p"] # <<>>
Released(i) == i \notin Sids \/ r[i].die \/ \E e \in Ends : ses[e].die
Flowing ==
  \A i \in AllSids :
    \/ []<>((~Behind(i) /\ ~(i \in Sids /\ w[i].pc = "window")) \/ Released(i))
    \/ []<><<i \in Sids /\ r'[i].read # r[i].read>>_vars

\* A session that is closed lets everybody go: no goroutine stays in a Read, a
\* Write or an OpenStream on one of its streams (Session.Close, sessionClose).
DeadReturns ==
  (\E e \in Ends : ses[e].die) ~>
    \A i \in Sids :
      /\ ses["o"].die => w[i].pc \in {"new", "idle", "out", "closed"}
      /\ ses["p"].die => r[i].pc \in {"none", "offered", "out"}

=============================================================================
