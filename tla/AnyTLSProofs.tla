---------------------------- MODULE AnyTLSProofs ----------------------------
(***************************************************************************)
(* The AnyTLS client, for any number of users, sessions and dials, any     *)
(* number of streams and frames and any capacity of queue and wire.        *)
(*                                                                         *)
(* A session: a reader gets what the server sent, in order and up to its   *)
(* FIN.  The pool: a session serves one user at a time.                    *)
(***************************************************************************)
EXTENDS AnyTLSPool, AnyTLSSession, TLAPS

-----------------------------------------------------------------------------
(* One session. *)

\* The predicates are about a stream x with the number i of a
\* session e whose user is at w.

FrameSet ==
  [t : {"PSH", "SYNACK", "FIN", "SETTINGS", "HEART", "ALERT"}, sid : Nat, n : Nat]
StreamSet ==
  [by : {"none", "overflow", "force", "open", "fin", "user"}, q : Seq(Nat), moving : Nat,
   writer : BOOLEAN, pipe : {"open", "eof", "error"}, syn : {"none", "ok", "refused"},
   read : Seq(Nat), end : {"none", "eof", "error"}, heard : {"no", "syn", "addr", "fin"},
   acked : BOOLEAN, sent : Nat]
SessionSet ==
  [die : BOOLEAN, ended : BOOLEAN, up : BOOLEAN, loop : BOOLEAN, peer : {1, 2}, ver : Nat,
   sid : Nat, streams : SUBSET Nat, buffer : {"on", "full", "off"}, wire : Seq(FrameSet),
   hand : FrameSet \cup {NoFrame}]

SessionTypeOK == ss \in SessionSet /\ st \in [Sids -> StreamSet]

\* How many data frames of a stream its reader has got or is being handed, how
\* many are in its queue as well, and how many have left the wire.
Handed(x) == Len(x.read) + (IF x.moving > 0 THEN 1 ELSE 0)
Queued(x) == Handed(x) + Len(x.q)
InHand(t, i, e) == e.hand.t = t /\ e.hand.sid = i
Arrived(i, x, e) == Queued(x) + (IF InHand("PSH", i, e) THEN 1 ELSE 0)

\* The places of the wire where a frame of kind t for stream i is.
OnWire(t, i, e) == {k \in 1 .. Len(e.wire) : e.wire[k].t = t /\ e.wire[k].sid = i}

\* The numbers in the read, the pipe and the queue follow each other.
Numbered(x) ==
  /\ \A k \in 1 .. Len(x.read) : x.read[k] = k
  /\ x.pipe = "open" => /\ x.moving > 0 => x.moving = Len(x.read) + 1
                        /\ \A k \in 1 .. Len(x.q) : x.q[k] = Handed(x) + k

\* While a stream lives the hand and the wire continue its queue up to what the
\* server sent, unless the connection broke and the wire was lost.
Continued(i, x, e) ==
  x.by = "none" /\ x.pipe = "open" =>
    /\ Arrived(i, x, e) <= x.sent
    /\ InHand("PSH", i, e) => e.hand.n = Arrived(i, x, e)
    /\ InHand("FIN", i, e) => Arrived(i, x, e) = x.sent
    /\ \A k, l \in OnWire("PSH", i, e) : k < l => e.wire[k].n < e.wire[l].n
    /\ \A k \in OnWire("PSH", i, e) : e.wire[k].n \in Arrived(i, x, e) + 1 .. x.sent
    /\ \/ \A n \in Arrived(i, x, e) + 1 .. x.sent :
            \E k \in OnWire("PSH", i, e) : e.wire[k].n = n
       \/ ~e.up /\ e.wire = <<>>

\* Nothing follows the server's FIN, and data is on its way only to a stream
\* that is registered or that was closed here.
Followed(i, x, e, w) ==
  /\ \A k \in OnWire("FIN", i, e) : x.heard = "fin" /\ \A l \in OnWire("PSH", i, e) : l < k
  /\ InHand("FIN", i, e) \/ x.by = "fin" => x.heard = "fin" /\ OnWire("PSH", i, e) = {}
  /\ x.by = "none" /\ (x.heard = "addr" \/ OnWire("PSH", i, e) # {}) => i \in e.streams
  /\ x.by = "none" /\ i = e.sid /\ w \in {"synack", "addr", "use"} =>
       i \in e.streams \/ x.heard = "fin"
  /\ i = e.sid /\ w = "fin" => x.by # "none"

\* How a stream ends: after a FIN the write loop drains the queue.
Ended(i, x, e) ==
  /\ x.by = "none" => x.pipe # "eof"
  /\ x.end # "none" => x.end = x.pipe /\ x.pipe # "open"
  /\ x.by = "fin" => /\ ~InHand("PSH", i, e)
                     /\ x.pipe = "open" => Queued(x) = x.sent
                     /\ x.pipe = "eof" => Len(x.read) = x.sent

StreamInv(i, x, e, w) ==
  Numbered(x) /\ Continued(i, x, e) /\ Followed(i, x, e, w) /\ Ended(i, x, e)

SessionInv == SessionTypeOK /\ \A i \in Sids : StreamInv(i, st[i], ss, user)

\* The frames and the numbers of a stream stay as they are; what it hears and
\* where it is registered may change.
SameFrames(i, x, y, e, f) ==
  /\ y.by = x.by /\ y.q = x.q /\ y.moving = x.moving /\ y.pipe = x.pipe
  /\ y.read = x.read /\ y.end = x.end /\ y.sent = x.sent
  /\ f.wire = e.wire /\ (f.up => e.up)
  /\ \A t \in {"PSH", "FIN"} : InHand(t, i, f) = InHand(t, i, e)
  /\ InHand("PSH", i, e) => f.hand.n = e.hand.n

\* Such a step preserves the invariant of the stream.
LEMMA SameFramesKeep ==
  ASSUME NEW i, NEW x, NEW y, NEW e, NEW f, NEW w, NEW v,
         StreamInv(i, x, e, w), SameFrames(i, x, y, e, f),
         x.heard = "fin" => y.heard = "fin",
         x.by = "none" => /\ i \in e.streams => i \in f.streams
                          /\ y.heard = "addr" => i \in f.streams
                          /\ i = f.sid /\ v \in {"synack", "addr", "use"} =>
                               i \in f.streams \/ y.heard = "fin"
                          /\ ~(i = f.sid /\ v = "fin")
  PROVE  StreamInv(i, y, f, v)
<1>1. Handed(y) = Handed(x) /\ Queued(y) = Queued(x)
  BY DEF SameFrames, Handed, Queued
<1>2. \A t : OnWire(t, i, f) = OnWire(t, i, e)
  BY DEF SameFrames, OnWire
<1>3. InHand("PSH", i, f) = InHand("PSH", i, e) /\ InHand("FIN", i, f) = InHand("FIN", i, e)
  BY DEF SameFrames
<1>4. Arrived(i, y, f) = Arrived(i, x, e)
  BY <1>1, <1>3 DEF Arrived
<1>5. Numbered(y)
  BY <1>1 DEF StreamInv, Numbered, SameFrames
<1>6. Continued(i, y, f)
  BY <1>2, <1>3, <1>4 DEF StreamInv, Continued, SameFrames
<1>7. Followed(i, y, f, v)
  BY <1>2, <1>3 DEF StreamInv, Followed, SameFrames
<1>8. Ended(i, y, f)
  BY <1>1, <1>3 DEF StreamInv, Ended, SameFrames
<1> QED BY <1>5, <1>6, <1>7, <1>8 DEF StreamInv

\* A stream that somebody closes here, by what is not a FIN, has nothing more to
\* show; one that a FIN had closed keeps what it had.
LEMMA CloseKeeps ==
  ASSUME NEW i, NEW x \in StreamSet, NEW y, NEW e, NEW f, NEW w, NEW v,
         NEW by \in {"overflow", "force", "open"}, NEW err \in {"open", "eof", "error"},
         StreamInv(i, x, e, w), err = "eof" => x.by # "fin",
         y.by = IF x.by = "none" THEN by ELSE x.by,
         y.pipe = IF x.pipe = "open" THEN err ELSE x.pipe,
         y.q = x.q, y.moving = x.moving, y.read = x.read, y.end = x.end, y.sent = x.sent,
         x.heard = "fin" => y.heard = "fin",
         f.wire = e.wire \/ f.wire = <<>>,
         InHand("FIN", i, f) => InHand("FIN", i, e), InHand("PSH", i, f) => InHand("PSH", i, e)
  PROVE  StreamInv(i, y, f, v)
<1>1. Handed(y) = Handed(x) /\ Queued(y) = Queued(x) /\ y.by # "none"
  BY DEF Handed, Queued
<1>2. \A t : OnWire(t, i, f) \subseteq OnWire(t, i, e)
  BY DEF OnWire
<1>3. Numbered(y)
  BY <1>1 DEF StreamInv, Numbered
<1>4. Continued(i, y, f)
  BY <1>1 DEF Continued
<1>5. Followed(i, y, f, v)
  BY <1>1, <1>2 DEF StreamInv, Followed
<1>6. Ended(i, y, f)
  BY <1>1 DEF StreamInv, Ended
<1> QED BY <1>3, <1>4, <1>5, <1>6 DEF StreamInv

\* Frames that move inside a stream, between its queue, its pipe and its reader.
LEMMA MovesKeep ==
  ASSUME NEW i, NEW x, NEW y, NEW e, NEW w, StreamInv(i, x, e, w),
         y.by = x.by, y.heard = x.heard, y.sent = x.sent,
         y.pipe = "open" => x.pipe = "open" /\ Queued(y) = Queued(x),
         Numbered(y), Ended(i, y, e)
  PROVE  StreamInv(i, y, e, w)
<1>1. y.pipe = "open" => Arrived(i, y, e) = Arrived(i, x, e)
  BY DEF Arrived
<1>2. Continued(i, y, e)
  BY <1>1 DEF StreamInv, Continued
<1>3. Followed(i, y, e, w)
  BY DEF StreamInv, Followed
<1> QED BY <1>2, <1>3 DEF StreamInv

\* Stream.Read hands the reader the next number.
LEMMA ReadKeeps ==
  ASSUME NEW i, NEW x \in StreamSet, NEW e, NEW w, StreamInv(i, x, e, w),
         x.pipe = "open", x.moving > 0, NEW y,
         y = [x EXCEPT !.moving = 0, !.read = Append(@, x.moving)]
  PROVE  StreamInv(i, y, e, w)
<1>1. /\ x.read \in Seq(Nat) /\ x.q \in Seq(Nat) /\ x.moving \in Nat /\ Len(x.read) \in Nat
      /\ x.moving = Len(x.read) + 1
  BY DEF StreamInv, Numbered, StreamSet
<1>2. /\ y.by = x.by /\ y.heard = x.heard /\ y.sent = x.sent /\ y.pipe = x.pipe /\ y.q = x.q
      /\ y.end = x.end /\ y.moving = 0 /\ y.read = Append(x.read, x.moving)
  BY DEF StreamSet
<1>3. Len(y.read) = Len(x.read) + 1 /\ \A k \in 1 .. Len(x.read) : y.read[k] = x.read[k]
  BY <1>1, <1>2
<1>4. y.read[Len(x.read) + 1] = Len(x.read) + 1
  BY <1>1, <1>2
<1>5. Handed(y) = Handed(x) /\ Queued(y) = Queued(x)
  <2>1. Handed(x) = Len(x.read) + 1
    BY Zenon DEF Handed
  <2>2. Handed(y) = Len(y.read) + 0
    BY <1>2 DEF Handed
  <2>3. Handed(y) = Handed(x)
    BY <1>1, <1>3, <2>1, <2>2
  <2> QED BY <1>2, <2>3 DEF Queued
<1>6. Numbered(y)
  <2>1. ASSUME NEW k \in 1 .. Len(y.read) PROVE y.read[k] = k
    <3>1. CASE k \in 1 .. Len(x.read)
      BY <1>3, <3>1 DEF StreamInv, Numbered
    <3>2. CASE k = Len(x.read) + 1
      BY <1>4, <3>2
    <3> QED BY <1>1, <1>3, <3>1, <3>2
  <2>2. \A k \in 1 .. Len(y.q) : y.q[k] = Handed(y) + k
    BY <1>2, <1>5 DEF StreamInv, Numbered
  <2> QED BY <1>2, <2>1, <2>2 DEF Numbered
<1>7. Ended(i, y, e)
  BY <1>2, <1>5 DEF StreamInv, Ended
<1> QED BY <1>2, <1>5, <1>6, <1>7, MovesKeep, Zenon

\* writeLoop takes the next number out of the queue.
LEMMA TakeKeeps ==
  ASSUME NEW i, NEW x \in StreamSet, NEW e, NEW w, StreamInv(i, x, e, w),
         x.moving = 0, x.q # <<>>, NEW y,
         y = [x EXCEPT !.moving = Head(x.q), !.q = Tail(@)]
  PROVE  StreamInv(i, y, e, w)
<1>1. x.read \in Seq(Nat) /\ x.q \in Seq(Nat) /\ Len(x.read) \in Nat /\ Len(x.q) \in Nat
  BY DEF StreamSet
<1>2. /\ y.by = x.by /\ y.heard = x.heard /\ y.sent = x.sent /\ y.pipe = x.pipe
      /\ y.read = x.read /\ y.end = x.end /\ y.moving = Head(x.q) /\ y.q = Tail(x.q)
  BY DEF StreamSet
<1>3. /\ Len(x.q) >= 1 /\ Len(y.q) = Len(x.q) - 1 /\ y.moving = x.q[1]
      /\ \A k \in 1 .. Len(y.q) : k + 1 \in 1 .. Len(x.q) /\ y.q[k] = x.q[k + 1]
  BY <1>1, <1>2
<1>4. Handed(x) = Len(x.read)
  BY <1>1 DEF Handed
<1>5. x.pipe = "open" => \A k \in 1 .. Len(x.q) : x.q[k] = Len(x.read) + k
  BY <1>4 DEF StreamInv, Numbered
<1>6. x.pipe = "open" => y.moving = Len(x.read) + 1 /\ Handed(y) = Len(x.read) + 1
  <2> SUFFICES ASSUME x.pipe = "open"
               PROVE  y.moving = Len(x.read) + 1 /\ Handed(y) = Len(x.read) + 1
    OBVIOUS
  <2>1. 1 \in 1 .. Len(x.q)
    BY <1>1, <1>3
  <2>2. x.q[1] = Len(x.read) + 1
    BY <1>5, <2>1
  <2>3. y.moving = Len(x.read) + 1 /\ y.moving > 0
    BY <1>1, <1>3, <2>2
  <2>4. Handed(y) = Len(y.read) + 1
    BY <2>3, Zenon DEF Handed
  <2> QED BY <1>2, <2>3, <2>4
<1>7. x.pipe = "open" => Queued(y) = Queued(x)
  <2> SUFFICES ASSUME x.pipe = "open"
               PROVE  Handed(y) + Len(y.q) = Handed(x) + Len(x.q)
    BY DEF Queued
  <2>1. Handed(y) = Len(x.read) + 1 /\ Handed(x) = Len(x.read) /\ Len(y.q) = Len(x.q) - 1
    BY <1>3, <1>4, <1>6
  <2>2. \A a, b \in Nat : (a + 1) + (b - 1) = a + b
    OBVIOUS
  <2> QED BY <1>1, <2>1, <2>2, Zenon
<1>8. ASSUME x.pipe = "open", NEW k \in 1 .. Len(y.q) PROVE y.q[k] = Handed(y) + k
  <2>1. y.q[k] = Len(x.read) + (k + 1)
    BY <1>3, <1>5, <1>8
  <2>2. k \in Nat
    <3> DEFINE n == Len(x.q)
    <3>1. k \in 1 .. n - 1 /\ n \in Nat
      BY <1>1, <1>3
    <3> HIDE DEF n
    <3> QED BY <3>1
  <2>3. \A a, b \in Nat : a + (b + 1) = (a + 1) + b
    OBVIOUS
  <2>4. Len(x.read) + (k + 1) = (Len(x.read) + 1) + k
    BY <1>1, <2>2, <2>3, Zenon
  <2>5. Handed(y) = Len(x.read) + 1
    BY <1>6, <1>8
  <2> QED BY <2>1, <2>4, <2>5, Zenon
<1>9. Numbered(y)
  BY <1>2, <1>6, <1>8 DEF StreamInv, Numbered
<1>10. Ended(i, y, e)
  BY <1>2, <1>7 DEF StreamInv, Ended
<1> QED BY <1>2, <1>7, <1>9, <1>10, MovesKeep, Zenon

\* writeLoop ends: after a FIN only with nothing left to hand over.
LEMMA LoopEndKeeps ==
  ASSUME NEW i, NEW x \in StreamSet, NEW e, NEW w, StreamInv(i, x, e, w),
         \/ x.moving = 0 /\ Closed(x) /\ (x.q = <<>> \/ Done(x))
         \/ x.moving > 0 /\ x.pipe # "open",
         NEW y, y = [ClosePipe(x, "eof") EXCEPT !.writer = FALSE, !.moving = 0, !.q = <<>>]
  PROVE  StreamInv(i, y, e, w)
<1>1. /\ y.by = x.by /\ y.heard = x.heard /\ y.sent = x.sent /\ y.read = x.read
      /\ y.end = x.end /\ y.pipe = IF x.pipe = "open" THEN "eof" ELSE x.pipe
  BY DEF ClosePipe, StreamSet
<1>2. Numbered(y) /\ y.pipe # "open"
  BY <1>1 DEF StreamInv, Numbered
<1>3. ASSUME x.by = "fin", x.pipe = "open" PROVE Len(x.read) = x.sent
  <2>1. x.moving = 0 /\ x.q = <<>>
    BY <1>3 DEF Done
  <2>2. Queued(x) = x.sent
    BY <1>3 DEF StreamInv, Ended
  <2> QED BY <2>1, <2>2 DEF Queued, Handed, StreamSet
<1>4. x.by = "none" => x.pipe # "open"
  BY DEF Closed
<1>5. Ended(i, y, e)
  BY <1>1, <1>3, <1>4 DEF StreamInv, Ended
<1> QED BY <1>1, <1>2, <1>5, MovesKeep, Zenon

\* A read that finds the pipe closed, and a read deadline.
LEMMA ReadEndKeeps ==
  ASSUME NEW i, NEW x \in StreamSet, NEW e, NEW w, StreamInv(i, x, e, w), NEW y,
         \/ x.pipe # "open" /\ y = [x EXCEPT !.end = x.pipe]
         \/ x.pipe = "open" /\ y = ClosePipe(x, "error")
  PROVE  StreamInv(i, y, e, w)
<1>1. /\ y.by = x.by /\ y.heard = x.heard /\ y.sent = x.sent /\ y.read = x.read
      /\ y.q = x.q /\ y.moving = x.moving
      /\ \/ x.pipe # "open" /\ y.end = x.pipe /\ y.pipe = x.pipe
         \/ x.pipe = "open" /\ y.end = x.end /\ y.pipe = "error"
  BY DEF ClosePipe, StreamSet
<1>2. Handed(y) = Handed(x) /\ Queued(y) = Queued(x)
  BY <1>1 DEF Handed, Queued
<1>3. Numbered(y) /\ y.pipe # "open"
  BY <1>1, <1>2 DEF StreamInv, Numbered
<1>4. Ended(i, y, e)
  BY <1>1 DEF StreamInv, Ended
<1> QED BY <1>1, <1>3, <1>4, MovesKeep

\* CloseRemote: the user gives the stream up.
LEMMA CloseRemoteKeeps ==
  ASSUME NEW i, NEW x \in StreamSet, NEW e, NEW w, NEW v, StreamInv(i, x, e, w), NEW y,
         y = [NewStream EXCEPT !.by = "user", !.pipe = "eof",
                !.writer = x.writer, !.heard = x.heard, !.acked = x.acked]
  PROVE  StreamInv(i, y, e, v)
<1>1. y.by = "user" /\ y.pipe = "eof" /\ y.read = <<>> /\ y.end = "none" /\ y.heard = x.heard
  BY DEF NewStream
<1>2. Numbered(y) /\ Continued(i, y, e) /\ Ended(i, y, e)
  BY <1>1 DEF Numbered, Continued, Ended
<1>3. Followed(i, y, e, v)
  BY <1>1 DEF StreamInv, Followed
<1> QED BY <1>2, <1>3 DEF StreamInv

\* The receive loop lets go of the frame it held.
LetGo(e, f) == f.hand = NoFrame /\ f.wire = e.wire /\ f.up = e.up

\* Nothing is out of order when what it held has been counted.
LEMMA LetGoContinues ==
  ASSUME NEW i, NEW x, NEW y, NEW e, NEW f, Continued(i, x, e), LetGo(e, f),
         y.by = x.by, y.pipe = x.pipe, y.sent = x.sent,
         Arrived(i, y, f) = Arrived(i, x, e), ~InHand("PSH", i, f), ~InHand("FIN", i, f)
  PROVE  Continued(i, y, f)
<1>1. f.wire = e.wire /\ f.up = e.up /\ OnWire("PSH", i, f) = OnWire("PSH", i, e)
  BY DEF LetGo, OnWire
<1> QED BY <1>1 DEF Continued

\* enqueue: the frame in hand carries the next number.
LEMMA EnqueueKeeps ==
  ASSUME NEW i, NEW x \in StreamSet, NEW e \in SessionSet, NEW f, NEW w, StreamInv(i, x, e, w),
         InHand("PSH", i, e), x.by = "none", NEW y, y = [x EXCEPT !.q = Append(@, e.hand.n)],
         LetGo(e, f), f.streams = e.streams, f.sid = e.sid
  PROVE  StreamInv(i, y, f, w)
<1>1. /\ x.q \in Seq(Nat) /\ e.hand.n \in Nat /\ Len(x.q) \in Nat /\ Len(x.read) \in Nat
      /\ Handed(x) \in Nat /\ Queued(x) \in Nat /\ x.sent \in Nat
  <2>1. e.hand \in FrameSet \cup {NoFrame} /\ NoFrame.n = 0
    BY DEF SessionSet, NoFrame, Frame
  <2>2. e.hand.n \in Nat
    BY <2>1 DEF FrameSet
  <2> QED BY <2>2 DEF StreamSet, Handed, Queued
<1>2. /\ y.by = x.by /\ y.heard = x.heard /\ y.sent = x.sent /\ y.pipe = x.pipe
      /\ y.read = x.read /\ y.end = x.end /\ y.moving = x.moving /\ y.q = Append(x.q, e.hand.n)
  BY DEF StreamSet
<1>3. ~InHand("PSH", i, f) /\ ~InHand("FIN", i, f) /\ ~InHand("FIN", i, e)
  BY DEF InHand, LetGo, NoFrame, Frame
<1>4. Handed(y) = Handed(x) /\ Queued(y) = Queued(x) + 1
  <2>1. Handed(y) = Handed(x)
    BY <1>2 DEF Handed
  <2>2. Len(y.q) = Len(x.q) + 1
    BY <1>1, <1>2
  <2> QED BY <1>1, <2>1, <2>2 DEF Queued
<1>5. Arrived(i, x, e) = Queued(x) + 1 /\ Arrived(i, y, f) = Queued(x) + 1
  BY <1>1, <1>3, <1>4 DEF Arrived
<1>6. Continued(i, x, e) /\ Followed(i, x, e, w) /\ Ended(i, x, e) /\ Numbered(x)
  BY DEF StreamInv
<1>7. \A t : OnWire(t, i, f) = OnWire(t, i, e)
  BY DEF LetGo, OnWire
<1>8. ASSUME x.pipe = "open", NEW k \in 1 .. Len(y.q) PROVE y.q[k] = Handed(y) + k
  <2>1. CASE k \in 1 .. Len(x.q)
    BY <1>1, <1>2, <1>4, <1>6, <1>8, <2>1 DEF Numbered
  <2>2. CASE k = Len(x.q) + 1
    <3>1. e.hand.n = Queued(x) + 1
      BY <1>2, <1>5, <1>6, <1>8 DEF Continued
    <3>2. y.q[k] = e.hand.n
      BY <1>1, <1>2, <2>2
    <3> QED BY <1>1, <1>4, <2>2, <3>1, <3>2 DEF Queued
  <2> QED BY <1>1, <1>2, <2>1, <2>2
<1>9. Numbered(y)
  BY <1>2, <1>4, <1>6, <1>8, Zenon DEF Numbered
<1>10. Continued(i, y, f)
  <2>1. Arrived(i, y, f) = Arrived(i, x, e)
    BY <1>5
  <2> QED BY <1>2, <1>3, <1>6, <2>1, LetGoContinues, Zenon
<1>11. Followed(i, y, f, w)
  BY <1>2, <1>3, <1>6, <1>7 DEF Followed, LetGo
<1>12. Ended(i, y, f)
  BY <1>2, <1>6 DEF Ended
<1> QED BY <1>9, <1>10, <1>11, <1>12 DEF StreamInv

\* closeLocally: all that was sent has arrived when the FIN is handled.
LEMMA FinKeeps ==
  ASSUME NEW i, NEW x \in StreamSet, NEW e, NEW f, NEW w, StreamInv(i, x, e, w),
         InHand("FIN", i, e), NEW y, y = closeLocally(x),
         LetGo(e, f), f.streams = e.streams, f.sid = e.sid
  PROVE  StreamInv(i, y, f, w)
<1>1. /\ y.heard = x.heard /\ y.sent = x.sent /\ y.pipe = x.pipe /\ y.q = x.q
      /\ y.read = x.read /\ y.end = x.end /\ y.moving = x.moving
      /\ y.by = IF x.by = "none" THEN "fin" ELSE x.by
  BY DEF closeLocally, DieOnce, StreamSet
<1>2. /\ ~InHand("PSH", i, f) /\ ~InHand("FIN", i, f) /\ ~InHand("PSH", i, e)
  BY DEF InHand, LetGo, NoFrame, Frame
<1>3. Handed(y) = Handed(x) /\ Queued(y) = Queued(x) /\ Queued(x) \in Nat
  BY <1>1 DEF Handed, Queued, StreamSet
<1>4. Continued(i, x, e) /\ Followed(i, x, e, w) /\ Ended(i, x, e) /\ Numbered(x)
  BY DEF StreamInv
<1>5. \A t : OnWire(t, i, f) = OnWire(t, i, e)
  BY DEF LetGo, OnWire
<1>6. x.by = "none" /\ x.pipe = "open" => Queued(x) = x.sent
  BY <1>2, <1>3, <1>4 DEF Continued, Arrived
<1>7. Numbered(y)
  BY <1>1, <1>3, <1>4 DEF Numbered
<1>8. Continued(i, y, f)
  BY <1>1 DEF Continued
<1>9. Followed(i, y, f, w)
  BY <1>1, <1>2, <1>4, <1>5 DEF Followed
<1>10. Ended(i, y, f)
  BY <1>1, <1>2, <1>3, <1>4, <1>6 DEF Ended
<1> QED BY <1>7, <1>8, <1>9, <1>10 DEF StreamInv

\* Taking the first frame off the wire moves the others up by one place.
LEMMA TailFacts ==
  ASSUME NEW e \in SessionSet, NEW f, e.wire # <<>>, f.wire = Tail(e.wire), NEW i, NEW t
  PROVE  /\ 1 \in OnWire(t, i, e) <=> Head(e.wire).t = t /\ Head(e.wire).sid = i
         /\ \A k \in OnWire(t, i, f) :
              k \in Nat /\ k >= 1 /\ k + 1 \in OnWire(t, i, e) /\ f.wire[k] = e.wire[k + 1]
         /\ \A k \in OnWire(t, i, e) : k \in Nat /\ (k = 1 \/ (k > 1 /\ k - 1 \in OnWire(t, i, f)))
<1> DEFINE u == e.wire
           n == Len(u)
<1>1. u \in Seq(FrameSet) /\ u # <<>>
  BY DEF SessionSet
<1>2. f.wire = Tail(u)
  OBVIOUS
<1> HIDE DEF u
<1>3. n \in Nat /\ n >= 1 /\ Head(u) = u[1] /\ Len(f.wire) = n - 1
  <2>1. n \in Nat /\ n >= 1 /\ Head(u) = u[1]
    BY <1>1
  <2>2. Len(Tail(u)) = n - 1
    BY <1>1
  <2> QED BY <1>2, <2>1, <2>2, Zenon
<1>4. \A k \in 1 .. n - 1 : f.wire[k] = u[k + 1]
  <2>1. \A k \in 1 .. n - 1 : Tail(u)[k] = u[k + 1]
    BY <1>1
  <2> QED BY <1>2, <2>1, Zenon
<1> HIDE DEF n
<1>5. \A k : k \in OnWire(t, i, e) <=> k \in 1 .. n /\ u[k].t = t /\ u[k].sid = i
  BY DEF OnWire, u, n
<1>6. \A k : k \in OnWire(t, i, f) <=> k \in 1 .. n - 1 /\ u[k + 1].t = t /\ u[k + 1].sid = i
  BY <1>3, <1>4 DEF OnWire
<1>7. 1 \in OnWire(t, i, e) <=> Head(e.wire).t = t /\ Head(e.wire).sid = i
  BY <1>3, <1>5 DEF u
<1>8. ASSUME NEW k \in OnWire(t, i, f)
      PROVE  k \in Nat /\ k >= 1 /\ k + 1 \in OnWire(t, i, e) /\ f.wire[k] = e.wire[k + 1]
  <2>1. k \in 1 .. n - 1 /\ u[k + 1].t = t /\ u[k + 1].sid = i
    BY <1>6
  <2>2. k \in Nat /\ k >= 1 /\ k + 1 \in 1 .. n
    BY <1>3, <2>1
  <2>3. f.wire[k] = e.wire[k + 1]
    BY <1>4, <2>1, Zenon DEF u
  <2> QED BY <1>5, <2>1, <2>2, <2>3, Zenon
<1>9. ASSUME NEW k \in OnWire(t, i, e)
      PROVE  k \in Nat /\ (k = 1 \/ (k > 1 /\ k - 1 \in OnWire(t, i, f)))
  <2>1. k \in 1 .. n /\ u[k].t = t /\ u[k].sid = i
    BY <1>5
  <2>2. k \in Nat /\ (k = 1 \/ k > 1) /\ (k - 1) + 1 = k
    BY <1>3, <2>1
  <2>3. k > 1 => k - 1 \in 1 .. n - 1
    BY <1>3, <2>1, <2>2
  <2> QED BY <1>6, <2>1, <2>2, <2>3
<1> QED BY <1>7, <1>8, <1>9, Zenon

\* The wire of f is that of e with the frame g after its m frames.
Extended(i, e, f, g, m) ==
  /\ m \in Nat /\ f.wire[m + 1] = g
  /\ \A t : OnWire(t, i, f) = IF g.t = t /\ g.sid = i THEN OnWire(t, i, e) \cup {m + 1}
                                                      ELSE OnWire(t, i, e)
  /\ \A t : \A k \in OnWire(t, i, e) : k \in Nat /\ k < m + 1 /\ f.wire[k] = e.wire[k]

\* Append is such an extension of the wire.
LEMMA AppendExtends ==
  ASSUME NEW e \in SessionSet, NEW f, NEW g \in FrameSet, f.wire = Append(e.wire, g), NEW i
  PROVE  Extended(i, e, f, g, Len(e.wire))
<1> DEFINE u == e.wire
           n == Len(u)
<1>1. u \in Seq(FrameSet)
  BY DEF SessionSet
<1>2. f.wire = Append(u, g)
  OBVIOUS
<1> HIDE DEF u
<1>3. n \in Nat /\ Len(f.wire) = n + 1 /\ f.wire[n + 1] = g
  BY <1>1, <1>2
<1>4. \A k \in 1 .. n : f.wire[k] = u[k]
  BY <1>1, <1>2
<1> HIDE DEF n
<1>5. \A t : \A k : k \in OnWire(t, i, e) <=> k \in 1 .. n /\ u[k].t = t /\ u[k].sid = i
  BY DEF OnWire, u, n
<1>6. \A t : \A k : k \in OnWire(t, i, f) <=>
                      k \in 1 .. n + 1 /\ f.wire[k].t = t /\ f.wire[k].sid = i
  BY <1>3 DEF OnWire
<1>7. \A k : k \in 1 .. n + 1 <=> k \in 1 .. n \/ k = n + 1
  BY <1>3
<1>8. ASSUME NEW t, NEW k
      PROVE  k \in OnWire(t, i, f) <=>
               k \in OnWire(t, i, e) \/ (k = n + 1 /\ g.t = t /\ g.sid = i)
  <2>1. CASE k \in 1 .. n
    <3>1. k # n + 1
      BY <1>3, <2>1
    <3>2. f.wire[k] = u[k] /\ k \in 1 .. n + 1
      BY <1>4, <1>7, <2>1, Zenon
    <3> HIDE DEF n
    <3> QED BY <1>5, <1>6, <2>1, <3>1, <3>2, ZenonT(40)
  <2>2. CASE k = n + 1
    <3>1. k \notin 1 .. n
      BY <1>3, <2>2
    <3> QED BY <1>3, <1>5, <1>6, <1>7, <2>2, <3>1
  <2>3. CASE k \notin 1 .. n /\ k # n + 1
    BY <1>5, <1>6, <1>7, <2>3
  <2> QED BY <2>1, <2>2, <2>3
<1>9. \A t : OnWire(t, i, f) = IF g.t = t /\ g.sid = i THEN OnWire(t, i, e) \cup {n + 1}
                                                       ELSE OnWire(t, i, e)
  <2> SUFFICES ASSUME NEW t
               PROVE  OnWire(t, i, f) = IF g.t = t /\ g.sid = i THEN OnWire(t, i, e) \cup {n + 1}
                                                                ELSE OnWire(t, i, e)
    OBVIOUS
  <2>1. CASE g.t = t /\ g.sid = i
    <3>1. \A k : k \in OnWire(t, i, f) <=> k \in OnWire(t, i, e) \cup {n + 1}
      BY <1>8, <2>1, Zenon
    <3> QED BY <2>1, <3>1, Zenon
  <2>2. CASE ~(g.t = t /\ g.sid = i)
    <3>1. \A k : k \in OnWire(t, i, f) <=> k \in OnWire(t, i, e)
      BY <1>8, <2>2, Zenon
    <3> QED BY <2>2, <3>1, Zenon
  <2> QED BY <2>1, <2>2
<1>10. ASSUME NEW t, NEW k \in OnWire(t, i, e)
       PROVE  k \in Nat /\ k < n + 1 /\ f.wire[k] = u[k]
  <2>1. k \in 1 .. n
    BY <1>5
  <2> QED BY <1>3, <1>4, <2>1
<1> QED BY <1>3, <1>9, <1>10, Zenon DEF Extended, n, u

\* What a stream shows of itself, without what the server hears.
SameStream(x, y) ==
  /\ y.by = x.by /\ y.q = x.q /\ y.moving = x.moving /\ y.pipe = x.pipe
  /\ y.read = x.read /\ y.end = x.end /\ y.sent = x.sent
  /\ x.heard = "fin" => y.heard = "fin"
  /\ y.heard = "addr" => x.heard = "addr"

\* recvLoop takes the frame g off the wire; it is handed on if its stream is
\* registered, and a FIN unregisters it.
LEMMA RecvKeeps ==
  ASSUME NEW i, NEW x \in StreamSet, NEW y, NEW e \in SessionSet, NEW f, NEW w,
         StreamInv(i, x, e, w), SameStream(x, y), e.hand = NoFrame, e.wire # <<>>, NEW g,
         g = Head(e.wire), f.wire = Tail(e.wire), f.up = e.up, f.sid = e.sid,
         f.hand = IF g.t \in {"PSH", "SYNACK", "FIN"} /\ g.sid \in e.streams THEN g ELSE NoFrame,
         f.streams = IF g.t = "FIN" THEN e.streams \ {g.sid} ELSE e.streams
  PROVE  StreamInv(i, y, f, w)
<1> DEFINE p == OnWire("PSH", i, e)
           fin == OnWire("FIN", i, e)
           p1 == OnWire("PSH", i, f)
           fin1 == OnWire("FIN", i, f)
           a == Queued(x)
<1>1. a \in Nat /\ x.sent \in Nat
  BY DEF StreamSet, Queued, Handed
<1>2. Handed(y) = Handed(x) /\ Queued(y) = a
  BY DEF SameStream, Handed, Queued
<1>3. ~InHand("PSH", i, e) /\ ~InHand("FIN", i, e) /\ Arrived(i, x, e) = a
  BY <1>1 DEF InHand, NoFrame, Frame, Arrived
<1>4. /\ 1 \in p <=> g.t = "PSH" /\ g.sid = i
      /\ \A k \in p1 : k \in Nat /\ k >= 1 /\ k + 1 \in p /\ f.wire[k] = e.wire[k + 1]
      /\ \A k \in p : k \in Nat /\ (k = 1 \/ (k > 1 /\ k - 1 \in p1))
  <2>1. 1 \in p <=> g.t = "PSH" /\ g.sid = i
    BY TailFacts
  <2>2. ASSUME NEW k \in p1
        PROVE  k \in Nat /\ k >= 1 /\ k + 1 \in p /\ f.wire[k] = e.wire[k + 1]
    <3>1. k \in Nat /\ k >= 1 /\ k + 1 \in p
      BY TailFacts
    <3>2. \A q \in Seq(FrameSet) : q # <<>> => \A j \in 1 .. Len(Tail(q)) : Tail(q)[j] = q[j + 1]
      OBVIOUS
    <3>3. e.wire \in Seq(FrameSet) /\ k \in 1 .. Len(Tail(e.wire))
      BY DEF OnWire, SessionSet
    <3>4. f.wire[k] = e.wire[k + 1]
      BY <3>2, <3>3, Zenon
    <3> QED BY <3>1, <3>4, Zenon
  <2>3. \A k \in p : k \in Nat /\ (k = 1 \/ (k > 1 /\ k - 1 \in p1))
    BY TailFacts, Zenon
  <2> QED BY <2>1, <2>2, <2>3, Zenon
<1>5. /\ 1 \in fin <=> g.t = "FIN" /\ g.sid = i
      /\ \A k \in fin1 : k \in Nat /\ k >= 1 /\ k + 1 \in fin
  BY TailFacts
<1>6. g = e.wire[1] /\ \A k \in p : e.wire[k].n \in Nat
  <2>1. e.wire \in Seq(FrameSet)
    BY DEF SessionSet
  <2>2. g = e.wire[1]
    BY <2>1
  <2>3. \A k \in 1 .. Len(e.wire) : e.wire[k] \in FrameSet
    BY <2>1
  <2> QED BY <2>2, <2>3 DEF FrameSet, OnWire
<1>7. /\ InHand("PSH", i, f) <=> g.t = "PSH" /\ g.sid = i /\ i \in e.streams
      /\ InHand("FIN", i, f) <=> g.t = "FIN" /\ g.sid = i /\ i \in e.streams
      /\ InHand("PSH", i, f) => f.hand = g
  BY DEF InHand, NoFrame, Frame
<1>8. Continued(i, x, e) /\ Followed(i, x, e, w) /\ Ended(i, x, e) /\ Numbered(x)
  BY DEF StreamInv
<1>9. /\ \A k \in fin : x.heard = "fin" /\ \A l \in p : l < k
      /\ x.by = "fin" => x.heard = "fin" /\ p = {}
      /\ x.by = "none" /\ (x.heard = "addr" \/ p # {}) => i \in e.streams
      /\ x.by = "none" /\ i = e.sid /\ w \in {"synack", "addr", "use"} =>
           i \in e.streams \/ x.heard = "fin"
      /\ i = e.sid /\ w = "fin" => x.by # "none"
  BY <1>8 DEF Followed
<1>10. x.by = "none" /\ x.pipe = "open" =>
         /\ a <= x.sent
         /\ \A k, l \in p : k < l => e.wire[k].n < e.wire[l].n
         /\ \A k \in p : e.wire[k].n \in a + 1 .. x.sent
         /\ \A n \in a + 1 .. x.sent : \E k \in p : e.wire[k].n = n
  BY <1>3, <1>8, Zenon DEF Continued
<1> HIDE DEF p, fin, p1, fin1, a
\* After a FIN the wire has no data of the stream.
<1>11. g.t = "FIN" /\ g.sid = i => x.heard = "fin" /\ p = {}
  <2> SUFFICES ASSUME g.t = "FIN", g.sid = i PROVE x.heard = "fin" /\ p = {}
    OBVIOUS
  <2>1. 1 \in fin
    BY <1>5
  <2>2. x.heard = "fin" /\ \A l \in p : l < 1
    BY <1>9, <2>1
  <2>3. \A l \in p : l >= 1
    BY <1>4
  <2> QED BY <1>4, <2>2, <2>3
<1>12. p = {} => p1 = {}
  BY <1>4
<1>13. Numbered(y)
  BY <1>2, <1>8 DEF Numbered, SameStream
<1>14. Ended(i, y, f)
  <2>1. x.by = "fin" => ~InHand("PSH", i, f)
    BY <1>4, <1>7, <1>9
  <2> QED BY <1>2, <1>8, <2>1, Zenon DEF Ended, SameStream, a
<1>15. Followed(i, y, f, w)
  <2>1. ASSUME NEW k \in fin1 PROVE x.heard = "fin" /\ \A l \in p1 : l < k
    <3>1. k + 1 \in fin /\ k \in Nat
      BY <1>5
    <3>2. ASSUME NEW l \in p1 PROVE l < k
      <4>1. l \in Nat /\ l + 1 \in p
        BY <1>4
      <4>2. l + 1 < k + 1
        BY <1>9, <3>1, <4>1
      <4> QED BY <3>1, <4>1, <4>2
    <3> QED BY <1>9, <3>1, <3>2
  <2>2. InHand("FIN", i, f) \/ x.by = "fin" => x.heard = "fin" /\ p1 = {}
    BY <1>7, <1>9, <1>11, <1>12
  <2>3. x.by = "none" /\ (x.heard = "addr" \/ p1 # {}) => i \in f.streams
    <3> SUFFICES ASSUME x.by = "none", x.heard = "addr" \/ p1 # {} PROVE i \in f.streams
      OBVIOUS
    <3>1. i \in e.streams
      BY <1>9, <1>12
    <3>2. ~(g.t = "FIN" /\ g.sid = i)
      BY <1>11, <1>12
    <3> QED BY <3>1, <3>2
  <2>4. x.by = "none" /\ i = f.sid /\ w \in {"synack", "addr", "use"} =>
          i \in f.streams \/ x.heard = "fin"
    BY <1>9, <1>11
  <2>5. i = f.sid /\ w = "fin" => x.by # "none"
    BY <1>9
  <2> QED BY <2>1, <2>2, <2>3, <2>4, <2>5 DEF Followed, SameStream, p1, fin1
<1>16. ASSUME x.by = "none", x.pipe = "open"
       PROVE  LET b == IF g.t = "PSH" /\ g.sid = i THEN a + 1 ELSE a IN
              /\ b <= x.sent /\ (g.t = "PSH" /\ g.sid = i => g.n = b)
              /\ g.t = "FIN" /\ g.sid = i => b = x.sent
              /\ \A k \in p1 : f.wire[k].n \in b + 1 .. x.sent
              /\ \A n \in b + 1 .. x.sent : \E k \in p1 : f.wire[k].n = n
  <2>1. CASE g.t = "PSH" /\ g.sid = i
    <3>1. 1 \in p /\ g.n \in Nat /\ a + 1 <= g.n /\ g.n <= x.sent
      BY <1>1, <1>4, <1>6, <1>10, <1>16, <2>1
    <3>2. PICK k \in p : e.wire[k].n = a + 1
      BY <1>1, <1>10, <1>16, <3>1
    <3>3. k = 1 \/ k > 1
      BY <1>4
    <3>4. g.n = a + 1
      BY <1>1, <1>6, <1>10, <1>16, <3>1, <3>2, <3>3
    <3>5. ASSUME NEW l \in p1 PROVE f.wire[l].n \in a + 1 + 1 .. x.sent
      <4>1. l \in Nat /\ l >= 1 /\ l + 1 \in p /\ f.wire[l] = e.wire[l + 1]
        BY <1>4, Zenon
      <4>2. 1 < l + 1
        BY <4>1
      <4>3. e.wire[1].n < e.wire[l + 1].n /\ e.wire[l + 1].n \in a + 1 .. x.sent
        BY <1>10, <1>16, <3>1, <4>1, <4>2, Zenon
      <4>4. e.wire[l + 1].n \in Nat /\ a + 1 < e.wire[l + 1].n /\ e.wire[l + 1].n <= x.sent
        BY <1>1, <1>6, <3>4, <4>1, <4>3
      <4>5. e.wire[l + 1].n \in a + 1 + 1 .. x.sent
        BY <1>1, <4>4
      <4> QED BY <4>1, <4>5, Zenon
    <3>6. ASSUME NEW n \in a + 1 + 1 .. x.sent PROVE \E l \in p1 : f.wire[l].n = n
      <4>1. n \in a + 1 .. x.sent /\ n # a + 1
        BY <1>1
      <4>2. PICK l \in p : e.wire[l].n = n
        BY <1>10, <1>16, <4>1
      <4>3. l # 1
        BY <1>6, <3>4, <4>1, <4>2
      <4>4. l \in Nat /\ l - 1 \in p1 /\ (l - 1) + 1 = l
        BY <1>4, <4>3
      <4>5. f.wire[l - 1] = e.wire[l]
        BY <1>4, <4>4, Zenon
      <4> QED BY <4>2, <4>4, <4>5, Zenon
    <3> QED BY <2>1, <3>1, <3>4, <3>5, <3>6, Zenon
  <2>2. CASE ~(g.t = "PSH" /\ g.sid = i)
    <3>1. 1 \notin p
      BY <1>4, <2>2
    <3>2. ASSUME NEW l \in p1 PROVE f.wire[l].n \in a + 1 .. x.sent
      BY <1>4, <1>10, <1>16, Zenon
    <3>3. ASSUME NEW n \in a + 1 .. x.sent PROVE \E l \in p1 : f.wire[l].n = n
      <4>1. PICK l \in p : e.wire[l].n = n
        BY <1>10, <1>16, Zenon
      <4>2. l \in Nat /\ l - 1 \in p1 /\ (l - 1) + 1 = l
        BY <1>4, <3>1
      <4>3. f.wire[l - 1] = e.wire[l]
        BY <1>4, <4>2, Zenon
      <4> QED BY <4>1, <4>2, <4>3, Zenon
    <3>4. g.t = "FIN" /\ g.sid = i => a = x.sent
      <4> SUFFICES ASSUME g.t = "FIN", g.sid = i, a < x.sent PROVE FALSE
        BY <1>1, <1>10, <1>16, SMTT(30)
      <4>1. a + 1 \in a + 1 .. x.sent
        BY <1>1
      <4>2. \E k \in p : e.wire[k].n = a + 1
        BY <1>10, <1>16, <4>1, Zenon
      <4> QED BY <1>11, <4>2
    <3> QED BY <1>10, <1>16, <2>2, <3>2, <3>3, <3>4, Zenon
  <2> QED BY <2>1, <2>2, Zenon
<1>17. ASSUME x.by = "none", x.pipe = "open", NEW k \in p1, NEW l \in p1, k < l
       PROVE  f.wire[k].n < f.wire[l].n
  <2>1. /\ k \in Nat /\ k + 1 \in p /\ f.wire[k] = e.wire[k + 1]
        /\ l \in Nat /\ l + 1 \in p /\ f.wire[l] = e.wire[l + 1]
    BY <1>4, Zenon
  <2>2. k + 1 < l + 1
    BY <1>17, <2>1
  <2> QED BY <1>10, <1>17, <2>1, <2>2, Zenon
<1>18. Continued(i, y, f)
  <2> SUFFICES ASSUME x.by = "none", x.pipe = "open" PROVE Continued(i, y, f)
    BY Zenon DEF Continued, SameStream
  <2> DEFINE b == IF g.t = "PSH" /\ g.sid = i THEN a + 1 ELSE a
  <2>1. g.t = "PSH" /\ g.sid = i => i \in e.streams
    BY <1>4, <1>9
  <2>2. Arrived(i, y, f) = b
    BY <1>1, <1>2, <1>7, <2>1, SMTT(30) DEF Arrived
  <2>3. InHand("PSH", i, f) => f.hand.n = b
    BY <1>7, <1>16, Zenon
  <2>4. InHand("FIN", i, f) => b = x.sent
    BY <1>7, <1>16, Zenon
  <2>5. /\ b <= x.sent /\ \A k \in p1 : f.wire[k].n \in b + 1 .. x.sent
        /\ \A n \in b + 1 .. x.sent : \E k \in p1 : f.wire[k].n = n
    BY <1>16, Zenon
  <2> HIDE DEF b
  <2> QED BY <1>17, <2>2, <2>3, <2>4, <2>5, Zenon DEF Continued, SameStream, p1
<1> QED BY <1>13, <1>14, <1>15, <1>18 DEF StreamInv

\* The wire carries the numbers from a + 1 to s, in order.
Carries(p, u, a, s) ==
  /\ a <= s
  /\ \A k, l \in p : k < l => u[k].n < u[l].n
  /\ \A k \in p : u[k].n \in a + 1 .. s
  /\ \A n \in a + 1 .. s : \E k \in p : u[k].n = n

\* A frame with the next number, behind the others, is carried as well.
LEMMA CarriesNext ==
  ASSUME NEW a \in Nat, NEW s \in Nat, NEW m \in Nat, NEW p, NEW u, NEW v, Carries(p, u, a, s),
         \A k \in p : k \in Nat /\ k < m + 1 /\ v[k] = u[k], v[m + 1].n = s + 1
  PROVE  Carries(p \cup {m + 1}, v, a, s + 1)
<1>1. ASSUME NEW k \in p PROVE v[k].n \in a + 1 .. s /\ v[k].n \in Nat /\ v[k].n < s + 1
  <2>1. v[k].n \in a + 1 .. s
    BY DEF Carries
  <2> QED BY <2>1
<1>2. ASSUME NEW k \in p \cup {m + 1}, NEW l \in p \cup {m + 1}, k < l PROVE v[k].n < v[l].n
  <2>1. CASE k \in p /\ l \in p
    BY <1>2, <2>1 DEF Carries
  <2>2. CASE k \in p /\ l = m + 1
    BY <1>1, <2>2
  <2>3. CASE k = m + 1
    BY <1>2, <2>3
  <2> QED BY <2>1, <2>2, <2>3
<1>3. ASSUME NEW k \in p \cup {m + 1} PROVE v[k].n \in a + 1 .. s + 1
  <2>1. CASE k \in p
    <3>1. v[k].n \in a + 1 .. s
      BY <1>1, <2>1
    <3> QED BY <3>1
  <2>2. CASE k = m + 1
    BY <2>2 DEF Carries
  <2> QED BY <2>1, <2>2
<1>4. ASSUME NEW n \in a + 1 .. s + 1 PROVE \E k \in p \cup {m + 1} : v[k].n = n
  <2>1. CASE n = s + 1
    BY <2>1
  <2>2. CASE n \in a + 1 .. s
    <3>1. PICK k \in p : u[k].n = n
      BY <2>2 DEF Carries
    <3> QED BY <3>1
  <2> QED BY <2>1, <2>2
<1>5. a <= s + 1
  BY DEF Carries
<1> QED BY <1>2, <1>3, <1>4, <1>5 DEF Carries

\* The frames of the stream's data are where they were.
LEMMA SameDataContinues ==
  ASSUME NEW i, NEW x, NEW y, NEW e, NEW f, Continued(i, x, e), e.up,
         y.by = x.by, y.pipe = x.pipe, y.sent = x.sent, f.hand = e.hand,
         Arrived(i, y, f) = Arrived(i, x, e), OnWire("PSH", i, f) = OnWire("PSH", i, e),
         \A k \in OnWire("PSH", i, e) : f.wire[k] = e.wire[k]
  PROVE  Continued(i, y, f)
<1> SUFFICES ASSUME y.by = "none", y.pipe = "open"
             PROVE  Continued(i, y, f)
  BY Zenon DEF Continued
<1> DEFINE a == Arrived(i, x, e)
           q == OnWire("PSH", i, e)
           u == e.wire
           v == f.wire
<1>1. /\ a <= x.sent
      /\ InHand("PSH", i, e) => e.hand.n = a
      /\ InHand("FIN", i, e) => a = x.sent
      /\ \A k, l \in q : k < l => u[k].n < u[l].n
      /\ \A k \in q : u[k].n \in a + 1 .. x.sent
      /\ \A n \in a + 1 .. x.sent : \E k \in q : u[k].n = n
  BY Zenon DEF Continued
<1>2. \A t : InHand(t, i, f) = InHand(t, i, e)
  BY DEF InHand
<1>3. Arrived(i, y, f) = a /\ OnWire("PSH", i, f) = q /\ \A k \in q : v[k] = u[k]
  OBVIOUS
<1> HIDE DEF a, q, u
<1>4. ASSUME NEW k \in q, NEW l \in q, k < l PROVE v[k].n < v[l].n
  <2>1. u[k].n < u[l].n /\ v[k] = u[k] /\ v[l] = u[l]
    BY <1>1, <1>3, <1>4
  <2> QED BY <2>1
<1>5. ASSUME NEW k \in q PROVE v[k].n \in a + 1 .. x.sent
  <2>1. u[k].n \in a + 1 .. x.sent /\ v[k] = u[k]
    BY <1>1, <1>3
  <2> QED BY <2>1
<1>6. ASSUME NEW n \in a + 1 .. x.sent PROVE \E k \in q : v[k].n = n
  <2>1. PICK k \in q : u[k].n = n
    BY <1>1
  <2>2. v[k] = u[k]
    BY <1>3
  <2> QED BY <2>1, <2>2
<1> QED BY <1>1, <1>2, <1>3, <1>4, <1>5, <1>6, Zenon DEF Continued

\* The server sends something that is not the stream's data.
LEMMA SendOtherKeeps ==
  ASSUME NEW i, NEW x, NEW y, NEW e, NEW f, NEW w, NEW g, NEW m, StreamInv(i, x, e, w),
         e.up, Extended(i, e, f, g, m), f.up = e.up, f.hand = e.hand, f.streams = e.streams,
         f.sid = e.sid, ~(g.sid = i /\ g.t \in {"PSH", "FIN"}),
         y.by = x.by, y.q = x.q, y.moving = x.moving, y.pipe = x.pipe, y.read = x.read,
         y.end = x.end, y.sent = x.sent, y.heard = x.heard
  PROVE  StreamInv(i, y, f, w)
<1>1. Handed(y) = Handed(x) /\ Queued(y) = Queued(x)
  BY DEF Handed, Queued
<1>2. /\ \A t : InHand(t, i, f) = InHand(t, i, e)
      /\ Arrived(i, y, f) = Arrived(i, x, e)
  BY <1>1 DEF InHand, Arrived
<1>3. OnWire("PSH", i, f) = OnWire("PSH", i, e) /\ OnWire("FIN", i, f) = OnWire("FIN", i, e)
  BY DEF Extended
<1>4. \A k \in OnWire("PSH", i, e) : f.wire[k] = e.wire[k]
  BY DEF Extended
<1>5. Numbered(y)
  BY <1>1, Zenon DEF StreamInv, Numbered
<1>6. Continued(i, y, f)
  BY <1>2, <1>3, <1>4, SameDataContinues DEF StreamInv
<1>7. Followed(i, y, f, w)
  BY <1>2, <1>3, Zenon DEF StreamInv, Followed
<1>8. Ended(i, y, f)
  BY <1>1, <1>2 DEF StreamInv, Ended
<1> QED BY <1>5, <1>6, <1>7, <1>8 DEF StreamInv

\* The server sends the stream's FIN.
LEMMA SendFinKeeps ==
  ASSUME NEW i, NEW x, NEW y, NEW e, NEW f, NEW w, NEW g, NEW m, StreamInv(i, x, e, w),
         e.up, Extended(i, e, f, g, m), f.up = e.up, f.hand = e.hand, f.streams = e.streams,
         f.sid = e.sid, g.sid = i, g.t = "FIN",
         y.by = x.by, y.q = x.q, y.moving = x.moving, y.pipe = x.pipe, y.read = x.read,
         y.end = x.end, y.sent = x.sent, y.heard = "fin"
  PROVE  StreamInv(i, y, f, w)
<1>1. Handed(y) = Handed(x) /\ Queued(y) = Queued(x)
  BY DEF Handed, Queued
<1>2. /\ \A t : InHand(t, i, f) = InHand(t, i, e)
      /\ Arrived(i, y, f) = Arrived(i, x, e)
  BY <1>1 DEF InHand, Arrived
<1>3. /\ OnWire("PSH", i, f) = OnWire("PSH", i, e)
      /\ OnWire("FIN", i, f) = OnWire("FIN", i, e) \cup {m + 1}
  BY DEF Extended
<1>4. \A k \in OnWire("PSH", i, e) : f.wire[k] = e.wire[k] /\ k < m + 1
  BY DEF Extended
<1>5. Numbered(y)
  BY <1>1 DEF StreamInv, Numbered
<1>6. Continued(i, y, f)
  BY <1>2, <1>3, <1>4, SameDataContinues, Zenon DEF StreamInv
<1>7. Followed(i, y, f, w)
  BY <1>2, <1>3, <1>4, Zenon DEF StreamInv, Followed
<1>8. Ended(i, y, f)
  BY <1>1, <1>2 DEF StreamInv, Ended
<1> QED BY <1>5, <1>6, <1>7, <1>8 DEF StreamInv

\* The server sends the next data frame of the stream.
LEMMA SendDataKeeps ==
  ASSUME NEW i, NEW x, NEW y, NEW e, NEW f, NEW w, NEW g, NEW m, StreamInv(i, x, e, w),
         Arrived(i, x, e) \in Nat, x.sent \in Nat,
         e.up, Extended(i, e, f, g, m), f.up = e.up, f.hand = e.hand, f.streams = e.streams,
         f.sid = e.sid, g.sid = i, g.t = "PSH", g.n = x.sent + 1, x.heard = "addr",
         y.by = x.by, y.q = x.q, y.moving = x.moving, y.pipe = x.pipe, y.read = x.read,
         y.end = x.end, y.sent = x.sent + 1, y.heard = x.heard
  PROVE  StreamInv(i, y, f, w)
<1> DEFINE p == OnWire("PSH", i, e)
           a == Arrived(i, x, e)
<1>1. Handed(y) = Handed(x) /\ Queued(y) = Queued(x)
  BY DEF Handed, Queued
<1>2. /\ \A t : InHand(t, i, f) = InHand(t, i, e)
      /\ Arrived(i, y, f) = a
  BY <1>1 DEF InHand, Arrived
<1>3. /\ OnWire("PSH", i, f) = p \cup {m + 1} /\ m \in Nat /\ f.wire[m + 1] = g
      /\ OnWire("FIN", i, f) = OnWire("FIN", i, e)
      /\ \A k \in p : k \in Nat /\ k < m + 1 /\ f.wire[k] = e.wire[k]
  BY DEF Extended
<1>4. ~InHand("FIN", i, e) /\ x.by # "fin" /\ OnWire("FIN", i, e) = {}
  BY Zenon DEF StreamInv, Followed
<1>5. Numbered(y)
  BY <1>1, Zenon DEF StreamInv, Numbered
<1>6. Followed(i, y, f, w)
  BY <1>2, <1>3, <1>4, Zenon DEF StreamInv, Followed
<1>7. Ended(i, y, f)
  BY <1>4 DEF StreamInv, Ended
<1>8. ASSUME x.by = "none", x.pipe = "open" PROVE Carries(p, e.wire, a, x.sent)
  BY <1>8, Zenon DEF StreamInv, Continued, Carries
<1>9. InHand("PSH", i, e) /\ x.by = "none" /\ x.pipe = "open" => e.hand.n = a
  BY Zenon DEF StreamInv, Continued
<1> HIDE DEF p, a
<1>10. ASSUME x.by = "none", x.pipe = "open"
       PROVE  Carries(p \cup {m + 1}, f.wire, a, x.sent + 1)
  <2>1. a \in Nat
    BY Zenon DEF a
  <2>2. f.wire[m + 1].n = x.sent + 1
    BY <1>3, Zenon
  <2> QED BY <1>3, <1>8, <1>10, <2>1, <2>2, CarriesNext, SMTT(30)
<1>11. Continued(i, y, f)
  <2> SUFFICES ASSUME x.by = "none", x.pipe = "open" PROVE Continued(i, y, f)
    BY Zenon DEF Continued
  <2>1. InHand("PSH", i, f) => f.hand.n = a
    BY <1>2, <1>9, Zenon
  <2>2. ~InHand("FIN", i, f)
    BY <1>2, <1>4
  <2>3. Arrived(i, y, f) = a /\ OnWire("PSH", i, f) = p \cup {m + 1}
    BY <1>2, <1>3, Zenon
  <2> QED BY <1>10, <2>1, <2>2, <2>3, Zenon DEF Continued, Carries
<1> QED BY <1>5, <1>6, <1>7, <1>11 DEF StreamInv

\* The wire is lost with the connection.
LEMMA LossKeeps ==
  ASSUME NEW i, NEW x, NEW e, NEW f, NEW w, StreamInv(i, x, e, w),
         f.wire = <<>>, ~f.up, f.hand = e.hand, f.sid = e.sid,
         x.by = "none" /\ i \in e.streams => i \in f.streams
  PROVE  StreamInv(i, x, f, w)
<1>1. \A t : OnWire(t, i, f) = {}
  BY DEF OnWire
<1>2. /\ \A t : InHand(t, i, f) = InHand(t, i, e)
      /\ Arrived(i, x, f) = Arrived(i, x, e)
  BY DEF InHand, Arrived
<1>3. Continued(i, x, f)
  BY <1>1, <1>2, Zenon DEF StreamInv, Continued
<1>4. Followed(i, x, f, w)
  BY <1>1, <1>2, Zenon DEF StreamInv, Followed
<1>5. Ended(i, x, f)
  BY <1>2, Zenon DEF StreamInv, Ended
<1> QED BY <1>3, <1>4, <1>5, Zenon DEF StreamInv

-----------------------------------------------------------------------------
\* What the model's operators on streams and sessions do.

\* Hears changes only what the server knows of the stream.
LEMMA HearsFacts ==
  ASSUME NEW x \in StreamSet, NEW what \in {"syn", "addr", "fin"}
  PROVE  LET y == Hears(x, what) IN
         /\ y \in StreamSet
         /\ y.by = x.by /\ y.q = x.q /\ y.moving = x.moving /\ y.pipe = x.pipe
         /\ y.read = x.read /\ y.end = x.end /\ y.sent = x.sent
         /\ x.heard = "fin" => y.heard = "fin"
         /\ y.heard \in {x.heard, what}
<1> DEFINE b == x.acked /\ what # "fin"
           z == [x EXCEPT !.heard = what, !.acked = b]
<1>1. b \in BOOLEAN
  BY Zenon DEF b
<1>2. Hears(x, what) = x \/ (x.heard # "fin" /\ Hears(x, what) = z)
  BY DEF Hears
<1> HIDE DEF b
<1>3. /\ z \in StreamSet
      /\ z.by = x.by /\ z.q = x.q /\ z.moving = x.moving /\ z.pipe = x.pipe
      /\ z.read = x.read /\ z.end = x.end /\ z.sent = x.sent /\ z.heard = what
  BY <1>1, Zenon DEF StreamSet
<1> HIDE DEF z
<1> QED BY <1>2, <1>3

\* What closes a stream ...
LEMMA DieOnceFacts ==
  ASSUME NEW x \in StreamSet, NEW by \in {"overflow", "force", "open", "fin"}
  PROVE  LET y == DieOnce(x, by) IN
         /\ y \in StreamSet /\ y.by = IF x.by = "none" THEN by ELSE x.by
         /\ y.pipe = x.pipe /\ y.q = x.q /\ y.moving = x.moving /\ y.read = x.read
         /\ y.end = x.end /\ y.sent = x.sent /\ y.heard = x.heard
<1>1. CASE x.by = "none"
  <2> DEFINE y == [x EXCEPT !.by = by]
  <2>1. /\ y \in StreamSet /\ y.by = by
        /\ y.pipe = x.pipe /\ y.q = x.q /\ y.moving = x.moving /\ y.read = x.read
        /\ y.end = x.end /\ y.sent = x.sent /\ y.heard = x.heard
    BY Zenon DEF StreamSet
  <2>2. DieOnce(x, by) = y
    BY <1>1 DEF DieOnce
  <2> HIDE DEF y
  <2> QED BY <1>1, <2>1, <2>2, Zenon
<1>2. CASE x.by # "none"
  BY <1>2, Zenon DEF DieOnce
<1> QED BY <1>1, <1>2

\* ... or its pipe.
LEMMA ClosePipeFacts ==
  ASSUME NEW x \in StreamSet, NEW err \in {"eof", "error"}
  PROVE  LET y == ClosePipe(x, err) IN
         /\ y \in StreamSet /\ y.pipe = IF x.pipe = "open" THEN err ELSE x.pipe
         /\ y.by = x.by /\ y.q = x.q /\ y.moving = x.moving /\ y.read = x.read
         /\ y.end = x.end /\ y.sent = x.sent /\ y.heard = x.heard
<1>1. CASE x.pipe = "open"
  <2> DEFINE y == [x EXCEPT !.pipe = err]
  <2>1. /\ y \in StreamSet /\ y.pipe = err
        /\ y.by = x.by /\ y.q = x.q /\ y.moving = x.moving /\ y.read = x.read
        /\ y.end = x.end /\ y.sent = x.sent /\ y.heard = x.heard
    BY Zenon DEF StreamSet
  <2>2. ClosePipe(x, err) = y
    BY <1>1 DEF ClosePipe
  <2> HIDE DEF y
  <2> QED BY <1>1, <2>1, <2>2, Zenon
<1>2. CASE x.pipe # "open"
  BY <1>2, Zenon DEF ClosePipe
<1> QED BY <1>1, <1>2

\* forceClose ends the stream with an error for its reader.
LEMMA ForceFacts ==
  ASSUME NEW x \in StreamSet
  PROVE  LET y == forceClose(x) IN
         /\ y \in StreamSet /\ y.by = IF x.by = "none" THEN "force" ELSE x.by
         /\ y.pipe = IF x.pipe = "open" THEN "error" ELSE x.pipe
         /\ y.q = x.q /\ y.moving = x.moving /\ y.read = x.read
         /\ y.end = x.end /\ y.sent = x.sent /\ y.heard = x.heard
<1> DEFINE z == DieOnce(x, "force")
<1>1. /\ z \in StreamSet /\ z.by = IF x.by = "none" THEN "force" ELSE x.by
      /\ z.pipe = x.pipe /\ z.q = x.q /\ z.moving = x.moving /\ z.read = x.read
      /\ z.end = x.end /\ z.sent = x.sent /\ z.heard = x.heard
  BY DieOnceFacts
<1>2. forceClose(x) = ClosePipe(z, "error")
  BY DEF forceClose
<1> HIDE DEF z
<1> QED BY <1>1, <1>2, ClosePipeFacts

\* overflowClose ends the stream like forceClose, with an EOF for its reader.
LEMMA OverflowFacts ==
  ASSUME NEW x \in StreamSet
  PROVE  LET y == overflowClose(x) IN
         /\ y \in StreamSet /\ y.by = IF x.by = "none" THEN "overflow" ELSE x.by
         /\ y.pipe = IF x.pipe = "open" THEN "eof" ELSE x.pipe
         /\ y.q = x.q /\ y.moving = x.moving /\ y.read = x.read
         /\ y.end = x.end /\ y.sent = x.sent /\ y.heard = x.heard
<1> DEFINE z == DieOnce(x, "overflow")
<1>1. /\ z \in StreamSet /\ z.by = IF x.by = "none" THEN "overflow" ELSE x.by
      /\ z.pipe = x.pipe /\ z.q = x.q /\ z.moving = x.moving /\ z.read = x.read
      /\ z.end = x.end /\ z.sent = x.sent /\ z.heard = x.heard
  BY DieOnceFacts
<1>2. overflowClose(x) = ClosePipe(z, "eof")
  BY DEF overflowClose
<1> HIDE DEF z
<1> QED BY <1>1, <1>2, ClosePipeFacts

\* What does not touch the frames of a session.
Quiet(e, f) ==
  /\ f \in SessionSet /\ f.wire = e.wire /\ f.hand = e.hand /\ f.up = e.up
  /\ f.streams = e.streams /\ f.sid = e.sid

\* Closing the session, the write buffer and the settings are such changes.
LEMMA QuietFacts ==
  ASSUME NEW e \in SessionSet
  PROVE  /\ Quiet(e, CloseSession(e)) /\ Quiet(e, Flushed(e))
         /\ Quiet(e, flushBuffering(e)) /\ Quiet(e, Control(e))
         /\ Quiet(e, [e EXCEPT !.loop = FALSE]) /\ \A k \in Nat : Quiet(e, [e EXCEPT !.ver = k])
<1>1. Quiet(e, e)
  BY DEF Quiet
<1>2. Quiet(e, CloseSession(e))
  BY Zenon DEF Quiet, CloseSession, SessionSet
<1>3. ASSUME NEW b \in {"on", "full", "off"} PROVE Quiet(e, [e EXCEPT !.buffer = b])
  BY DEF Quiet, SessionSet
<1>4. Quiet(e, Flushed(e))
  BY <1>1, <1>3 DEF Flushed
<1>5. Quiet(e, flushBuffering(e))
  <2>1. e.buffer \in {"on", "full", "off"}
    BY DEF SessionSet
  <2>2. (IF e.buffer = "on" THEN "full" ELSE e.buffer) \in {"on", "full", "off"}
    BY <2>1
  <2> QED BY <1>3, <2>2 DEF flushBuffering
<1>6. Quiet(e, Control(e))
  BY <1>2, <1>4 DEF Control
<1>7. Quiet(e, [e EXCEPT !.loop = FALSE]) /\ \A k \in Nat : Quiet(e, [e EXCEPT !.ver = k])
  BY Zenon DEF Quiet, SessionSet
<1> QED BY <1>2, <1>4, <1>5, <1>6, <1>7

\* The receive loop takes a frame in hand or lets it go.
LEMMA SetHand ==
  ASSUME NEW e \in SessionSet, NEW g \in FrameSet \cup {NoFrame}
  PROVE  LET f == [e EXCEPT !.hand = g] IN
         /\ f \in SessionSet /\ f.wire = e.wire /\ f.hand = g /\ f.up = e.up
         /\ f.streams = e.streams /\ f.sid = e.sid
  BY DEF SessionSet

\* Streams are added to and taken from the table.
LEMMA SetStreams ==
  ASSUME NEW e \in SessionSet, NEW T \in SUBSET Nat
  PROVE  LET f == [e EXCEPT !.streams = T] IN
         /\ f \in SessionSet /\ f.wire = e.wire /\ f.hand = e.hand /\ f.up = e.up
         /\ f.streams = T /\ f.sid = e.sid
  BY DEF SessionSet

\* Frames are put on the wire and taken off it.
LEMMA SetWire ==
  ASSUME NEW e \in SessionSet, NEW u \in Seq(FrameSet)
  PROVE  LET f == [e EXCEPT !.wire = u] IN
         /\ f \in SessionSet /\ f.wire = u /\ f.hand = e.hand /\ f.up = e.up
         /\ f.streams = e.streams /\ f.sid = e.sid
  BY DEF SessionSet

\* OpenStream numbers its stream.
LEMMA SetSid ==
  ASSUME NEW e \in SessionSet, NEW k \in Nat
  PROVE  LET f == [e EXCEPT !.sid = k] IN
         /\ f \in SessionSet /\ f.wire = e.wire /\ f.hand = e.hand /\ f.up = e.up
         /\ f.streams = e.streams /\ f.sid = k
  BY DEF SessionSet

\* Steps that leave the frames alone, and do not lead the user to where it uses
\* a stream, nor to its FIN.
LEMMA QuietKeeps ==
  ASSUME NEW i, NEW x, NEW y, NEW e, NEW f, NEW w, NEW v,
         StreamInv(i, x, e, w), SameStream(x, y), f.wire = e.wire, f.up = e.up,
         \A t \in {"PSH", "FIN"} : InHand(t, i, f) = InHand(t, i, e),
         InHand("PSH", i, e) => f.hand.n = e.hand.n,
         x.by = "none" /\ i \in e.streams => i \in f.streams,
         v \in {"synack", "addr", "use"} =>
           w \in {"synack", "addr", "use"} /\ f.sid = e.sid,
         v = "fin" => w = "fin" /\ f.sid = e.sid
  PROVE  StreamInv(i, y, f, v)
<1>1. SameFrames(i, x, y, e, f)
  BY DEF SameFrames, SameStream
<1>2. /\ x.by = "none" /\ x.heard = "addr" => i \in e.streams
      /\ x.by = "none" /\ i = e.sid /\ w \in {"synack", "addr", "use"} =>
           i \in e.streams \/ x.heard = "fin"
      /\ i = e.sid /\ w = "fin" => x.by # "none"
  BY Zenon DEF StreamInv, Followed
<1> QED BY <1>1, <1>2, SameFramesKeep, Zenon DEF SameStream

\* A step on one stream.
LEMMA OneStream ==
  ASSUME SessionInv, ss' \in SessionSet, NEW j, NEW y, st' = [st EXCEPT ![j] = y],
         j \in Sids => y \in StreamSet /\ StreamInv(j, y, ss', user'),
         \A i \in Sids : i # j => StreamInv(i, st[i], ss', user')
  PROVE  SessionInv'
<1>1. st \in [Sids -> StreamSet]
  BY DEF SessionInv, SessionTypeOK
<1>2. st' \in [Sids -> StreamSet]
  BY <1>1, Zenon
<1>3. \A i \in Sids : st'[i] = IF i = j THEN y ELSE st[i]
  BY <1>1
<1>4. \A i \in Sids : StreamInv(i, st'[i], ss', user')
  BY <1>3
<1> QED BY <1>2, <1>4 DEF SessionInv, SessionTypeOK, Sids

\* A step that leaves the streams alone.
LEMMA NoStream ==
  ASSUME SessionInv, ss' \in SessionSet, st' = st,
         \A i \in Sids : StreamInv(i, st[i], ss', user')
  PROVE  SessionInv'
  BY DEF SessionInv, SessionTypeOK, Sids

\* A stream a step leaves alone.
LEMMA SameStreamItself == \A x : SameStream(x, x)
  BY DEF SameStream

\* NewClientSession.
LEMMA InitSessionInv == SessionInit => SessionInv
<1> SUFFICES ASSUME SessionInit PROVE SessionInv
  OBVIOUS
<1>1. PICK v \in {1, 2} : ss = NewSession(v)
  BY DEF SessionInit
<1>2. ss \in SessionSet /\ ss.wire = <<>> /\ ss.hand = NoFrame
  BY <1>1 DEF NewSession, SessionSet
<1>3. NewStream \in StreamSet
  BY DEF NewStream, StreamSet
<1>4. st = [i \in Sids |-> NewStream] /\ user = "out"
  BY DEF SessionInit
<1>5. \A i, t : OnWire(t, i, ss) = {}
  BY <1>2 DEF OnWire
<1>6. \A i : ~InHand("PSH", i, ss) /\ ~InHand("FIN", i, ss)
  BY <1>2 DEF InHand, NoFrame, Frame
<1>7. /\ NewStream.by = "none" /\ NewStream.read = <<>> /\ NewStream.q = <<>>
      /\ NewStream.moving = 0 /\ NewStream.sent = 0 /\ NewStream.heard = "no"
      /\ NewStream.pipe = "open" /\ NewStream.end = "none"
  BY DEF NewStream
<1>8. Queued(NewStream) = 0 /\ \A i : Arrived(i, NewStream, ss) = 0
  BY <1>6, <1>7 DEF Queued, Handed, Arrived
<1>9. ASSUME NEW i PROVE StreamInv(i, NewStream, ss, user)
  <2>1. Numbered(NewStream)
    BY <1>7 DEF Numbered
  <2>2. Continued(i, NewStream, ss)
    BY <1>5, <1>6, <1>7, <1>8, SMTT(30) DEF Continued
  <2>3. Followed(i, NewStream, ss, user)
    BY <1>4, <1>5, <1>6, <1>7 DEF Followed
  <2>4. Ended(i, NewStream, ss)
    BY <1>7 DEF Ended
  <2> QED BY <2>1, <2>2, <2>3, <2>4 DEF StreamInv
<1> QED BY <1>2, <1>3, <1>4, <1>9 DEF SessionInv, SessionTypeOK

\* OpenStream up to the buffer's flush.
LEMMA OpenSynKeeps ==
  ASSUME SessionInv, OpenSyn PROVE SessionInv'
<1>0. ss \in SessionSet /\ st \in [Sids -> StreamSet] /\ sid + 1 \in Nat
  BY DEF SessionInv, SessionTypeOK, SessionSet, sid
<1>1. \A i \in Sids : StreamInv(i, st[i], ss, user)
  BY DEF SessionInv
<1>2. CASE ss' = CloseSession(ss) /\ user' = "out" /\ st' = st
  <2>1. Quiet(ss, ss')
    BY <1>0, <1>2, QuietFacts, Zenon
  <2>2. ASSUME NEW i \in Sids PROVE StreamInv(i, st[i], ss', user')
    BY <1>1, <1>2, <2>1, SameStreamItself, QuietKeeps, SMTT(30) DEF Quiet, InHand
  <2> QED BY <1>2, <2>1, <2>2, NoStream DEF Quiet
<1>3. CASE /\ st' = [st EXCEPT ![sid + 1] = closePipe(@)]
           /\ ss' = CloseSession([ss EXCEPT !.sid = sid + 1]) /\ user' = "out"
  <2> DEFINE e == [ss EXCEPT !.sid = sid + 1]
             y == closePipe(st[sid + 1])
  <2>1. /\ e \in SessionSet /\ e.wire = ss.wire /\ e.hand = ss.hand /\ e.up = ss.up
        /\ e.streams = ss.streams
    BY <1>0, SetSid
  <2> HIDE DEF e
  <2>2. Quiet(e, ss')
    BY <1>3, <2>1, QuietFacts, Zenon DEF e
  <2>3. /\ ss' \in SessionSet /\ ss'.wire = ss.wire /\ ss'.hand = ss.hand /\ ss'.up = ss.up
        /\ ss'.streams = ss.streams
    BY <2>1, <2>2 DEF Quiet
  <2>4. ASSUME NEW i \in Sids PROVE StreamInv(i, st[i], ss', user')
    BY <1>1, <1>3, <2>3, SameStreamItself, QuietKeeps DEF InHand
  <2>5. ASSUME sid + 1 \in Sids PROVE y \in StreamSet /\ StreamInv(sid + 1, y, ss', user')
    <3>1. st[sid + 1] \in StreamSet /\ StreamInv(sid + 1, st[sid + 1], ss, user)
      BY <1>0, <1>1, <2>5
    <3>2. /\ y \in StreamSet /\ y.by = IF st[sid + 1].by = "none" THEN "open" ELSE st[sid + 1].by
          /\ y.pipe = st[sid + 1].pipe /\ y.q = st[sid + 1].q /\ y.moving = st[sid + 1].moving
          /\ y.read = st[sid + 1].read /\ y.end = st[sid + 1].end /\ y.sent = st[sid + 1].sent
          /\ y.heard = st[sid + 1].heard
      BY <3>1, DieOnceFacts, Zenon DEF closePipe
    <3> HIDE DEF y
    <3>3. /\ InHand("FIN", sid + 1, ss') => InHand("FIN", sid + 1, ss)
          /\ InHand("PSH", sid + 1, ss') => InHand("PSH", sid + 1, ss)
      BY <2>3 DEF InHand
    <3>4. /\ y.pipe = IF st[sid + 1].pipe = "open" THEN "open" ELSE st[sid + 1].pipe
          /\ st[sid + 1].heard = "fin" => y.heard = "fin"
      BY <3>2
    <3> QED BY <2>3, <3>1, <3>2, <3>3, <3>4, CloseKeeps, Zenon
  <2>6. st' = [st EXCEPT ![sid + 1] = y]
    BY <1>3
  <2> HIDE DEF y
  <2> QED BY <2>3, <2>4, <2>5, <2>6, OneStream, Zenon
<1>4. CASE /\ st' = [st EXCEPT ![sid + 1] = Hears(@, "syn")]
           /\ ss' = flushBuffering([Flushed(ss) EXCEPT !.sid = sid + 1])
           /\ user' = "register"
  <2> DEFINE e == [Flushed(ss) EXCEPT !.sid = sid + 1]
             y == Hears(st[sid + 1], "syn")
  <2>1. /\ e \in SessionSet /\ e.wire = ss.wire /\ e.hand = ss.hand /\ e.up = ss.up
        /\ e.streams = ss.streams
    <3> DEFINE h == Flushed(ss)
    <3>1. Quiet(ss, h)
      BY <1>0, QuietFacts, Zenon
    <3> HIDE DEF h
    <3>2. /\ [h EXCEPT !.sid = sid + 1] \in SessionSet
          /\ [h EXCEPT !.sid = sid + 1].wire = h.wire /\ [h EXCEPT !.sid = sid + 1].hand = h.hand
          /\ [h EXCEPT !.sid = sid + 1].up = h.up
          /\ [h EXCEPT !.sid = sid + 1].streams = h.streams
      BY <1>0, <3>1, SetSid DEF Quiet
    <3> QED BY <3>1, <3>2 DEF Quiet, h
  <2> HIDE DEF e
  <2>2. Quiet(e, ss')
    BY <1>4, <2>1, QuietFacts, Zenon DEF e
  <2>3. /\ ss' \in SessionSet /\ ss'.wire = ss.wire /\ ss'.hand = ss.hand /\ ss'.up = ss.up
        /\ ss'.streams = ss.streams
    BY <2>1, <2>2 DEF Quiet
  <2>4. ASSUME NEW i \in Sids PROVE StreamInv(i, st[i], ss', user')
    BY <1>1, <1>4, <2>3, SameStreamItself, QuietKeeps DEF InHand
  <2>5. ASSUME sid + 1 \in Sids PROVE y \in StreamSet /\ StreamInv(sid + 1, y, ss', user')
    <3>1. st[sid + 1] \in StreamSet /\ StreamInv(sid + 1, st[sid + 1], ss, user)
      BY <1>0, <1>1, <2>5
    <3>2. y \in StreamSet /\ SameStream(st[sid + 1], y)
      BY <3>1, HearsFacts, Zenon DEF SameStream
    <3> HIDE DEF y
    <3> QED BY <1>4, <2>3, <3>1, <3>2, QuietKeeps DEF InHand
  <2>6. st' = [st EXCEPT ![sid + 1] = y]
    BY <1>4
  <2> HIDE DEF y
  <2> QED BY <2>3, <2>4, <2>5, <2>6, OneStream, Zenon
<1> QED BY <1>2, <1>3, <1>4 DEF OpenSyn, OpenFails

\* The registration, and what OpenStream does with the answer to its SYN.
LEMMA RegisterKeeps ==
  ASSUME SessionInv, Register \/ SynAccepted \/ SynRefused \/ SynDied PROVE SessionInv'
<1>0. ss \in SessionSet /\ st \in [Sids -> StreamSet] /\ sid = ss.sid /\ sid \in Nat
  BY DEF SessionInv, SessionTypeOK, SessionSet, sid
<1>1. \A i \in Sids : StreamInv(i, st[i], ss, user)
  BY DEF SessionInv
<1>2. CASE /\ ss' = [ss EXCEPT !.streams = @ \cup {sid}] /\ st' = st
           /\ user' \in {"synack", "addr"}
  <2>1. /\ ss' \in SessionSet /\ ss'.wire = ss.wire /\ ss'.hand = ss.hand /\ ss'.up = ss.up
        /\ ss'.streams = ss.streams \cup {sid} /\ ss'.sid = ss.sid
    <3>1. ss.streams \cup {sid} \in SUBSET Nat
      BY <1>0 DEF SessionSet
    <3> QED BY <1>0, <1>2, <3>1, SetStreams
  <2>2. ASSUME NEW i \in Sids PROVE StreamInv(i, st[i], ss', user')
    <3>1. SameFrames(i, st[i], st[i], ss, ss')
      BY <2>1 DEF SameFrames, InHand
    <3>2. st[i].by = "none" /\ st[i].heard = "addr" => i \in ss.streams
      BY <1>1, Zenon DEF StreamInv, Followed
    <3>3. st[i].by = "none" =>
            /\ i \in ss.streams => i \in ss'.streams
            /\ st[i].heard = "addr" => i \in ss'.streams
            /\ i = ss'.sid /\ user' \in {"synack", "addr", "use"} =>
                 i \in ss'.streams \/ st[i].heard = "fin"
            /\ ~(i = ss'.sid /\ user' = "fin")
      BY <1>0, <1>2, <2>1, <3>2
    <3> HIDE <1>2
    <3> QED BY <1>1, <3>1, <3>3, SameFramesKeep, Zenon
  <2> QED BY <1>2, <2>1, <2>2, NoStream
<1>3. CASE /\ st' = [st EXCEPT ![sid] = closePipe(@)]
           /\ ss' = CloseSession(ss) /\ user' = "out"
  <2> DEFINE x == st[sid]
             y == closePipe(x)
  <2>1. Quiet(ss, ss')
    BY <1>0, <1>3, QuietFacts, Zenon
  <2>2. ASSUME NEW i \in Sids PROVE StreamInv(i, st[i], ss', user')
    BY <1>1, <1>3, <2>1, SameStreamItself, QuietKeeps, SMTT(30) DEF Quiet, InHand
  <2>3. ASSUME sid \in Sids PROVE y \in StreamSet /\ StreamInv(sid, y, ss', user')
    <3>1. x \in StreamSet /\ StreamInv(sid, x, ss, user)
      BY <1>0, <1>1, <2>3
    <3> HIDE DEF x
    <3>2. /\ y \in StreamSet /\ y.by = IF x.by = "none" THEN "open" ELSE x.by
          /\ y.pipe = x.pipe /\ y.q = x.q /\ y.moving = x.moving
          /\ y.read = x.read /\ y.end = x.end /\ y.sent = x.sent /\ y.heard = x.heard
      BY <3>1, DieOnceFacts DEF closePipe
    <3> HIDE DEF y
    <3>3. /\ ss'.wire = ss.wire
          /\ InHand("FIN", sid, ss') => InHand("FIN", sid, ss)
          /\ InHand("PSH", sid, ss') => InHand("PSH", sid, ss)
      BY <2>1 DEF InHand, Quiet
    <3>4. y.pipe = (IF x.pipe = "open" THEN "open" ELSE x.pipe) /\ (x.heard = "fin" => y.heard = "fin")
      BY <3>2
    <3> QED BY <3>1, <3>2, <3>3, <3>4, CloseKeeps, Zenon
  <2>4. st' = [st EXCEPT ![sid] = y]
    BY <1>3
  <2> HIDE DEF y
  <2> QED BY <2>1, <2>2, <2>3, <2>4, OneStream, Zenon DEF Quiet
<1>4. CASE SynAccepted
  <2> DEFINE x == st[sid]
             y == [x EXCEPT !.syn = "none"]
  <2>1. ss' = ss /\ user = "synack" /\ user' = "addr" /\ st' = [st EXCEPT ![sid] = y]
    BY <1>4 DEF SynAccepted
  <2>2. ASSUME NEW i \in Sids PROVE StreamInv(i, st[i], ss', user')
    BY <1>1, <2>1, SameStreamItself, QuietKeeps
  <2>3. ASSUME sid \in Sids PROVE y \in StreamSet /\ StreamInv(sid, y, ss', user')
    <3>1. x \in StreamSet /\ StreamInv(sid, x, ss, user)
      BY <1>0, <1>1, <2>3
    <3> HIDE DEF x
    <3>2. y \in StreamSet /\ SameStream(x, y)
      BY <3>1, Zenon DEF SameStream, StreamSet
    <3> HIDE DEF y
    <3> QED BY <2>1, <3>1, <3>2, QuietKeeps
  <2> HIDE DEF y
  <2> QED BY <1>0, <2>1, <2>2, <2>3, OneStream, Zenon
<1>5. CASE SynRefused
  <2> DEFINE x == st[sid]
             y == forceClose(x)
             e == [ss EXCEPT !.streams = @ \ {sid}]
  <2>1. st' = [st EXCEPT ![sid] = y] /\ ss' = CloseSession(e) /\ user' = "out"
    BY <1>5 DEF SynRefused, OpenFails
  <2>2. /\ e \in SessionSet /\ e.wire = ss.wire /\ e.hand = ss.hand /\ e.up = ss.up
        /\ e.streams = ss.streams \ {sid}
    <3>1. ss.streams \ {sid} \in SUBSET Nat
      BY <1>0 DEF SessionSet
    <3> QED BY <1>0, <3>1, SetStreams
  <2> HIDE DEF e
  <2>3. /\ ss' \in SessionSet /\ ss'.wire = ss.wire /\ ss'.hand = ss.hand /\ ss'.up = ss.up
        /\ ss'.streams = ss.streams \ {sid}
    BY <2>1, <2>2, QuietFacts, Zenon DEF Quiet
  <2>4. ASSUME NEW i \in Sids, i # sid PROVE StreamInv(i, st[i], ss', user')
    BY <1>1, <2>1, <2>3, <2>4, SameStreamItself, QuietKeeps, SMTT(30) DEF InHand
  <2>5. ASSUME sid \in Sids PROVE y \in StreamSet /\ StreamInv(sid, y, ss', user')
    <3>1. x \in StreamSet /\ StreamInv(sid, x, ss, user)
      BY <1>0, <1>1, <2>5
    <3> HIDE DEF x
    <3>2. /\ y \in StreamSet /\ y.by = IF x.by = "none" THEN "force" ELSE x.by
          /\ y.pipe = IF x.pipe = "open" THEN "error" ELSE x.pipe
          /\ y.q = x.q /\ y.moving = x.moving /\ y.heard = x.heard
          /\ y.read = x.read /\ y.end = x.end /\ y.sent = x.sent
      BY <3>1, ForceFacts
    <3> HIDE DEF y
    <3>3. /\ InHand("FIN", sid, ss') => InHand("FIN", sid, ss)
          /\ InHand("PSH", sid, ss') => InHand("PSH", sid, ss)
          /\ x.heard = "fin" => y.heard = "fin"
      BY <2>3, <3>2 DEF InHand
    <3> QED BY <2>3, <3>1, <3>2, <3>3, CloseKeeps, Zenon
  <2> HIDE DEF y
  <2> QED BY <2>1, <2>3, <2>4, <2>5, OneStream, Zenon
<1>6. CASE SynDied
  <2>1. ss' = ss /\ st' = st /\ user' = "out"
    BY <1>6 DEF SynDied
  <2>2. ASSUME NEW i \in Sids PROVE StreamInv(i, st[i], ss', user')
    BY <1>1, <2>1, SameStreamItself, QuietKeeps
  <2> QED BY <1>0, <2>1, <2>2, NoStream
<1> QED BY <1>2, <1>3, <1>4, <1>5, <1>6 DEF Register, OpenFails

\* A write, of the target address or later.
LEMMA WriteKeeps ==
  ASSUME SessionInv, Write PROVE SessionInv'
<1>0. ss \in SessionSet /\ st \in [Sids -> StreamSet] /\ sid = ss.sid
  BY DEF SessionInv, SessionTypeOK, sid
<1>1. \A i \in Sids : StreamInv(i, st[i], ss, user)
  BY DEF SessionInv
<1>2. user \in {"addr", "use"} /\ user' \in {"use", "bad"}
  BY DEF Write
<1>3. CASE ss' = ss /\ st' = st
  <2>1. ASSUME NEW i \in Sids PROVE StreamInv(i, st[i], ss', user')
    BY <1>1, <1>2, <1>3, SameStreamItself, QuietKeeps, Zenon
  <2> QED BY <1>0, <1>3, <2>1, NoStream
<1>4. CASE ss' = Flushed(ss) /\ st' = [st EXCEPT ![sid] = Hears(@, "addr")]
  <2> DEFINE x == st[sid]
             y == Hears(x, "addr")
  <2>1. Quiet(ss, ss') /\ st' = [st EXCEPT ![sid] = y]
    BY <1>0, <1>4, QuietFacts, Zenon
  <2>2. ASSUME NEW i \in Sids PROVE StreamInv(i, st[i], ss', user')
    BY <1>1, <1>2, <2>1, SameStreamItself, QuietKeeps, SMTT(30) DEF Quiet, InHand
  <2>3. ASSUME sid \in Sids PROVE y \in StreamSet /\ StreamInv(sid, y, ss', user')
    <3>1. x \in StreamSet /\ StreamInv(sid, x, ss, user)
      BY <1>0, <1>1, <2>3
    <3> HIDE DEF x
    <3>2. /\ y \in StreamSet
          /\ y.by = x.by /\ y.q = x.q /\ y.moving = x.moving /\ y.pipe = x.pipe
          /\ y.read = x.read /\ y.end = x.end /\ y.sent = x.sent
          /\ x.heard = "fin" => y.heard = "fin"
      BY <3>1, HearsFacts
    <3> HIDE DEF y
    <3>3. SameFrames(sid, x, y, ss, ss')
      BY <2>1, <3>2 DEF SameFrames, InHand, Quiet
    <3>4. x.by = "none" => sid \in ss.streams \/ x.heard = "fin"
      BY <1>0, <1>2, <3>1, Zenon DEF StreamInv, Followed
    <3>5. x.by = "none" =>
            /\ sid \in ss.streams => sid \in ss'.streams
            /\ y.heard = "addr" => sid \in ss'.streams
            /\ sid = ss'.sid /\ user' \in {"synack", "addr", "use"} =>
                 sid \in ss'.streams \/ y.heard = "fin"
            /\ ~(sid = ss'.sid /\ user' = "fin")
      BY <1>2, <2>1, <3>2, <3>4, Zenon DEF Quiet
    <3> QED BY <3>1, <3>2, <3>3, <3>5, SameFramesKeep, Zenon
  <2> HIDE DEF y
  <2> QED BY <2>1, <2>2, <2>3, OneStream, Zenon DEF Quiet
<1> QED BY <1>3, <1>4 DEF Write

\* What the user does with its stream's pipe.
LEMMA ReadsKeep ==
  ASSUME SessionInv, Read \/ ReadEnds \/ ReadDeadline PROVE SessionInv'
<1>0. ss \in SessionSet /\ st \in [Sids -> StreamSet]
  BY DEF SessionInv, SessionTypeOK
<1>1. \A i \in Sids : StreamInv(i, st[i], ss, user)
  BY DEF SessionInv
<1> DEFINE x == st[sid]
<1>2. ss' = ss /\ user' = user
  BY DEF Read, ReadEnds, ReadDeadline
<1>3. CASE Read
  <2> DEFINE y == [x EXCEPT !.moving = 0, !.read = Append(@, x.moving)]
  <2>1. st' = [st EXCEPT ![sid] = y] /\ x.pipe = "open" /\ x.moving > 0
    BY <1>3, Zenon DEF Read
  <2>2. ASSUME sid \in Sids PROVE y \in StreamSet /\ StreamInv(sid, y, ss, user)
    <3>1. x \in StreamSet /\ StreamInv(sid, x, ss, user)
      BY <1>0, <1>1, <2>2
    <3> HIDE DEF x
    <3>2. Append(x.read, x.moving) \in Seq(Nat)
      BY <3>1 DEF StreamSet
    <3>3. y \in StreamSet
      BY <3>1, <3>2, Zenon DEF StreamSet
    <3> QED BY <2>1, <3>1, <3>3, ReadKeeps, Zenon
  <2> HIDE DEF y
  <2> QED BY <1>0, <1>1, <1>2, <2>1, <2>2, OneStream, Zenon
<1>4. CASE ReadEnds
  <2> DEFINE y == [x EXCEPT !.end = x.pipe]
  <2>1. st' = [st EXCEPT ![sid] = y] /\ x.pipe # "open"
    BY <1>4 DEF ReadEnds
  <2>2. ASSUME sid \in Sids PROVE y \in StreamSet /\ StreamInv(sid, y, ss, user)
    <3>1. x \in StreamSet /\ StreamInv(sid, x, ss, user)
      BY <1>0, <1>1, <2>2
    <3> HIDE DEF x
    <3>2. y \in StreamSet
      BY <2>1, <3>1, Zenon DEF StreamSet
    <3> QED BY <2>1, <3>1, <3>2, ReadEndKeeps
  <2> HIDE DEF y
  <2> QED BY <1>0, <1>1, <1>2, <2>1, <2>2, OneStream, Zenon
<1>5. CASE ReadDeadline
  <2> DEFINE y == ClosePipe(x, "error")
  <2>1. st' = [st EXCEPT ![sid] = y] /\ x.pipe = "open"
    BY <1>5 DEF ReadDeadline
  <2>2. ASSUME sid \in Sids PROVE y \in StreamSet /\ StreamInv(sid, y, ss, user)
    <3>1. x \in StreamSet /\ StreamInv(sid, x, ss, user)
      BY <1>0, <1>1, <2>2
    <3> HIDE DEF x
    <3>2. y \in StreamSet
      BY <3>1, ClosePipeFacts
    <3> QED BY <2>1, <3>1, <3>2, ReadEndKeeps
  <2> HIDE DEF y
  <2> QED BY <1>0, <1>1, <1>2, <2>1, <2>2, OneStream, Zenon
<1> QED BY <1>3, <1>4, <1>5

\* CloseRemote, and the FIN it sends.
LEMMA UserClosesKeep ==
  ASSUME SessionInv, CloseRemote \/ streamClosed PROVE SessionInv'
<1>0. ss \in SessionSet /\ st \in [Sids -> StreamSet] /\ sid = ss.sid
  BY DEF SessionInv, SessionTypeOK, sid
<1>1. \A i \in Sids : StreamInv(i, st[i], ss, user)
  BY DEF SessionInv
<1> DEFINE x == st[sid]
<1>2. CASE CloseRemote
  <2> DEFINE y == [NewStream EXCEPT !.by = "user", !.pipe = "eof",
                     !.writer = x.writer, !.heard = x.heard, !.acked = x.acked]
  <2>1. st' = [st EXCEPT ![sid] = y] /\ ss' = ss /\ user' \in {"fin", "out"}
    BY <1>2 DEF CloseRemote
  <2>2. ASSUME sid \in Sids PROVE y \in StreamSet /\ StreamInv(sid, y, ss, user')
    <3>1. x \in StreamSet /\ StreamInv(sid, x, ss, user)
      BY <1>0, <1>1, <2>2
    <3> HIDE DEF x
    <3>2. NewStream \in StreamSet
      BY SMTT(30) DEF StreamSet, NewStream
    <3>3. y \in StreamSet
      BY <3>1, <3>2, ZenonT(40) DEF StreamSet
    <3> QED BY <3>1, <3>3, CloseRemoteKeeps, Zenon
  <2>3. ASSUME NEW i \in Sids, i # sid PROVE StreamInv(i, st[i], ss, user')
    <3>1. SameFrames(i, st[i], st[i], ss, ss)
      BY DEF SameFrames
    <3>2. st[i].by = "none" =>
            /\ i \in ss.streams => i \in ss.streams
            /\ st[i].heard = "addr" => i \in ss.streams
            /\ i = ss.sid /\ user' \in {"synack", "addr", "use"} =>
                 i \in ss.streams \/ st[i].heard = "fin"
            /\ ~(i = ss.sid /\ user' = "fin")
      BY <1>0, <1>1, <2>1, <2>3 DEF StreamInv, Followed
    <3> QED BY <1>1, <3>1, <3>2, SameFramesKeep, Zenon
  <2> HIDE DEF y
  <2> QED BY <1>0, <2>1, <2>2, <2>3, OneStream, Zenon
<1>3. CASE streamClosed
  <2>1. CASE ss.die
    <3>1. ss' = ss /\ st' = st /\ user' = "out"
      BY <1>3, <2>1 DEF streamClosed
    <3>2. ASSUME NEW i \in Sids PROVE StreamInv(i, st[i], ss', user')
      BY <1>1, <3>1, SameStreamItself, QuietKeeps, Zenon
    <3> QED BY <1>0, <3>1, <3>2, NoStream
  <2>2. CASE ~ss.die
    <3> DEFINE y == Hears(x, "fin")
               e == Control(ss)
    <3>1. /\ st' = [st EXCEPT ![sid] = y] /\ ss' = [e EXCEPT !.streams = @ \ {sid}]
          /\ user = "fin" /\ user' = "out"
      BY <1>3, <2>2 DEF streamClosed
    <3>2. Quiet(ss, e)
      BY <1>0, QuietFacts, Zenon
    <3> HIDE DEF e
    <3>3. /\ ss' \in SessionSet /\ ss'.wire = ss.wire /\ ss'.hand = ss.hand /\ ss'.up = ss.up
          /\ ss'.streams = ss.streams \ {sid} /\ ss'.sid = ss.sid
      <4>1. e.streams \ {sid} \in SUBSET Nat
        BY <3>2 DEF Quiet, SessionSet
      <4>2. e \in SessionSet
        BY <3>2 DEF Quiet
      <4>3. /\ ss' \in SessionSet /\ ss'.wire = e.wire /\ ss'.hand = e.hand /\ ss'.up = e.up
            /\ ss'.streams = e.streams \ {sid} /\ ss'.sid = e.sid
        BY <3>1, <4>1, <4>2, SetStreams, Zenon
      <4> QED BY <3>2, <4>3 DEF Quiet
    <3> HIDE <1>3
    <3>4. user' = "out"
      BY <3>1
    <3>5. \A t, i : InHand(t, i, ss') = InHand(t, i, ss)
      BY <3>3 DEF InHand
    <3>6. ASSUME NEW i \in Sids, i # sid PROVE StreamInv(i, st[i], ss', user')
      <4>1. i \in ss.streams => i \in ss'.streams
        BY <3>3, <3>6
      <4> QED BY <1>1, <3>3, <3>4, <3>5, <4>1, SameStreamItself, QuietKeeps, Zenon
    <3>7. ASSUME sid \in Sids PROVE y \in StreamSet /\ StreamInv(sid, y, ss', user')
      <4>1. x \in StreamSet /\ StreamInv(sid, x, ss, user)
        BY <1>0, <1>1, <3>7
      <4>2. x.by # "none"
        BY <1>0, <3>1, <4>1 DEF StreamInv, Followed
      <4> HIDE DEF x
      <4>3. y \in StreamSet /\ SameStream(x, y)
        BY <4>1, HearsFacts DEF SameStream
      <4> HIDE DEF y
      <4> QED BY <3>3, <3>4, <3>5, <4>1, <4>2, <4>3, QuietKeeps, Zenon
    <3> HIDE DEF y
    <3> QED BY <3>1, <3>3, <3>6, <3>7, OneStream, Zenon
  <2> QED BY <2>1, <2>2
<1> QED BY <1>2, <1>3

\* recvLoop takes a frame off the wire.
LEMMA RecvFrameKeeps ==
  ASSUME SessionInv, RecvFrame PROVE SessionInv'
<1>0. ss \in SessionSet /\ st \in [Sids -> StreamSet]
  BY DEF SessionInv, SessionTypeOK
<1>1. \A i \in Sids : StreamInv(i, st[i], ss, user)
  BY DEF SessionInv
<1> DEFINE g == Head(ss.wire)
           e == [ss EXCEPT !.wire = Tail(@)]
           h == IF g.sid \in e.streams THEN g ELSE NoFrame
           found == [e EXCEPT !.hand = h]
<1>2. ss.hand = NoFrame /\ ss.wire # <<>> /\ user' = user
  BY DEF RecvFrame
<1>3. g \in FrameSet /\ Tail(ss.wire) \in Seq(FrameSet)
  <2>1. ss.wire \in Seq(FrameSet)
    BY <1>0 DEF SessionSet
  <2> QED BY <1>2, <2>1
<1>4. /\ e \in SessionSet /\ e.wire = Tail(ss.wire) /\ e.hand = NoFrame /\ e.up = ss.up
      /\ e.streams = ss.streams /\ e.sid = ss.sid
  BY <1>0, <1>2, <1>3, SetWire, Zenon
<1>5. ss' = CASE g.t \in {"PSH", "SYNACK"} -> found
              [] g.t = "FIN"      -> [found EXCEPT !.streams = @ \ {g.sid}]
              [] g.t = "SETTINGS" -> [e EXCEPT !.ver = g.n]
              [] g.t = "HEART"    -> Control(e)
              [] g.t = "ALERT"    -> [CloseSession(e) EXCEPT !.loop = FALSE]
  BY Zenon DEF RecvFrame
<1>6. \/ st' = st
      \/ st' = [st EXCEPT ![1] = Hears(@, "syn")]
  BY Zenon DEF RecvFrame
<1>7. /\ st' \in [Sids -> StreamSet]
      /\ \A i \in Sids : SameStream(st[i], st'[i])
  <2>1. CASE st' = st
    BY <1>0, <2>1, SameStreamItself
  <2>2. CASE st' = [st EXCEPT ![1] = Hears(@, "syn")]
    <3>1. ASSUME NEW i \in Sids
          PROVE  Hears(st[i], "syn") \in StreamSet /\ SameStream(st[i], Hears(st[i], "syn"))
      BY <1>0, HearsFacts, Zenon DEF SameStream
    <3>2. \A i \in Sids : st'[i] = IF i = 1 THEN Hears(st[i], "syn") ELSE st[i]
      BY <1>0, <2>2
    <3>3. st' \in [Sids -> StreamSet]
      BY <1>0, <2>2, <3>1, Zenon
    <3> QED BY <3>1, <3>2, <3>3, SameStreamItself
  <2> QED BY <1>6, <2>1, <2>2
<1> HIDE DEF e, g
<1>8. h \in FrameSet \cup {NoFrame}
  BY <1>3
<1>9. /\ found \in SessionSet /\ found.wire = e.wire /\ found.hand = h /\ found.up = e.up
      /\ found.streams = e.streams /\ found.sid = e.sid
  BY <1>4, <1>8, SetHand
<1> HIDE DEF found
<1>10. /\ ss' \in SessionSet /\ ss'.wire = Tail(ss.wire) /\ ss'.up = ss.up /\ ss'.sid = ss.sid
       /\ ss'.hand = IF g.t \in {"PSH", "SYNACK", "FIN"} /\ g.sid \in ss.streams THEN g ELSE NoFrame
       /\ ss'.streams = IF g.t = "FIN" THEN ss.streams \ {g.sid} ELSE ss.streams
  <2>1. CASE g.t \in {"PSH", "SYNACK"}
    <3>1. ss' = found
      BY <1>5, <2>1
    <3> QED BY <1>4, <1>9, <2>1, <3>1, Zenon
  <2>2. CASE g.t = "FIN"
    <3>1. ss' = [found EXCEPT !.streams = found.streams \ {g.sid}]
      BY <1>5, <2>2
    <3>2. found.streams \ {g.sid} \in SUBSET Nat
      BY <1>9 DEF SessionSet
    <3>3. /\ ss' \in SessionSet /\ ss'.wire = found.wire /\ ss'.hand = h /\ ss'.up = found.up
          /\ ss'.streams = found.streams \ {g.sid} /\ ss'.sid = found.sid
      BY <1>9, <3>1, <3>2, SetStreams, Zenon
    <3> QED BY <1>4, <1>9, <2>2, <3>3
  <2>3. CASE g.t \in {"SETTINGS", "HEART", "ALERT"}
    <3>1. Quiet(e, ss')
      <4>1. CASE g.t = "SETTINGS"
        <5>1. ss' = [e EXCEPT !.ver = g.n] /\ g.n \in Nat
          BY <1>3, <1>5, <4>1 DEF FrameSet
        <5> QED BY <1>4, <5>1, QuietFacts, Zenon
      <4>2. CASE g.t = "HEART"
        <5>1. ss' = Control(e)
          BY <1>5, <4>2
        <5> QED BY <1>4, <5>1, QuietFacts, Zenon
      <4>3. CASE g.t = "ALERT"
        <5> DEFINE c == CloseSession(e)
        <5>1. ss' = [c EXCEPT !.loop = FALSE]
          BY <1>5, <4>3
        <5>2. Quiet(e, c)
          BY <1>4, QuietFacts, Zenon
        <5> HIDE DEF c
        <5>3. Quiet(c, ss')
          BY <5>1, <5>2, QuietFacts DEF Quiet
        <5> QED BY <5>2, <5>3 DEF Quiet
      <4> QED BY <2>3, <4>1, <4>2, <4>3
    <3> QED BY <1>4, <2>3, <3>1 DEF Quiet
  <2> QED BY <1>3, <2>1, <2>2, <2>3, Zenon DEF FrameSet
<1>11. ASSUME NEW i \in Sids PROVE StreamInv(i, st'[i], ss', user')
  <2>1. st[i] \in StreamSet /\ SameStream(st[i], st'[i]) /\ StreamInv(i, st[i], ss, user)
    BY <1>0, <1>1, <1>7
  <2>2. g = Head(ss.wire)
    BY DEF g
  <2> QED BY <1>0, <1>2, <1>10, <2>1, <2>2, RecvKeeps, Zenon
<1> QED BY <1>7, <1>10, <1>11, Zenon DEF SessionInv, SessionTypeOK, Sids

\* recvLoop acts on the frame it holds, or ends.
LEMMA HandlersKeep ==
  ASSUME SessionInv, HandleData \/ HandleFin \/ HandleSynack \/ RecvEnds PROVE SessionInv'
<1>0. ss \in SessionSet /\ st \in [Sids -> StreamSet]
  BY DEF SessionInv, SessionTypeOK
<1>1. \A i \in Sids : StreamInv(i, st[i], ss, user)
  BY DEF SessionInv
<1> DEFINE j == ss.hand.sid
           x == st[j]
           e == [ss EXCEPT !.hand = NoFrame]
<1>2. /\ e \in SessionSet /\ e.wire = ss.wire /\ e.hand = NoFrame /\ e.up = ss.up
      /\ e.streams = ss.streams /\ e.sid = ss.sid
  BY <1>0, SetHand
<1>3. j \in Sids => x \in StreamSet /\ StreamInv(j, x, ss, user)
  BY <1>0, <1>1
<1>4. \A i, t : t \in {"PSH", "FIN"} => ~InHand(t, i, e)
  BY <1>2 DEF InHand, NoFrame, Frame
<1>5. \A i, t : i # j => ~InHand(t, i, ss)
  BY DEF InHand
<1> HIDE DEF j, x, e
<1>6. ASSUME NEW i \in Sids, i # j, user' = user, NEW f, f.wire = ss.wire, f.hand = NoFrame,
             f.up = ss.up, f.sid = ss.sid, i \in ss.streams => i \in f.streams
      PROVE  StreamInv(i, st[i], f, user')
  <2>1. \A t \in {"PSH", "FIN"} : InHand(t, i, f) = InHand(t, i, ss)
    BY <1>5, <1>6 DEF InHand, NoFrame, Frame
  <2>2. ~InHand("PSH", i, ss)
    BY <1>5, <1>6
  <2> QED BY <1>1, <1>6, <2>1, <2>2, SameStreamItself, QuietKeeps, Zenon
<1>7. CASE HandleData /\ enqueue(st[ss.hand.sid])
  <2> DEFINE y == [x EXCEPT !.q = Append(@, ss.hand.n)]
  <2>1. /\ st' = [st EXCEPT ![j] = y] /\ ss' = e /\ ss.hand.t = "PSH" /\ user' = user
        /\ enqueue(x)
    BY <1>7 DEF HandleData, j, x, e
  <2>2. x.by = "none" /\ InHand("PSH", j, ss)
    BY <2>1 DEF enqueue, Closed, InHand, j
  <2>3. ASSUME j \in Sids PROVE y \in StreamSet /\ StreamInv(j, y, ss', user')
    <3>1. Append(x.q, ss.hand.n) \in Seq(Nat)
      <4>1. ss.hand.n \in Nat
        BY <1>0 DEF SessionSet, FrameSet, NoFrame, Frame
      <4> QED BY <1>3, <2>3, <4>1 DEF StreamSet
    <3>2. y \in StreamSet
      BY <1>3, <2>3, <3>1, Zenon DEF StreamSet
    <3>3. LetGo(ss, ss') /\ ss'.streams = ss.streams /\ ss'.sid = ss.sid
      BY <1>2, <2>1 DEF LetGo
    <3> QED BY <1>0, <1>3, <2>1, <2>2, <2>3, <3>2, <3>3, EnqueueKeeps
  <2> HIDE DEF y
  <2> QED BY <1>2, <1>6, <2>1, <2>3, OneStream, Zenon
<1>8. CASE HandleData /\ ~enqueue(st[ss.hand.sid])
  <2> DEFINE z == overflowClose(x)
             y == Hears(z, "fin")
             c == [e EXCEPT !.streams = @ \ {j}]
  <2>1. /\ st' = [st EXCEPT ![j] = y] /\ ss' = Control(c) /\ user' = user
        /\ ss.hand.t = "PSH"
    BY <1>8, Zenon DEF HandleData, j, x, e
  <2>2. /\ c \in SessionSet /\ c.wire = e.wire /\ c.hand = e.hand /\ c.up = e.up
        /\ c.streams = e.streams \ {j} /\ c.sid = e.sid
    <3>1. e.streams \ {j} \in SUBSET Nat
      BY <1>2 DEF SessionSet
    <3> QED BY <1>2, <3>1, SetStreams, Zenon
  <2> HIDE DEF c
  <2>3. Quiet(c, ss')
    BY <2>1, <2>2, QuietFacts, Zenon
  <2>4. /\ ss' \in SessionSet /\ ss'.wire = ss.wire /\ ss'.hand = NoFrame /\ ss'.up = ss.up
        /\ ss'.streams = ss.streams \ {j} /\ ss'.sid = ss.sid
    BY <1>2, <2>2, <2>3 DEF Quiet
  <2>5. ASSUME j \in Sids PROVE y \in StreamSet /\ StreamInv(j, y, ss', user')
    <3>1. x \in StreamSet /\ StreamInv(j, x, ss, user)
      BY <1>3, <2>5
    <3>2. /\ z \in StreamSet /\ z.by = IF x.by = "none" THEN "overflow" ELSE x.by
          /\ z.pipe = IF x.pipe = "open" THEN "eof" ELSE x.pipe
          /\ z.q = x.q /\ z.moving = x.moving /\ z.read = x.read
          /\ z.end = x.end /\ z.sent = x.sent /\ z.heard = x.heard
      BY <3>1, OverflowFacts
    <3> HIDE DEF z
    <3>3. /\ y \in StreamSet /\ y.by = z.by /\ y.q = z.q /\ y.moving = z.moving
          /\ y.pipe = z.pipe /\ y.read = z.read /\ y.end = z.end /\ y.sent = z.sent
          /\ z.heard = "fin" => y.heard = "fin"
      BY <3>2, HearsFacts, Zenon
    <3> HIDE DEF y
    <3>4. x.by # "fin"
      BY <2>1, <3>1, Zenon DEF StreamInv, Ended, InHand, j
    <3>5. ~InHand("PSH", j, ss') /\ ~InHand("FIN", j, ss')
      BY <2>4 DEF InHand, NoFrame, Frame
    <3> HIDE <1>8
    <3>6. /\ y.by = IF x.by = "none" THEN "overflow" ELSE x.by
          /\ y.pipe = IF x.pipe = "open" THEN "eof" ELSE x.pipe
          /\ y.q = x.q /\ y.moving = x.moving /\ y.read = x.read
          /\ y.end = x.end /\ y.sent = x.sent /\ (x.heard = "fin" => y.heard = "fin")
      BY <3>2, <3>3
    <3> QED BY <2>4, <3>1, <3>3, <3>4, <3>5, <3>6, CloseKeeps, Zenon
  <2> HIDE DEF y
  <2> QED BY <1>6, <2>1, <2>4, <2>5, OneStream, Zenon
<1>9. CASE HandleFin
  <2> DEFINE y == closeLocally(x)
  <2>1. st' = [st EXCEPT ![j] = y] /\ ss' = e /\ ss.hand.t = "FIN" /\ user' = user
    BY <1>9 DEF HandleFin, j, x, e
  <2>2. ASSUME j \in Sids PROVE y \in StreamSet /\ StreamInv(j, y, ss', user')
    <3>1. y \in StreamSet
      BY <1>3, <2>2, DieOnceFacts DEF closeLocally
    <3>2. LetGo(ss, ss') /\ ss'.streams = ss.streams /\ ss'.sid = ss.sid
      BY <1>2, <2>1, Zenon DEF LetGo
    <3>3. InHand("FIN", j, ss)
      BY <2>1, Zenon DEF InHand, j
    <3> QED BY <1>3, <2>1, <2>2, <3>1, <3>2, <3>3, FinKeeps, Zenon
  <2> HIDE DEF y
  <2> QED BY <1>2, <1>6, <2>1, <2>2, OneStream, Zenon
<1>10. CASE HandleSynack
  <2> DEFINE b == IF ss.hand.n = 0 THEN "ok" ELSE "refused"
             y == [x EXCEPT !.syn = b]
  <2>1. st' = [st EXCEPT ![j] = y] /\ ss' = e /\ ss.hand.t = "SYNACK" /\ user' = user
    BY <1>10 DEF HandleSynack, j, x, e
  <2>2. b \in {"ok", "refused"}
    OBVIOUS
  <2> HIDE DEF b
  <2>3. ASSUME j \in Sids PROVE y \in StreamSet /\ StreamInv(j, y, ss', user')
    <3>1. y \in StreamSet /\ SameStream(x, y)
      BY <1>3, <2>2, <2>3, Zenon DEF StreamSet, SameStream
    <3>2. \A t \in {"PSH", "FIN"} : ~InHand(t, j, ss) /\ ~InHand(t, j, ss')
      BY <1>4, <2>1 DEF InHand
    <3>3. \A t \in {"PSH", "FIN"} : InHand(t, j, ss') = InHand(t, j, ss)
      BY <3>2 DEF InHand
    <3>4. ss'.wire = ss.wire /\ ss'.up = ss.up /\ ss'.streams = ss.streams /\ ss'.sid = ss.sid
      BY <1>2, <2>1
    <3>5. ~InHand("PSH", j, ss) /\ StreamInv(j, x, ss, user)
      BY <1>3, <2>3, <3>2
    <3> HIDE DEF y
    <3> HIDE <1>10
    <3>6. StreamInv(j, y, ss', user)
      BY <3>1, <3>3, <3>4, <3>5, QuietKeeps, Zenon
    <3> QED BY <2>1, <3>1, <3>6, Zenon
  <2> HIDE DEF y
  <2> QED BY <1>2, <1>6, <2>1, <2>3, OneStream, Zenon
<1>11. CASE RecvEnds
  <2> DEFINE c == CloseSession(ss)
  <2>1. ss' = [c EXCEPT !.loop = FALSE] /\ st' = st /\ user' = user
    BY <1>11 DEF RecvEnds
  <2>2. Quiet(ss, c)
    BY <1>0, QuietFacts, Zenon
  <2> HIDE DEF c
  <2>3. Quiet(c, ss')
    BY <2>1, <2>2, QuietFacts DEF Quiet
  <2>4. Quiet(ss, ss')
    BY <2>2, <2>3 DEF Quiet
  <2>5. ASSUME NEW i \in Sids PROVE StreamInv(i, st[i], ss', user')
    <3>1. \A t \in {"PSH", "FIN"} : InHand(t, i, ss') = InHand(t, i, ss)
      BY <2>4 DEF Quiet, InHand
    <3>2. /\ ss'.wire = ss.wire /\ ss'.up = ss.up /\ ss'.streams = ss.streams
          /\ ss'.sid = ss.sid /\ ss'.hand.n = ss.hand.n
      BY <2>4 DEF Quiet
    <3>3. StreamInv(i, st[i], ss', user)
      BY <1>1, <3>1, <3>2, SameStreamItself, QuietKeeps, Zenon
    <3> QED BY <2>1, <3>3
  <2> QED BY <2>1, <2>4, <2>5, NoStream, Zenon DEF Quiet
<1> QED BY <1>7, <1>8, <1>9, <1>10, <1>11

\* A stream's write loop takes a frame off the queue, or ends.
LEMMA WriteLoopKeeps ==
  ASSUME SessionInv, NEW j \in Sids, WriteLoop(j) PROVE SessionInv'
<1>0. ss \in SessionSet /\ st \in [Sids -> StreamSet]
  BY DEF SessionInv, SessionTypeOK
<1>1. \A i \in Sids : StreamInv(i, st[i], ss, user)
  BY DEF SessionInv
<1> DEFINE x == st[j]
<1>2. x \in StreamSet /\ StreamInv(j, x, ss, user) /\ ss' = ss /\ user' = user
  BY <1>0, <1>1 DEF WriteLoop, WriteLoopTakes, WriteLoopEnds
<1>3. CASE WriteLoopTakes(j)
  <2> DEFINE y == [x EXCEPT !.moving = Head(x.q), !.q = Tail(@)]
  <2>1. st' = [st EXCEPT ![j] = y] /\ x.moving = 0 /\ x.q # <<>>
    BY <1>3, Zenon DEF WriteLoopTakes
  <2> HIDE DEF x
  <2>2. Head(x.q) \in Nat /\ Tail(x.q) \in Seq(Nat)
    <3>1. x.q \in Seq(Nat)
      BY <1>2 DEF StreamSet
    <3> QED BY <2>1, <3>1
  <2>3. y \in StreamSet
    BY <1>2, <2>2, Zenon DEF StreamSet
  <2>4. StreamInv(j, y, ss, user)
    BY <1>2, <2>1, TakeKeeps, Zenon
  <2> HIDE DEF y
  <2> QED BY <1>0, <1>1, <1>2, <2>1, <2>3, <2>4, OneStream, Zenon
<1>4. CASE WriteLoopEnds(j)
  <2> DEFINE c == ClosePipe(x, "eof")
             y == [c EXCEPT !.writer = FALSE, !.moving = 0, !.q = <<>>]
  <2>1. st' = [st EXCEPT ![j] = y]
    BY <1>4 DEF WriteLoopEnds
  <2>2. \/ x.moving = 0 /\ Closed(x) /\ (x.q = <<>> \/ Done(x))
        \/ x.moving > 0 /\ x.pipe # "open"
    BY <1>4 DEF WriteLoopEnds
  <2> HIDE DEF x
  <2>3. y \in StreamSet
    <3>1. c \in StreamSet
      BY <1>2, ClosePipeFacts
    <3> HIDE DEF c
    <3>2. FALSE \in BOOLEAN /\ 0 \in Nat /\ <<>> \in Seq(Nat)
      OBVIOUS
    <3>3. \A b \in BOOLEAN, m \in Nat, u \in Seq(Nat) :
            [c EXCEPT !.writer = b, !.moving = m, !.q = u] \in StreamSet
      BY <3>1, Zenon DEF StreamSet
    <3> QED BY <3>2, <3>3, Zenon
  <2>4. StreamInv(j, y, ss, user)
    BY <1>2, <2>2, LoopEndKeeps, Zenon
  <2> HIDE DEF y
  <2> QED BY <1>0, <1>1, <1>2, <2>1, <2>3, <2>4, OneStream, Zenon
<1> QED BY <1>3, <1>4 DEF WriteLoop

\* A frame the server sends is the last of the wire.
LEMMA SendFacts ==
  ASSUME ss \in SessionSet, NEW g \in FrameSet, Send(g)
  PROVE  /\ ss' \in SessionSet /\ ss.up /\ ss'.up = ss.up /\ ss'.hand = ss.hand
         /\ ss'.streams = ss.streams /\ ss'.sid = ss.sid /\ user' = user
         /\ \A i : Extended(i, ss, ss', g, Len(ss.wire))
<1>1. ss.up /\ user' = user /\ ss' = [ss EXCEPT !.wire = Append(ss.wire, g)]
  BY DEF Send
<1>2. Append(ss.wire, g) \in Seq(FrameSet)
  BY DEF SessionSet
<1>3. /\ ss' \in SessionSet /\ ss'.wire = Append(ss.wire, g) /\ ss'.hand = ss.hand
      /\ ss'.up = ss.up /\ ss'.streams = ss.streams /\ ss'.sid = ss.sid
  BY <1>1, <1>2, SetWire, Zenon
<1>4. \A i : Extended(i, ss, ss', g, Len(ss.wire))
  BY <1>3, AppendExtends
<1> QED BY <1>1, <1>3, <1>4, Zenon

\* It is nothing to the streams it is not for.
LEMMA SendLeavesOthers ==
  ASSUME SessionInv, NEW g \in FrameSet, Send(g), NEW i \in Sids,
         ~(g.sid = i /\ g.t \in {"PSH", "FIN"})
  PROVE  StreamInv(i, st[i], ss', user')
<1>1. ss \in SessionSet /\ StreamInv(i, st[i], ss, user)
  BY DEF SessionInv, SessionTypeOK
<1>2. /\ ss.up /\ ss'.up = ss.up /\ ss'.hand = ss.hand /\ ss'.streams = ss.streams
      /\ ss'.sid = ss.sid /\ user' = user /\ Extended(i, ss, ss', g, Len(ss.wire))
  BY <1>1, SendFacts, Zenon
<1>3. StreamInv(i, st[i], ss', user)
  BY <1>1, <1>2, SendOtherKeeps, Zenon
<1> QED BY <1>2, <1>3, Zenon

\* The server acknowledges a stream, sends its next frame, or its FIN.
LEMMA ServerKeeps ==
  ASSUME SessionInv, NEW j \in Sids, Server(j) PROVE SessionInv'
<1>0. ss \in SessionSet /\ st \in [Sids -> StreamSet]
  BY DEF SessionInv, SessionTypeOK
<1> DEFINE x == st[j]
<1>1. x \in StreamSet /\ StreamInv(j, x, ss, user)
  BY <1>0 DEF SessionInv
<1>2. j \in Nat
  BY StreamsAssumption DEF Sids
<1>3. ASSUME NEW y \in StreamSet, NEW g \in FrameSet, Send(g), st' = [st EXCEPT ![j] = y],
             g.sid = j, StreamInv(j, y, ss', user)
      PROVE  SessionInv'
  <2>1. ss' \in SessionSet /\ user' = user
    BY <1>0, <1>3, SendFacts
  <2>2. \A i \in Sids : i # j => StreamInv(i, st[i], ss', user')
    BY <1>3, SendLeavesOthers
  <2> QED BY <1>3, <2>1, <2>2, OneStream, Zenon
<1>4. ASSUME NEW err \in {0, 1}, Send(Frame("SYNACK", j, err)), st' = [st EXCEPT ![j].acked = TRUE]
      PROVE  SessionInv'
  <2> DEFINE g == Frame("SYNACK", j, err)
             y == [x EXCEPT !.acked = TRUE]
  <2>1. g \in FrameSet /\ g.sid = j /\ g.t = "SYNACK"
    BY <1>2 DEF Frame, FrameSet
  <2>2. /\ y \in StreamSet /\ y.by = x.by /\ y.q = x.q /\ y.moving = x.moving /\ y.pipe = x.pipe
        /\ y.read = x.read /\ y.end = x.end /\ y.sent = x.sent /\ y.heard = x.heard
    BY <1>1, Zenon DEF StreamSet
  <2>3. Send(g) /\ st' = [st EXCEPT ![j] = y]
    BY <1>4
  <2> HIDE DEF g, y, x
  <2>4. /\ ss.up /\ ss'.up = ss.up /\ ss'.hand = ss.hand /\ ss'.streams = ss.streams
        /\ ss'.sid = ss.sid /\ Extended(j, ss, ss', g, Len(ss.wire))
    BY <1>0, <2>1, <2>3, SendFacts
  <2>5. StreamInv(j, y, ss', user)
    BY <1>1, <2>1, <2>2, <2>4, SendOtherKeeps, Zenon
  <2> QED BY <1>3, <2>1, <2>2, <2>3, <2>5, Zenon
<1>5. ASSUME x.heard = "addr", st' = [st EXCEPT ![j].sent = @ + 1],
             Send(Frame("PSH", j, x.sent + 1))
      PROVE  SessionInv'
  <2> DEFINE g == Frame("PSH", j, x.sent + 1)
             y == [x EXCEPT !.sent = @ + 1]
  <2>1. g \in FrameSet /\ g.sid = j /\ g.t = "PSH" /\ g.n = x.sent + 1 /\ x.sent \in Nat
    BY <1>1, <1>2 DEF Frame, FrameSet, StreamSet
  <2>2. /\ y \in StreamSet /\ y.by = x.by /\ y.q = x.q /\ y.moving = x.moving /\ y.pipe = x.pipe
        /\ y.read = x.read /\ y.end = x.end /\ y.sent = x.sent + 1 /\ y.heard = x.heard
    <3>1. \A m \in Nat : LET z == [x EXCEPT !.sent = m] IN
            /\ z \in StreamSet /\ z.by = x.by /\ z.q = x.q /\ z.moving = x.moving
            /\ z.pipe = x.pipe /\ z.read = x.read /\ z.end = x.end /\ z.sent = m
            /\ z.heard = x.heard
      BY <1>1, Zenon DEF StreamSet
    <3>2. x.sent + 1 \in Nat
      BY <2>1
    <3> QED BY <3>1, <3>2
  <2>3. Send(g) /\ st' = [st EXCEPT ![j] = y]
    BY <1>5
  <2> HIDE DEF g, y, x
  <2>4. /\ ss.up /\ ss'.up = ss.up /\ ss'.hand = ss.hand /\ ss'.streams = ss.streams
        /\ ss'.sid = ss.sid /\ Extended(j, ss, ss', g, Len(ss.wire))
    BY <1>0, <2>1, <2>3, SendFacts
  <2>5. Arrived(j, x, ss) \in Nat
    <3>1. Queued(x) \in Nat
      BY <1>1 DEF Handed, Queued, StreamSet
    <3> QED BY <3>1 DEF Arrived
  <2>6. StreamInv(j, y, ss', user)
    BY <1>1, <1>5, <2>1, <2>2, <2>4, <2>5, SendDataKeeps, Zenon
  <2> QED BY <1>3, <2>1, <2>2, <2>3, <2>6, Zenon
<1>6. ASSUME st' = [st EXCEPT ![j].heard = "fin", ![j].acked = FALSE], Send(Frame("FIN", j, 0))
      PROVE  SessionInv'
  <2> DEFINE g == Frame("FIN", j, 0)
             y == [x EXCEPT !.heard = "fin", !.acked = FALSE]
  <2>1. g \in FrameSet /\ g.sid = j /\ g.t = "FIN"
    BY <1>2 DEF Frame, FrameSet
  <2>2. /\ y \in StreamSet /\ y.by = x.by /\ y.q = x.q /\ y.moving = x.moving /\ y.pipe = x.pipe
        /\ y.read = x.read /\ y.end = x.end /\ y.sent = x.sent /\ y.heard = "fin"
    BY <1>1, Zenon DEF StreamSet
  <2>3. Send(g) /\ st' = [st EXCEPT ![j] = y]
    BY <1>0, <1>6, Zenon
  <2> HIDE DEF g, y, x
  <2>4. /\ ss.up /\ ss'.up = ss.up /\ ss'.hand = ss.hand /\ ss'.streams = ss.streams
        /\ ss'.sid = ss.sid /\ Extended(j, ss, ss', g, Len(ss.wire))
    BY <1>0, <2>1, <2>3, SendFacts
  <2>5. StreamInv(j, y, ss', user)
    BY <1>1, <2>1, <2>2, <2>4, SendFinKeeps, Zenon
  <2> QED BY <1>3, <2>1, <2>2, <2>3, <2>5, Zenon
<1> QED BY <1>4, <1>5, <1>6 DEF Server

\* Settings, heartbeats and alerts are for no stream.
LEMMA ExtrasKeep ==
  ASSUME SessionInv, ServerSettings \/ \E t \in {"HEART", "ALERT"} : ServerExtra(t)
  PROVE  SessionInv'
<1>1. PICK g \in FrameSet : Send(g) /\ st' = st /\ g.t \notin {"PSH", "FIN"}
  <2>1. CASE ServerSettings
    <3> DEFINE g == Frame("SETTINGS", 0, 2)
    <3>1. g \in FrameSet /\ g.t \notin {"PSH", "FIN"}
      BY DEF Frame, FrameSet
    <3>2. Send(g) /\ st' = st
      BY <2>1 DEF ServerSettings
    <3> HIDE DEF g
    <3> QED BY <3>1, <3>2
  <2>2. ASSUME NEW t \in {"HEART", "ALERT"}, ServerExtra(t)
        PROVE  \E g \in FrameSet : Send(g) /\ st' = st /\ g.t \notin {"PSH", "FIN"}
    <3> DEFINE g == Frame(t, 0, 0)
    <3>1. g \in FrameSet /\ g.t \notin {"PSH", "FIN"}
      BY DEF Frame, FrameSet
    <3>2. Send(g) /\ st' = st
      BY <2>2 DEF ServerExtra
    <3> HIDE DEF g
    <3> QED BY <3>1, <3>2
  <2> QED BY <2>1, <2>2
<1>2. ss' \in SessionSet
  BY <1>1, SendFacts DEF SessionInv, SessionTypeOK
<1>3. \A i \in Sids : StreamInv(i, st[i], ss', user')
  BY <1>1, SendLeavesOthers
<1> QED BY <1>1, <1>2, <1>3, NoStream

\* The connection breaks, with or without what was on the wire.
LEMMA BreakKeeps ==
  ASSUME SessionInv, Break PROVE SessionInv'
<1>0. ss \in SessionSet
  BY DEF SessionInv, SessionTypeOK
<1>1. \A i \in Sids : StreamInv(i, st[i], ss, user)
  BY DEF SessionInv
<1>2. PICK u \in {ss.wire, <<>>} : ss' = [ss EXCEPT !.up = FALSE, !.wire = u]
  BY Zenon DEF Break
<1>3. st' = st /\ user' = user
  BY DEF Break
<1>4. u \in Seq(FrameSet)
  <2>1. ss.wire \in Seq(FrameSet) /\ <<>> \in Seq(FrameSet)
    BY <1>0 DEF SessionSet
  <2> QED BY <1>2, <2>1, Zenon
<1>5. /\ ss' \in SessionSet /\ ss'.wire = u /\ ~ss'.up /\ ss'.hand = ss.hand
      /\ ss'.streams = ss.streams /\ ss'.sid = ss.sid
  BY <1>0, <1>2, <1>4, Zenon DEF SessionSet
<1>6. ASSUME NEW i \in Sids PROVE StreamInv(i, st[i], ss', user)
  <2>1. CASE u = <<>>
    BY <1>1, <1>5, <2>1, LossKeeps, Zenon
  <2>2. CASE u = ss.wire
    <3>1. SameFrames(i, st[i], st[i], ss, ss')
      BY <1>5, <2>2, Zenon DEF SameFrames, InHand
    <3>2. Followed(i, st[i], ss, user) /\ StreamInv(i, st[i], ss, user)
      BY <1>1, Zenon DEF StreamInv
    <3>3. st[i].by = "none" =>
             /\ st[i].heard = "addr" => i \in ss.streams
             /\ i = ss.sid /\ user \in {"synack", "addr", "use"} =>
                  i \in ss.streams \/ st[i].heard = "fin"
      BY <3>2, Zenon DEF Followed
    <3>4. i = ss.sid /\ user = "fin" => st[i].by # "none"
      BY <3>2, Zenon DEF Followed
    <3> QED BY <1>5, <3>1, <3>2, <3>3, <3>4, SameFramesKeep, Zenon
  <2> QED BY <1>2, <2>1, <2>2
<1> QED BY <1>3, <1>5, <1>6, NoStream

\* Close ends every registered stream and closes the connection.
LEMMA CloseStreamsKeeps ==
  ASSUME SessionInv, CloseStreams PROVE SessionInv'
<1>0. ss \in SessionSet /\ st \in [Sids -> StreamSet]
  BY DEF SessionInv, SessionTypeOK
<1>1. \A i \in Sids : st[i] \in StreamSet /\ StreamInv(i, st[i], ss, user)
  BY <1>0 DEF SessionInv
<1>2. /\ st' = [i \in Sids |-> IF i \in ss.streams THEN forceClose(st[i]) ELSE st[i]]
      /\ ss' = [ss EXCEPT !.ended = TRUE, !.streams = {}, !.up = FALSE, !.wire = <<>>]
      /\ user' = user
  BY DEF CloseStreams
<1>3. /\ ss' \in SessionSet /\ ss'.wire = <<>> /\ ~ss'.up /\ ss'.hand = ss.hand
      /\ ss'.streams = {} /\ ss'.sid = ss.sid
  <2> DEFINE a == [ss EXCEPT !.ended = TRUE]
             b == [a EXCEPT !.streams = {}]
             c == [b EXCEPT !.up = FALSE]
  <2>1. /\ a \in SessionSet /\ a.hand = ss.hand /\ a.sid = ss.sid
    <3>1. TRUE \in BOOLEAN
      OBVIOUS
    <3> QED BY <1>0, <3>1, Zenon DEF SessionSet
  <2>2. b \in SessionSet /\ b.hand = ss.hand /\ b.sid = ss.sid /\ b.streams = {}
    <3> HIDE DEF a
    <3> QED BY <2>1, SetStreams, ZenonT(40)
  <2>3. c \in SessionSet /\ c.hand = ss.hand /\ c.sid = ss.sid /\ c.streams = {} /\ ~c.up
    <3> HIDE DEF b
    <3> QED BY <2>2, Zenon DEF SessionSet
  <2>4. ss' = [c EXCEPT !.wire = <<>>]
    BY <1>0, <1>2 DEF SessionSet
  <2>5. <<>> \in Seq(FrameSet)
    OBVIOUS
  <2> HIDE DEF c
  <2> QED BY <2>3, <2>4, <2>5, SetWire, Zenon
<1>4. ASSUME NEW i \in Sids, i \in ss.streams
      PROVE  forceClose(st[i]) \in StreamSet /\ StreamInv(i, forceClose(st[i]), ss', user)
  <2> DEFINE x == st[i]
             y == forceClose(x)
  <2>1. x \in StreamSet /\ StreamInv(i, x, ss, user)
    BY <1>1
  <2> HIDE DEF x
  <2>2. /\ y \in StreamSet /\ y.by = IF x.by = "none" THEN "force" ELSE x.by
        /\ y.pipe = IF x.pipe = "open" THEN "error" ELSE x.pipe
        /\ y.q = x.q /\ y.moving = x.moving /\ y.read = x.read
        /\ y.end = x.end /\ y.sent = x.sent /\ y.heard = x.heard
    BY <2>1, ForceFacts
  <2> HIDE DEF y
  <2>3. \A t : InHand(t, i, ss') = InHand(t, i, ss)
    BY <1>3, Zenon DEF InHand
  <2>4. StreamInv(i, y, ss', user)
    BY <1>3, <2>1, <2>2, <2>3, CloseKeeps, Zenon
  <2> QED BY <2>2, <2>4, Zenon DEF x, y
<1>5. ASSUME NEW i \in Sids, i \notin ss.streams PROVE StreamInv(i, st[i], ss', user)
  BY <1>1, <1>3, <1>5, LossKeeps, Zenon
<1>6. st' \in [Sids -> StreamSet]
  BY <1>1, <1>2, <1>4
<1>7. \A i \in Sids : StreamInv(i, st'[i], ss', user')
  BY <1>2, <1>4, <1>5
<1> QED BY <1>3, <1>6, <1>7 DEF SessionInv, SessionTypeOK, Sids

\* Every step inside a session preserves the invariant.
LEMMA NextSessionInv == ASSUME SessionInv, SessionNext PROVE SessionInv'
<1>1. CASE UserGoesOn
  BY <1>1, RegisterKeeps, WriteKeeps, ReadsKeep, UserClosesKeep DEF UserGoesOn
<1>2. CASE RecvLoop
  BY <1>2, RecvFrameKeeps, HandlersKeep DEF RecvLoop
<1>3. ASSUME NEW i \in Sids, WriteLoop(i) \/ Server(i) PROVE SessionInv'
  BY <1>3, WriteLoopKeeps, ServerKeeps
<1> QED BY <1>1, <1>2, <1>3, OpenSynKeeps, WriteKeeps, ReadsKeep, UserClosesKeep,
           CloseStreamsKeeps, ExtrasKeep, BreakKeeps DEF SessionNext

\* What the invariant says of the reader.
LEMMA SessionInvDrains == SessionInv => DrainInOrder
<1> SUFFICES ASSUME SessionInv, NEW i \in Sids
             PROVE  /\ \A k \in DOMAIN st[i].read : st[i].read[k] = k
                    /\ st[i].by = "fin" /\ st[i].end = "eof" => Len(st[i].read) = st[i].sent
  BY DEF DrainInOrder
<1>1. st[i] \in StreamSet /\ Numbered(st[i]) /\ Ended(i, st[i], ss)
  BY DEF SessionInv, SessionTypeOK, StreamInv
<1>2. DOMAIN st[i].read = 1 .. Len(st[i].read)
  BY <1>1 DEF StreamSet
<1> QED BY <1>1, <1>2, Zenon DEF Numbered, Ended

\* A reader gets a stream's frames in the order the server sent them, none
\* twice and none left out; and when the server finished the stream and the
\* reader is told EOF, it has been given all of them, also those that were
\* still in the queue or on the wire at the FIN (recvLoop, enqueue,
\* closeLocally and writeLoop in any order, whatever breaks or is closed
\* meanwhile).
THEOREM ReadersGetAllInOrder == SessionSpec => []DrainInOrder
<1>1. SessionInit => SessionInv
  BY InitSessionInv
<1>2. SessionInv /\ [SessionNext]_session => SessionInv'
  <2> SUFFICES ASSUME SessionInv, [SessionNext]_session PROVE SessionInv'
    OBVIOUS
  <2>1. CASE SessionNext
    BY <2>1, NextSessionInv
  <2>2. CASE UNCHANGED session
    BY <2>2 DEF session, SessionInv, SessionTypeOK, Sids
  <2> QED BY <2>1, <2>2
<1> QED BY <1>1, <1>2, SessionInvDrains, PTL DEF SessionSpec

-----------------------------------------------------------------------------
(* The pool. *)

\* u has taken a session and not given it back.
Holds(u) == us[u].pc \in {"open", "use", "idle", "mark", "list"}

SessionStates ==
  [made : BOOLEAN, die : BOOLEAN, hook : {"no", "unmark", "unlist", "forget", "done"},
   inIdle : BOOLEAN]
Places == {"out", "get", "dial", "open", "use", "idle", "mark", "list"}
UserStates == [pc : Places, s : Sessions \cup {0}, open : BOOLEAN, left : Nat]

PoolTypeOK ==
  /\ idle \in Seq(Sessions)
  /\ se \in [Sessions -> SessionStates]
  /\ us \in [Users -> UserStates]

\* A stream is open only while its user uses it, what is held or listed has
\* been made, and it is held once or listed once.
PoolInv ==
  /\ PoolTypeOK
  /\ \A u \in Users : us[u].open => us[u].pc = "use"
  /\ \A u \in Users : Holds(u) => S(u) \in Sessions /\ se[S(u)].made
  /\ \A u, v \in Users : Holds(u) /\ Holds(v) /\ S(u) = S(v) => u = v
  /\ \A i \in DOMAIN idle :
       se[idle[i]].made /\ \A u \in Users : Holds(u) => S(u) # idle[i]
  /\ IsInjective(idle)

\* The sessions the idle list holds are sessions of the client.
LEMMA IdleSessions ==
  ASSUME PoolInv
  PROVE  \A i \in DOMAIN idle : idle[i] \in Sessions
<1>1. idle \in Seq(Sessions)
  BY Zenon DEF PoolInv, PoolTypeOK
<1> QED
  BY <1>1

\* NewClient.
LEMMA InitPoolInv == PoolInit => PoolInv
<1> SUFFICES ASSUME PoolInit PROVE PoolInv
  OBVIOUS
<1>1. PoolTypeOK
  BY OpensAssumption, SMTT(30) DEF PoolInit, PoolTypeOK, SessionStates, UserStates, Places
<1>2. \A u \in Users : us[u].pc = "out" /\ us[u].open = FALSE
  BY DEF PoolInit
<1>3. idle = <<>>
  BY DEF PoolInit
<1> QED BY <1>1, <1>2, <1>3, SMTT(30) DEF PoolInv, Holds, IsInjective

\* Session.Close on a session's state.
LEMMA CloseFacts ==
  ASSUME NEW e \in SessionStates PROVE Close(e) \in SessionStates /\ Close(e).made = e.made
  BY Zenon DEF Close, SessionStates

\* What is left when a user only moves on.
LEMMA GotoFacts ==
  ASSUME PoolTypeOK, NEW u \in Users, NEW pc \in Places, Goto(u, pc)
  PROVE  /\ us' \in [Users -> UserStates] /\ us'[u].pc = pc
         /\ S(u)' = S(u) /\ us'[u].open = us[u].open
         /\ \A v \in Users : v # u => us'[v] = us[v]
  BY Zenon DEF Goto, PoolTypeOK, UserStates, S

\* The sessions go on and the list may lose some: nothing changes hands.
LEMMA SessionsGoOn ==
  ASSUME PoolInv, PoolTypeOK', UNCHANGED us,
         \A s \in Sessions : se[s].made => se'[s].made,
         IsInjective(idle'), \A i \in DOMAIN idle' : \E j \in DOMAIN idle : idle'[i] = idle[j]
  PROVE  PoolInv'
<1>1. \A i \in DOMAIN idle : idle[i] \in Sessions
  BY IdleSessions, Zenon
<1>2. \A u \in Users : S(u)' = S(u) /\ (Holds(u)' <=> Holds(u)) /\ us'[u] = us[u]
  BY DEF S, Holds
<1>3. \A i \in DOMAIN idle' : se'[idle'[i]].made /\ \A u \in Users : Holds(u)' => S(u)' # idle'[i]
  <2> SUFFICES ASSUME NEW i \in DOMAIN idle'
               PROVE  se'[idle'[i]].made /\ \A u \in Users : Holds(u) => S(u) # idle'[i]
    BY <1>2, Zenon
  <2>1. PICK j \in DOMAIN idle : idle'[i] = idle[j]
    BY Zenon
  <2> QED BY <1>1, <2>1, Zenon DEF PoolInv
<1>4. \A u \in Users : Holds(u)' => S(u)' \in Sessions /\ se'[S(u)'].made
  <2> SUFFICES ASSUME NEW u \in Users, Holds(u)'
               PROVE  S(u)' \in Sessions /\ se'[S(u)'].made
    BY Zenon
  <2>1. Holds(u) /\ S(u)' = S(u)
    BY <1>2, Zenon
  <2>2. S(u) \in Sessions /\ se[S(u)].made
    BY <2>1, Zenon DEF PoolInv
  <2> QED BY <2>1, <2>2, Zenon
<1>5. \A u, v \in Users : Holds(u)' /\ Holds(v)' /\ S(u)' = S(v)' => u = v
  <2> SUFFICES ASSUME NEW u \in Users, NEW v \in Users, Holds(u)', Holds(v)', S(u)' = S(v)'
               PROVE  u = v
    BY Zenon
  <2>1. Holds(u) /\ Holds(v) /\ S(u) = S(v)
    BY <1>2, Zenon
  <2> QED BY <2>1, Zenon DEF PoolInv
<1>6. \A u \in Users : us'[u].open => us'[u].pc = "use"
  BY Zenon DEF PoolInv
<1> QED BY <1>3, <1>4, <1>5, <1>6, Zenon DEF PoolInv

\* A user moves on, and the session it then holds, if any, is its own.
LEMMA UserGoesOnItsOwn ==
  ASSUME PoolInv, PoolTypeOK', NEW u \in Users,
         \A v \in Users : v # u => us'[v] = us[v],
         us'[u].open => us'[u].pc = "use",
         \A s \in Sessions : se[s].made => se'[s].made,
         IsInjective(idle'), \A i \in DOMAIN idle' : \E j \in DOMAIN idle : idle'[i] = idle[j],
         Holds(u)' => /\ S(u)' \in Sessions /\ se'[S(u)'].made
                      /\ \A v \in Users : v # u /\ Holds(v) => S(v) # S(u)'
                      /\ \A i \in DOMAIN idle' : idle'[i] # S(u)'
  PROVE  PoolInv'
<1>1. \A i \in DOMAIN idle : idle[i] \in Sessions
  BY IdleSessions, Zenon
<1>2. \A v \in Users : v # u => S(v)' = S(v) /\ (Holds(v)' <=> Holds(v)) /\ us'[v] = us[v]
  BY Zenon DEF S, Holds
<1>3. \A i \in DOMAIN idle' : se'[idle'[i]].made /\ \A v \in Users : Holds(v)' => S(v)' # idle'[i]
  <2> SUFFICES ASSUME NEW i \in DOMAIN idle'
               PROVE  se'[idle'[i]].made /\ \A v \in Users : Holds(v)' => S(v)' # idle'[i]
    BY Zenon
  <2>1. PICK j \in DOMAIN idle : idle'[i] = idle[j]
    BY Zenon
  <2>2. se'[idle'[i]].made
    BY <1>1, <2>1, Zenon DEF PoolInv
  <2>3. ASSUME NEW v \in Users, v # u, Holds(v)' PROVE S(v)' # idle'[i]
    BY <1>2, <2>1, <2>3, SMTT(30) DEF PoolInv
  <2> QED BY <2>2, <2>3, Zenon
<1>4. ASSUME NEW v \in Users, Holds(v)' PROVE S(v)' \in Sessions /\ se'[S(v)'].made
  <2>1. CASE v = u
    BY <1>4, <2>1, Zenon
  <2>2. CASE v # u
    BY <1>2, <1>4, <2>2, SMTT(30) DEF PoolInv
  <2> QED BY <2>1, <2>2, Zenon
<1>5. ASSUME NEW v \in Users, NEW w \in Users, Holds(v)', Holds(w)', S(v)' = S(w)' PROVE v = w
  <2>1. CASE v # u /\ w # u
    BY <1>2, <1>5, <2>1, SMTT(30) DEF PoolInv
  <2>2. CASE v = u /\ w # u
    BY <1>2, <1>5, <2>2, Zenon
  <2>3. CASE v # u /\ w = u
    BY <1>2, <1>5, <2>3, Zenon
  <2> QED BY <2>1, <2>2, <2>3, Zenon
<1>6. \A v \in Users : us'[v].open => us'[v].pc = "use"
  BY <1>2, Zenon DEF PoolInv
<1> QED BY <1>3, <1>4, <1>5, <1>6, Zenon DEF PoolInv

\* What is left of the list was in it, and in it once.
LEMMA KeepFacts ==
  ASSUME idle \in Seq(Sessions), IsInjective(idle), NEW K \in SUBSET (1 .. Len(idle)), KeepIdle(K)
  PROVE  /\ idle' \in Seq(Sessions) /\ IsInjective(idle')
         /\ \A i \in DOMAIN idle' : \E j \in DOMAIN idle : idle'[i] = idle[j]
<1>0. PICK n \in 0 .. Len(idle) : \E p \in [1 .. n -> K] :
        /\ \A i, j \in 1 .. n : i < j => p[i] < p[j]
        /\ idle' = [i \in 1 .. n |-> idle[p[i]]]
  BY Zenon DEF KeepIdle
<1>1. PICK p \in [1 .. n -> K] :
        /\ \A i, j \in 1 .. n : i < j => p[i] < p[j]
        /\ idle' = [i \in 1 .. n |-> idle[p[i]]]
  BY <1>0
<1>2. n \in Nat /\ DOMAIN idle = 1 .. Len(idle)
  OBVIOUS
<1>3. ASSUME NEW i \in 1 .. n PROVE p[i] \in DOMAIN idle /\ p[i] \in Nat /\ idle[p[i]] \in Sessions
  <2>1. p[i] \in K
    OBVIOUS
  <2>2. p[i] \in 1 .. Len(idle)
    BY <2>1, Zenon
  <2> QED BY <1>2, <2>2
<1>4. idle' \in Seq(Sessions) /\ DOMAIN idle' = 1 .. n /\ \A i \in 1 .. n : idle'[i] = idle[p[i]]
  BY <1>1, <1>2, <1>3
<1>5. ASSUME NEW i \in 1 .. n, NEW j \in 1 .. n, idle'[i] = idle'[j] PROVE i = j
  <2>1. p[i] = p[j]
    BY <1>3, <1>4, <1>5 DEF IsInjective
  <2> QED BY <1>1, <1>2, <1>3, <2>1
<1>6. IsInjective(idle')
  BY <1>4, <1>5, Zenon DEF IsInjective
<1> QED BY <1>3, <1>4, <1>6

\* The steps of a session's death.
LEMMA DeathKeepsPool ==
  ASSUME PoolInv, NEW s \in Sessions, DieHook(s) \/ SessionDies(s)
  PROVE  PoolInv'
<1>0. PoolTypeOK /\ IsInjective(idle)
  BY Zenon DEF PoolInv
<1>1. CASE DieHookUnmark(s)
  BY <1>0, <1>1, SessionsGoOn, Zenon DEF DieHookUnmark, PoolTypeOK, SessionStates
<1>2. CASE DieHookUnlist(s)
  <2> DEFINE at == {k \in DOMAIN idle : idle[k] = s}
             K == {k \in DOMAIN idle : k \notin at \/ \E j \in at : j < k}
  <2>1. /\ \A r \in Sessions : se[r].made => se'[r].made
        /\ idle' \in Seq(Sessions) => PoolTypeOK'
        /\ us' = us /\ KeepIdle(K)
    BY <1>0, <1>2 DEF DieHookUnlist, PoolTypeOK, SessionStates
  <2>2. idle \in Seq(Sessions) /\ K \in SUBSET (1 .. Len(idle))
    BY <1>0 DEF PoolTypeOK
  <2> HIDE DEF K
  <2>3. /\ idle' \in Seq(Sessions) /\ IsInjective(idle')
        /\ \A i \in DOMAIN idle' : \E j \in DOMAIN idle : idle'[i] = idle[j]
    BY <1>0, <2>1, <2>2, KeepFacts, Zenon
  <2> QED BY <2>1, <2>3, SessionsGoOn, Zenon
<1>3. CASE DieHookForget(s)
  BY <1>0, <1>3, SessionsGoOn DEF DieHookForget, PoolTypeOK, SessionStates
<1>4. CASE SessionDies(s)
  BY <1>0, <1>4, CloseFacts, SessionsGoOn DEF SessionDies, PoolTypeOK
<1> QED BY <1>1, <1>2, <1>3, <1>4 DEF DieHook

\* getIdleSession takes the session at k out of the list, with those behind it.
LEMMA GetKeepsPool ==
  ASSUME PoolInv, NEW u \in Users, getIdleSession(u)
  PROVE  PoolInv'
<1>0. PoolTypeOK /\ IsInjective(idle) /\ Len(idle) \in Nat
  BY SMTT(30) DEF PoolInv, PoolTypeOK
<1>1. PICK k \in 0 .. Len(idle) :
        /\ idle' = SubSeq(idle, 1, IF k = 0 THEN 0 ELSE k - 1)
        /\ se' = [s \in Sessions |->
                    IF \E j \in k .. Len(idle) : j > 0 /\ idle[j] = s
                    THEN [se[s] EXCEPT !.inIdle = FALSE] ELSE se[s]]
        /\ us' = [us EXCEPT ![u].pc = IF k = 0 THEN "dial" ELSE "open",
                            ![u].s  = IF k = 0 THEN 0 ELSE idle[k]]
  BY Zenon DEF getIdleSession
<1>2. us[u].pc = "get"
  BY DEF getIdleSession
<1> DEFINE n == IF k = 0 THEN 0 ELSE k - 1
<1>3. n \in Nat /\ n <= Len(idle) /\ (k # 0 => k \in 1 .. Len(idle) /\ n < k)
  BY <1>0
<1>30. idle' = SubSeq(idle, 1, n)
  BY <1>1
<1> HIDE DEF n
<1>4. /\ idle' \in Seq(Sessions) /\ DOMAIN idle' = 1 .. n
      /\ \A i \in 1 .. n : i \in DOMAIN idle /\ idle'[i] = idle[i]
      /\ DOMAIN idle = 1 .. Len(idle)
  BY <1>0, <1>3, <1>30 DEF PoolTypeOK
<1>5. IsInjective(idle')
  BY <1>0, <1>4 DEF IsInjective
<1>6. k # 0 => idle[k] \in Sessions /\ \A i \in 1 .. n : idle'[i] # idle[k]
  <2>1. ASSUME k # 0, NEW i \in 1 .. n PROVE idle[i] # idle[k]
    <3>1. i # k /\ i \in DOMAIN idle /\ k \in DOMAIN idle
      BY <1>3, <1>4, <2>1
    <3> QED BY <1>0, <3>1 DEF IsInjective
  <2> QED BY <1>0, <1>3, <1>4, <2>1 DEF PoolTypeOK
<1>7. se' \in [Sessions -> SessionStates]
  <2>1. \A x \in SessionStates : [x EXCEPT !.inIdle = FALSE] \in SessionStates
    BY Zenon DEF SessionStates
  <2>2. \A s \in Sessions : se[s] \in SessionStates /\ [se[s] EXCEPT !.inIdle = FALSE] \in SessionStates
    BY <1>0, <2>1 DEF PoolTypeOK
  <2> QED BY <1>1, <2>2
<1>8. PoolTypeOK'
  <2> DEFINE s0 == IF k = 0 THEN 0 ELSE idle[k]
             p0 == IF k = 0 THEN "dial" ELSE "open"
  <2>1. s0 \in Sessions \cup {0} /\ p0 \in Places
    BY <1>6 DEF Places
  <2> HIDE DEF s0, p0
  <2>2. us' = [us EXCEPT ![u].pc = p0, ![u].s = s0]
    BY <1>1 DEF s0, p0
  <2>3. us' \in [Users -> UserStates]
    BY <1>0, <2>1, <2>2, Zenon DEF PoolTypeOK, UserStates
  <2> QED BY <1>4, <1>7, <2>3 DEF PoolTypeOK
<1>9. \A s \in Sessions : se'[s].made = se[s].made
  BY <1>0, <1>1 DEF PoolTypeOK, SessionStates
<1>10. /\ \A v \in Users : v # u => us'[v] = us[v]
       /\ us'[u].pc \in {"dial", "open"} /\ us'[u].open = us[u].open
       /\ us'[u].pc = "open" => k # 0 /\ us'[u].s = idle[k]
  BY <1>0, <1>1 DEF PoolTypeOK, UserStates
<1>11. ~us'[u].open
  BY <1>2, <1>10, Zenon DEF PoolInv
<1>12. ASSUME Holds(u)'
       PROVE  /\ S(u)' \in Sessions /\ se'[S(u)'].made
              /\ \A v \in Users : v # u /\ Holds(v) => S(v) # S(u)'
              /\ \A i \in DOMAIN idle' : idle'[i] # S(u)'
  <2>1. k # 0 /\ S(u)' = idle[k] /\ k \in DOMAIN idle
    BY <1>3, <1>4, <1>10, <1>12, Zenon DEF Holds, S
  <2>2. se[idle[k]].made /\ \A v \in Users : Holds(v) => S(v) # idle[k]
    BY <2>1, Zenon DEF PoolInv
  <2> QED BY <1>4, <1>6, <1>9, <2>1, <2>2, Zenon
<1>13. \A i \in DOMAIN idle' : \E j \in DOMAIN idle : idle'[i] = idle[j]
  BY <1>4
<1> QED BY <1>5, <1>8, <1>9, <1>10, <1>11, <1>12, <1>13, UserGoesOnItsOwn, Zenon

\* The steps of a dial and of closing its stream, before the session is listed.
LEMMA UserKeepsPool ==
  ASSUME PoolInv, NEW u \in Users,
         \/ CreateStream(u) \/ DialFails(u) \/ OpenStream(u) \/ OpenStreamFails(u)
         \/ CloseFunc(u) \/ CloseFuncIdle(u) \/ returnToIdle(u)
  PROVE  PoolInv'
<1>0. PoolTypeOK /\ IsInjective(idle)
  BY Zenon DEF PoolInv
<1>1. /\ us[u].open => us[u].pc = "use"
      /\ Holds(u) => /\ S(u) \in Sessions /\ se[S(u)].made
                     /\ \A v \in Users : v # u /\ Holds(v) => S(v) # S(u)
                     /\ \A i \in DOMAIN idle : idle[i] # S(u)
  BY Zenon DEF PoolInv
<1>2. /\ idle' = idle /\ \A v \in Users : v # u => us'[v] = us[v]
      /\ Holds(u)' => Holds(u) /\ S(u)' = S(u)
      /\ us'[u].open => us'[u].pc = "use"
      /\ us' \in [Users -> UserStates]
  <2>1. CASE CreateStream(u)
    BY <1>0, <1>1, <2>1, SMTT(30) DEF CreateStream, PoolTypeOK, UserStates, Places, Holds, S
  <2>2. CASE DialFails(u)
    BY <1>0, <1>1, <2>2, GotoFacts, Zenon DEF DialFails, Places, Holds
  <2>3. CASE OpenStream(u)
    BY <1>0, <1>1, <2>3 DEF OpenStream, PoolTypeOK, UserStates, Places, Holds, S
  <2>4. CASE OpenStreamFails(u)
    BY <1>0, <1>1, <2>4, GotoFacts, Zenon DEF OpenStreamFails, Places, Holds
  <2>5. CASE CloseFunc(u)
    BY <1>0, <1>1, <2>5 DEF CloseFunc, PoolTypeOK, UserStates, Places, Holds, S
  <2>6. CASE CloseFuncIdle(u)
    BY <1>0, <1>1, <2>6, GotoFacts, Zenon DEF CloseFuncIdle, Places, Holds
  <2>7. CASE returnToIdle(u)
    BY <1>0, <1>1, <2>7, GotoFacts DEF returnToIdle, Places, Holds
  <2> QED BY <2>1, <2>2, <2>3, <2>4, <2>5, <2>6, <2>7, Zenon
<1>3. /\ se' \in [Sessions -> SessionStates]
      /\ \A s \in Sessions : se'[s].made = se[s].made
  <2>1. CASE se' = se
    BY <1>0, <2>1 DEF PoolTypeOK
  <2>2. CASE Holds(u) /\ se' = [se EXCEPT ![S(u)] = Close(@)]
    BY <1>0, <1>1, <2>2, CloseFacts, Zenon DEF PoolTypeOK
  <2>3. CASE Holds(u) /\ se' = [se EXCEPT ![S(u)].inIdle = TRUE]
    <3>1. \A x \in SessionStates : /\ [x EXCEPT !.inIdle = TRUE] \in SessionStates
                                   /\ [x EXCEPT !.inIdle = TRUE].made = x.made
      BY Zenon DEF SessionStates
    <3>2. S(u) \in Sessions /\ se \in [Sessions -> SessionStates]
      BY <1>0, <1>1, <2>3 DEF PoolTypeOK
    <3> QED BY <2>3, <3>1, <3>2
  <2> QED BY <2>1, <2>2, <2>3 DEF CreateStream, DialFails, OpenStream, OpenStreamFails,
             CloseFunc, CloseFuncIdle, returnToIdle, Holds
<1>4. PoolTypeOK'
  BY <1>0, <1>2, <1>3 DEF PoolTypeOK
<1>5. IsInjective(idle') /\ \A i \in DOMAIN idle' : \E j \in DOMAIN idle : idle'[i] = idle[j]
  BY <1>0, <1>2, Zenon
<1>6. ASSUME Holds(u)'
      PROVE  /\ S(u)' \in Sessions /\ se'[S(u)'].made
             /\ \A v \in Users : v # u /\ Holds(v) => S(v) # S(u)'
             /\ \A i \in DOMAIN idle' : idle'[i] # S(u)'
  <2>1. Holds(u) /\ S(u)' = S(u) /\ idle' = idle
    BY <1>2, <1>6, Zenon
  <2> QED BY <1>1, <1>3, <2>1, Zenon
<1>7. /\ \A v \in Users : v # u => us'[v] = us[v]
      /\ us'[u].open => us'[u].pc = "use"
      /\ \A s \in Sessions : se[s].made => se'[s].made
  BY <1>2, <1>3, Zenon
<1> QED BY <1>4, <1>5, <1>6, <1>7, UserGoesOnItsOwn, Zenon

\* createSession hands out a session that nobody has, as it was not made before.
LEMMA CreateKeepsPool ==
  ASSUME PoolInv, NEW u \in Users, NEW s \in Sessions, createSession(u, s)
  PROVE  PoolInv'
<1>0. PoolTypeOK /\ IsInjective(idle)
  BY Zenon DEF PoolInv
<1>1. /\ ~se[s].made /\ se' = [se EXCEPT ![s].made = TRUE] /\ idle' = idle
      /\ us' = [us EXCEPT ![u].pc = "open", ![u].s = s] /\ us[u].pc = "dial"
  BY DEF createSession
<1>2. us' \in [Users -> UserStates] /\ S(u)' = s /\ us'[u].open = us[u].open
  <2>1. \A x \in UserStates : LET y == [x EXCEPT !.pc = "open", !.s = s] IN
          y \in UserStates /\ y.s = s /\ y.open = x.open
    BY Zenon DEF UserStates, Places
  <2>2. us \in [Users -> UserStates] /\ us'[u] = [us[u] EXCEPT !.pc = "open", !.s = s]
    BY <1>0, <1>1 DEF PoolTypeOK
  <2>3. us'[u] \in UserStates /\ us'[u].s = s /\ us'[u].open = us[u].open
    BY <2>1, <2>2, Zenon
  <2>4. us' = [us EXCEPT ![u] = us'[u]]
    BY <1>1, <2>2, Zenon
  <2> QED BY <2>2, <2>3, <2>4 DEF S
<1>3. \A v \in Users : v # u => us'[v] = us[v]
  BY <1>0, <1>1 DEF PoolTypeOK
<1>4. /\ se' \in [Sessions -> SessionStates] /\ se'[s].made
      /\ \A r \in Sessions : se[r].made => se'[r].made
  BY <1>0, <1>1, Zenon DEF PoolTypeOK, SessionStates
<1>5. \A i \in DOMAIN idle : idle[i] # s
  BY <1>1 DEF PoolInv
<1>6. \A v \in Users : Holds(v) => S(v) # s
  BY <1>1 DEF PoolInv
<1>7. ~us'[u].open
  BY <1>1, <1>2 DEF PoolInv
<1>8. PoolTypeOK'
  BY <1>0, <1>1, <1>2, <1>4 DEF PoolTypeOK
<1> QED BY <1>0, <1>1, <1>2, <1>3, <1>4, <1>5, <1>6, <1>7, <1>8, UserGoesOnItsOwn

\* returnToIdle lists the session and its user lets go of it.
LEMMA ListKeepsPool ==
  ASSUME PoolInv, NEW u \in Users, returnToIdleList(u)
  PROVE  PoolInv'
<1>0. PoolTypeOK /\ IsInjective(idle)
  BY Zenon DEF PoolInv
<1> DEFINE r == S(u)
           n == Len(idle)
<1>1. us[u].pc = "list" /\ idle' = Append(idle, r) /\ se' = se /\ Goto(u, "out")
  BY DEF returnToIdleList
<1>2. Holds(u)
  BY <1>1 DEF Holds
<1>3. /\ r \in Sessions /\ se[r].made /\ \A v \in Users : v # u /\ Holds(v) => S(v) # r
      /\ \A i \in DOMAIN idle : idle[i] # r
  BY <1>2, Zenon DEF PoolInv
<1>4. /\ us' \in [Users -> UserStates] /\ us'[u].pc = "out" /\ us'[u].open = us[u].open
      /\ \A v \in Users : v # u => us'[v] = us[v]
  BY <1>0, <1>1, GotoFacts, Zenon DEF Places
<1>5. \A v \in Users : Holds(v)' => v # u /\ Holds(v) /\ S(v)' = S(v)
  BY <1>4 DEF Holds, S
<1>6. ~us[u].open
  BY <1>1, Zenon DEF PoolInv
<1> HIDE DEF r, n
<1>7. /\ idle' \in Seq(Sessions) /\ DOMAIN idle' = 1 .. n + 1 /\ DOMAIN idle = 1 .. n /\ n \in Nat
      /\ idle'[n + 1] = r /\ \A i \in 1 .. n : idle'[i] = idle[i]
  BY <1>0, <1>1, <1>3, SMTT(30) DEF PoolTypeOK, n
<1>8. ASSUME NEW i \in DOMAIN idle'
      PROVE  (i \in DOMAIN idle /\ idle'[i] = idle[i]) \/ (i = n + 1 /\ idle'[i] = r)
  <2>1. i \in 1 .. n \/ i = n + 1
    BY <1>7
  <2>2. CASE i \in 1 .. n
    BY <1>7, <2>2, Zenon
  <2>3. CASE i = n + 1
    BY <1>7, <2>3
  <2> QED BY <2>1, <2>2, <2>3
<1>9. IsInjective(idle')
  <2>1. ASSUME NEW i \in DOMAIN idle', NEW j \in DOMAIN idle', idle'[i] = idle'[j] PROVE i = j
    BY <1>0, <1>3, <1>8, <2>1, Zenon DEF IsInjective
  <2> QED BY <2>1, Zenon DEF IsInjective
<1>10. \A i \in DOMAIN idle' :
         se'[idle'[i]].made /\ \A v \in Users : Holds(v)' => S(v)' # idle'[i]
  BY <1>1, <1>3, <1>5, <1>8, ZenonT(40) DEF PoolInv
<1>11. PoolTypeOK'
  BY <1>0, <1>1, <1>4, <1>7, Zenon DEF PoolTypeOK
<1>12. \A v \in Users : us'[v].open => us'[v].pc = "use"
  BY <1>4, <1>6, Zenon DEF PoolInv
<1>13. \A v \in Users : Holds(v)' => S(v)' \in Sessions /\ se'[S(v)'].made
  BY <1>1, <1>5, Zenon DEF PoolInv
<1>14. \A v, w \in Users : Holds(v)' /\ Holds(w)' /\ S(v)' = S(w)' => v = w
  BY <1>5, Zenon DEF PoolInv
<1> QED BY <1>9, <1>10, <1>11, <1>12, <1>13, <1>14, Zenon DEF PoolInv

\* idleCleanup keeps some of the list, in its order.
LEMMA CleanupKeepsPool ==
  ASSUME PoolInv, NEW n, idleCleanup(n)
  PROVE  PoolInv'
<1>0. PoolTypeOK /\ IsInjective(idle) /\ idle \in Seq(Sessions)
  BY Zenon DEF PoolInv, PoolTypeOK
<1>1. PICK gone :
        /\ KeepIdle({i \in DOMAIN idle : idle[i] \notin gone})
        /\ se' = [s \in Sessions |->
                    IF s \notin gone THEN se[s] ELSE Close([se[s] EXCEPT !.inIdle = FALSE])]
        /\ us' = us
  BY Zenon DEF idleCleanup
<1> DEFINE K == {i \in DOMAIN idle : idle[i] \notin gone}
<1>2. K \in SUBSET (1 .. Len(idle)) /\ KeepIdle(K)
  BY <1>0, <1>1
<1> HIDE DEF K
<1>4. /\ idle' \in Seq(Sessions) /\ IsInjective(idle')
      /\ \A i \in DOMAIN idle' : \E j \in DOMAIN idle : idle'[i] = idle[j]
  BY <1>0, <1>2, KeepFacts
<1>6. ASSUME NEW s \in Sessions PROVE se'[s] \in SessionStates /\ se'[s].made = se[s].made
  <2> DEFINE e == [se[s] EXCEPT !.inIdle = FALSE]
  <2>1. se[s] \in SessionStates /\ e \in SessionStates /\ e.made = se[s].made
    BY <1>0, Zenon DEF PoolTypeOK, SessionStates
  <2>2. se'[s] = IF s \notin gone THEN se[s] ELSE Close(e)
    BY <1>1
  <2> HIDE DEF e
  <2> QED BY <2>1, <2>2, CloseFacts
<1>7. PoolTypeOK'
  BY <1>0, <1>1, <1>4, <1>6 DEF PoolTypeOK
<1> QED BY <1>1, <1>4, <1>6, <1>7, SessionsGoOn, Zenon

\* Client.Close.
LEMMA CloseKeepsPool ==
  ASSUME PoolInv, ClientCancel \/ ClientClose
  PROVE  PoolInv'
<1>0. PoolTypeOK /\ IsInjective(idle)
  BY DEF PoolInv
<1>1. us' = us /\ idle' = idle
  BY DEF ClientCancel, ClientClose
<1>2. ASSUME NEW s \in Sessions PROVE se'[s] \in SessionStates /\ se'[s].made = se[s].made
  BY <1>0, CloseFacts DEF ClientCancel, ClientClose, PoolTypeOK
<1>3. se' \in [Sessions -> SessionStates]
  BY <1>0, <1>2 DEF ClientCancel, ClientClose, PoolTypeOK
<1>4. PoolTypeOK'
  BY <1>0, <1>1, <1>3 DEF PoolTypeOK
<1> QED BY <1>0, <1>1, <1>2, <1>4, SessionsGoOn

\* Every step of the pool.
LEMMA NextPoolInv == PoolInv /\ PoolNext => PoolInv'
<1> SUFFICES ASSUME PoolInv, PoolNext PROVE PoolInv'
  OBVIOUS
<1>1. ASSUME NEW u \in Users, CreateStream(u) \/ PoolUser(u) \/ CloseFunc(u) PROVE PoolInv'
  BY <1>1, GetKeepsPool, CreateKeepsPool, ListKeepsPool, UserKeepsPool DEF PoolUser
<1>2. ASSUME NEW s \in Sessions, DieHook(s) \/ SessionDies(s) PROVE PoolInv'
  BY <1>2, DeathKeepsPool
<1>3. ASSUME NEW n \in 0 .. Len(idle), idleCleanup(n) PROVE PoolInv'
  BY <1>3, CleanupKeepsPool
<1>4. CASE ClientCancel \/ ClientClose
  BY <1>4, CloseKeepsPool
<1> QED BY <1>1, <1>2, <1>3, <1>4 DEF PoolNext

\* The pool's invariant is about one use at a time.
LEMMA PoolInvExclusive == PoolInv => ExclusiveUse
<1> SUFFICES ASSUME PoolInv PROVE ExclusiveUse
  OBVIOUS
<1>1. ASSUME NEW s \in Sessions PROVE \A u, v \in Holders(s) : u = v
  BY Zenon DEF PoolInv, Holders, Holds
<1>2. ASSUME NEW s \in Sessions, s \in Range(idle) PROVE Holders(s) = {}
  <2>1. PICK i \in DOMAIN idle : idle[i] = s
    BY <1>2 DEF Range
  <2> QED BY <2>1, Zenon DEF PoolInv, Holders, Holds
<1> QED BY <1>1, <1>2, Zenon DEF ExclusiveUse, PoolInv

\* A session serves one stream user at a time: no two users hold it, none holds
\* it while it is in the idle list, and the list names it at most once
\* (CreateStream, CloseFunc, the die hook and idleCleanup in any order).
THEOREM SessionsAreExclusive == PoolSpec => []ExclusiveUse
<1>1. PoolInit => PoolInv
  BY InitPoolInv
<1>2. PoolInv /\ [PoolNext]_pool => PoolInv'
  <2> SUFFICES ASSUME PoolInv, [PoolNext]_pool PROVE PoolInv'
    OBVIOUS
  <2>1. CASE PoolNext
    BY <2>1, NextPoolInv
  <2>2. CASE UNCHANGED pool
    BY <2>2, Zenon DEF pool, PoolInv, PoolTypeOK, Holds, S
  <2> QED BY <2>1, <2>2
<1> QED BY <1>1, <1>2, PoolInvExclusive, PTL DEF PoolSpec
=============================================================================
