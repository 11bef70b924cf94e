------------------------------- MODULE Codecs --------------------------------
(***************************************************************************)
(* One direction of a connection with a codec of Framing: one side calls   *)
(* Write, the network delivers, the other side, with the same code, calls  *)
(* Read.  The clients of ssr and of the tls obfuscation do not read what   *)
(* they write: a server, external, reads it, and what it writes is read by *)
(* the client ("down").  ShadowsocksR's obfuscations hold data back until  *)
(* the server has answered their greeting; the client's other goroutine,   *)
(* which reads, then writes what was held back, and nothing orders the     *)
(* two, nor their uses of a buffer that some protocols share.              *)
(***************************************************************************)
EXTENDS Framing

Goroutines == {"writer", "reader"}
Idle == [pc |-> "idle", cells |-> <<>>, seen |-> "", out |-> <<>>]

Init ==
  /\ codec \in CodecSet
  /\ sent = 0 /\ wire = <<>> /\ here = 0 /\ got = <<>>
  /\ w = [first |-> TRUE, count |-> 0]
  /\ r = [xs |-> 0, left |-> 0, mask |-> 0, count |-> 0, acc |-> <<>>, rec |-> <<>>,
          buf |-> <<>>, bad |-> FALSE]
  /\ ssr = [status |-> "new", saver |-> <<>>, reply |-> "none", overlap |-> FALSE,
            call |-> [g \in Goroutines |-> Idle]]

-----------------------------------------------------------------------------
\* Write.

\* The next n bytes are given to Write.
Given(n) == [i \in 1 .. n |-> sent + i]
Accepts(n, cells) ==
  /\ sent + n <= Total
  /\ sent' = sent + n
  /\ w' = [first |-> FALSE, count |-> (w.count + Counted(cells)) % Mod]

\* packData of tls12_ticket_auth: a record, of which there may be none to hold.
Record(cells) == <<Cell("r", Len(cells), 0)>> \o cells

\* What is long is cut.
Records(cells) ==
  IF Len(cells) <= RecordLen THEN Record(cells)
  ELSE FlattenSeq([i \in DOMAIN Cut(cells, RecordLen) |-> Record(Cut(cells, RecordLen)[i])])

\* The greeting of a server's obfuscation is over when data comes, but for
\* http_simple's.
ServerEncode(cells) ==
  IF codec.obfs = "tls12" THEN Records(cells)
  ELSE IF codec.obfs = "http" THEN Preamble \o cells ELSE cells

Write(n) ==
  LET cells == Written(Given(n), Chunk) IN
  /\ codec.kind # "ssr"
  /\ Accepts(n, cells)
  /\ wire' = wire \o (IF codec.kind = "ssr-down" THEN ServerEncode(cells) ELSE cells)
  /\ UNCHANGED <<codec, here, r, got, ssr>>

-----------------------------------------------------------------------------
\* Write of ssr: PreEncrypt, Encode and the write, with the reading goroutine
\* next to it.

Encoded(status, saver, out) == [status |-> status, saver |-> saver, out |-> out]

\* The obfuscations that hold data back until the server has answered.
HoldBack == {"tls12", "random"}

\* The hello first, with what is written saved as one record; until it is answered
\* the data is saved; the empty Write of the reader finishes the handshake and
\* sends what was saved.
tls12Encode(seen, cells) ==
  CASE seen = "raw" -> Encoded(ssr.status, ssr.saver, Records(cells))
    [] seen = "wait" /\ cells # <<>> -> Encoded(ssr.status, ssr.saver \o Records(cells), <<>>)
    [] seen = "wait" /\ cells = <<>> -> Encoded("raw", <<>>, <<X>> \o ssr.saver)
    [] seen = "new" -> Encoded("wait", ssr.saver \o Record(cells), <<X>>)

\* The same with random bytes for a hello, no finish and no records.
randomheadEncode(seen, cells) ==
  CASE seen = "raw" -> Encoded(ssr.status, ssr.saver, cells)
    [] seen = "wait" /\ cells # <<>> -> Encoded("wait", ssr.saver \o cells, <<>>)
    [] seen = "wait" /\ cells = <<>> -> Encoded("raw", <<>>, ssr.saver)
    [] seen = "new" -> Encoded("wait", cells, <<X>>)

\* http_simple: a request first, which is not answered before data may follow.
httpsimpleEncode(seen, cells) ==
  Encoded("raw", <<>>, (IF seen = "new" THEN <<X>> ELSE <<>>) \o cells)

\* plain.
plainEncode(cells) == Encoded("raw", <<>>, cells)

\* A call of Write by g comes to Encode, which looks at the status.
Calls(g, cells) ==
  [ssr EXCEPT !.call[g] = [pc |-> "encode", cells |-> cells, seen |-> ssr.status, out |-> <<>>],
              !.overlap = @ \/ \E o \in Goroutines \ {g} : ssr.call[o].pc # "idle"]

preWrite(n) ==
  /\ codec.kind = "ssr" /\ ssr.call["writer"].pc = "idle"
  /\ \E unit \in IF codec.proto = "chain_a" THEN Units ELSE {Chunk} :
       LET cells == Written(Given(n), unit) IN Accepts(n, cells) /\ ssr' = Calls("writer", cells)
  /\ UNCHANGED <<codec, wire, here, r, got>>

\* The protocols whose PreEncrypt returns a buffer that PostDecrypt resets.
SharedBuffer == {"sha1_v4", "chain_a"}

\* The reading goroutine comes to PostDecrypt before the packets are encrypted.
PostDecryptMeets ==
  /\ codec.proto \in SharedBuffer /\ ssr.call["writer"].pc = "encode"
  /\ ssr.call["writer"].cells # <<>> /\ ssr.status = "raw" /\ ~ssr.overlap
  /\ ssr' = [ssr EXCEPT !.overlap = TRUE,
                        !.call["writer"].cells = [i \in DOMAIN @ |-> Cell("p", 0, 0)]]
  /\ UNCHANGED <<codec, sent, w, wire, here, r, got>>

\* Mutant: the answer of the server is dropped.
needSendBackOmitted ==
  /\ ssr.reply = "due"
  /\ ssr' = [ssr EXCEPT !.reply = "done"]
  /\ UNCHANGED <<codec, sent, w, wire, here, r, got>>

\* doRead decodes the server's answer: it calls Write(nil).
needSendBack ==
  /\ ssr.reply = "due"
  /\ ssr' = [Calls("reader", <<>>) EXCEPT !.reply = "done"]
  /\ UNCHANGED <<codec, sent, w, wire, here, r, got>>

Encode(g) ==
  LET c == ssr.call[g]
      e == CASE codec.obfs = "tls12" -> tls12Encode(c.seen, c.cells)
             [] codec.obfs = "random" -> randomheadEncode(c.seen, c.cells)
             [] codec.obfs = "http" -> httpsimpleEncode(c.seen, c.cells)
             [] codec.obfs = "" -> plainEncode(c.cells) IN
  /\ c.pc = "encode"
  /\ ssr' = [ssr EXCEPT !.status = e.status, !.saver = e.saver,
                        !.call[g].pc = "write", !.call[g].out = e.out]
  /\ UNCHANGED <<codec, sent, w, wire, here, r, got>>

ConnWrite(g) ==
  /\ ssr.call[g].pc = "write"
  /\ wire' = wire \o ssr.call[g].out
  /\ ssr' = [ssr EXCEPT !.call[g] = Idle]
  /\ UNCHANGED <<codec, sent, w, here, r, got>>

-----------------------------------------------------------------------------
\* The network delivers in order, in fragments of any size.
Arrive ==
  /\ here < Len(wire)
  /\ here' = here + 1
  /\ UNCHANGED <<codec, sent, w, wire, r, got, ssr>>

-----------------------------------------------------------------------------
\* Read.

Is(kind) == codec.kind = kind /\ ~r.bad
Cells(n) == SubSeq(wire, 1, n)
Take(n) == wire' = SubSeq(wire, n + 1, Len(wire)) /\ here' = here - n
Values(cells) == [i \in DOMAIN cells |-> cells[i].v]
All(cells, t, k) == \A i \in DOMAIN cells : cells[i].t = t /\ cells[i].k = k

\* What comes before the data: a salt, a response header, a hello.
Greeted(kind) ==
  /\ Is(kind) /\ here > 0 /\ wire[1].t = "x"
  /\ Take(1)
  /\ r' = [r EXCEPT !.xs = @ + 1]
  /\ UNCHANGED <<codec, sent, w, got, ssr>>

DecodeRespHeader == Greeted("vmess") \/ Greeted("vmess-aead")
shadowaeadInitReader == Greeted("shadowaead")
shadowstreamInitReader == Greeted("shadowstream")
vlessRcved == Greeted("vless")
httpobfsHeader == Greeted("obfs-http")
tlsobfsHello == Greeted("obfs-tls-down")
httpsimpleDecode == Greeted("ssr-down")

\* The servers of ssr answer the first greeting of those that wait for it.
ssrServerGreeted ==
  /\ Is("ssr") /\ here > 0 /\ wire[1].t = "x"
  /\ Take(1)
  /\ r' = [r EXCEPT !.xs = @ + 1]
  /\ ssr' = IF codec.obfs \in HoldBack /\ r.xs = 0 THEN [ssr EXCEPT !.reply = "due"] ELSE ssr
  /\ UNCHANGED <<codec, sent, w, got>>

\* n cells of data, which must be under the keys the reader has come to.
Return(n, sound, next) ==
  /\ Take(n)
  /\ got' = IF sound THEN got \o Values(Cells(n)) ELSE got
  /\ r' = [next EXCEPT !.bad = ~sound]
  /\ UNCHANGED <<codec, sent, w, ssr>>

\* A header of n cells says how much is left; no Write leaves an empty frame.
Header(n, t, left) ==
  /\ here >= n
  /\ Take(n)
  /\ r' = [r EXCEPT !.left = left, !.mask = 0, !.bad = wire[1].t # t \/ left = 0]
  /\ UNCHANGED <<codec, sent, w, got, ssr>>

\* As much as there is of the frame, the buffer allowing.
chunkedRead(size) ==
  /\ Is("vmess") /\ r.xs = 1
  /\ \/ r.left = 0 /\ here >= 2 /\ Header(2, "h", wire[1].v)
     \/ /\ r.left > 0 /\ here > 0
        /\ LET n == Min({size, r.left, here}) IN
           Return(n, All(Cells(n), "d", 0), [r EXCEPT !.left = @ - n])

tlsobfsRead(size) ==
  /\ Is("obfs-tls-down") /\ r.xs = 1
  /\ \/ r.left = 0 /\ here >= 2 /\ Header(2, "r", wire[2].v)
     \/ /\ r.left > 0 /\ here > 0
        /\ LET n == Min({size, r.left, here}) IN
           Return(n, All(Cells(n), "d", 0), [r EXCEPT !.left = @ - n])

\* The header, the longer length and the mask; then exactly as much as the
\* buffer and the frame allow, the mask going on where the last Read stopped.
frameRead(size) ==
  /\ Is("ws")
  /\ \/ /\ r.left = 0 /\ here > 0
        /\ LET ext == wire[1].k
               n == 1 + ext + (IF codec.obfs = "masked" THEN 1 ELSE 0) IN
           here >= n /\ Header(n, "h", IF ext = 0 THEN wire[1].v ELSE wire[2].v)
     \/ /\ r.left > 0 /\ here >= Min({size, r.left})
        /\ LET n == Min({size, r.left}) IN
           Return(n, \A i \in 1 .. n : wire[i].t = "d"
                       /\ wire[i].k = (IF codec.obfs = "masked" THEN (i - 1 + r.mask) % MaskLen ELSE 0),
                  [r EXCEPT !.left = @ - n, !.mask = (@ + n) % MaskLen])

\* By position in the key stream.
shadowstreamRead(size) ==
  /\ Is("shadowstream") /\ r.xs = 1 /\ here > 0
  /\ LET n == Min({size, here}) IN
       Return(n, \A i \in 1 .. n : wire[i].k = (r.count + i - 1) % CountMod,
              [r EXCEPT !.count = (@ + n) % CountMod])

\* Nothing but a header before the data.
vlessRead(size) ==
  /\ Is("vless") /\ r.xs = 1 /\ here > 0
  /\ LET n == Min({size, here}) IN Return(n, All(Cells(n), "d", 0), r)

httpobfsRead(size) ==
  /\ Is("obfs-http") /\ r.xs = 1 /\ here > 0
  /\ LET n == Min({size, here}) IN Return(n, All(Cells(n), "d", 0), r)

-----------------------------------------------------------------------------
\* Readers that decrypt whole frames and keep what the buffer does not hold.

\* What was kept is returned first.
FromBuf(size) ==
  /\ r.buf # <<>> /\ ~r.bad
  /\ LET n == Min({size, Len(r.buf)}) IN
       /\ got' = got \o SubSeq(r.buf, 1, n)
       /\ r' = [r EXCEPT !.buf = SubSeq(@, n + 1, Len(@))]
  /\ UNCHANGED <<codec, sent, w, wire, here, ssr>>

\* data comes out of n cells read.
Opened(n, data, sound, size, next) ==
  LET k == Min({size, Len(data)}) IN
  /\ here >= n /\ Take(n)
  /\ got' = IF sound THEN got \o SubSeq(data, 1, k) ELSE got
  /\ r' = [next EXCEPT !.buf = IF sound THEN SubSeq(data, k + 1, Len(data)) ELSE <<>>, !.bad = ~sound]
  /\ UNCHANGED <<codec, sent, w>>

\* read of vmess: the size, which counts the overhead, and the sealed data.
aeadRead(size) ==
  /\ Is("vmess-aead") /\ r.xs = 1 /\ r.buf = <<>> /\ here >= 2
  /\ LET s == wire[1].v
         fits == s > 1 /\ s <= Max({size, Chunk}) IN
     Opened(IF fits THEN 2 + s ELSE 2, Values(SubSeq(wire, 3, 1 + s)),
            fits /\ All(SubSeq(wire, 3, 1 + s), "d", r.count) /\ wire[2 + s] = Cell("t", 0, r.count),
            size, [r EXCEPT !.count = (@ + 1) % CountMod])
  /\ UNCHANGED ssr

\* read of shadowaead: the sealed size and, under the next nonce, the data.
shadowaeadRead(size) ==
  /\ Is("shadowaead") /\ r.xs = 1 /\ r.buf = <<>> /\ here >= 2
  /\ LET s == wire[1].v
         k1 == increment(r.count)
         opens == wire[1] = Cell("h", s, r.count) /\ wire[2] = Cell("t", 0, r.count) IN
     Opened(IF opens THEN 3 + s ELSE 2, Values(SubSeq(wire, 3, 2 + s)),
            opens /\ All(SubSeq(wire, 3, 2 + s), "d", k1) /\ wire[3 + s] = Cell("t", 0, k1),
            size, [r EXCEPT !.count = increment(k1)])
  /\ UNCHANGED ssr

-----------------------------------------------------------------------------
\* ShadowsocksR takes what there is, and out of all it has the whole packets.

Packets(count, data, rest, bad) == [count |-> count, data |-> data, rest |-> rest, bad |-> bad]

\* The records that are whole; what is not is kept for the next call.
RECURSIVE tls12Decode(_, _)
tls12Decode(cells, out) ==
  IF Len(cells) <= 1 \/ Len(cells) < 1 + cells[1].v THEN Packets(0, out, cells, FALSE)
  ELSE IF cells[1].t # "r" THEN Packets(0, out, <<>>, TRUE)
  ELSE tls12Decode(SubSeq(cells, cells[1].v + 2, Len(cells)), out \o SubSeq(cells, 2, cells[1].v + 1))

\* A packet's length is checked as soon as it is there, or only with the packet.
RECURSIVE sha1v4PostDecrypt(_, _)
sha1v4PostDecrypt(p, out) ==
  IF p = <<>> THEN Packets(0, out, p, FALSE)
  ELSE IF p[1].t # "h" \/ p[1].v >= PacketMax THEN Packets(0, <<>>, <<>>, TRUE)
  ELSE IF p[1].v > Len(p) THEN Packets(0, out, p, FALSE)
  ELSE IF p[p[1].v].t # "t" THEN Packets(0, <<>>, <<>>, TRUE)
  ELSE sha1v4PostDecrypt(SubSeq(p, p[1].v + 1, Len(p)), out \o Values(SubSeq(p, 3, p[1].v - 1)))

RECURSIVE aes128PostDecrypt(_, _, _)
aes128PostDecrypt(p, recvID, out) ==
  IF p = <<>> THEN Packets(recvID, out, p, FALSE)
  ELSE IF p[1].t # "h" \/ p[1].k # recvID \/ p[1].v >= PacketMax
  THEN Packets(recvID, <<>>, <<>>, TRUE)
  ELSE IF p[1].v > Len(p) THEN Packets(recvID, out, p, FALSE)
  ELSE aes128PostDecrypt(SubSeq(p, p[1].v + 1, Len(p)), (recvID + 1) % CountMod,
                         out \o Values(SubSeq(p, 3, p[1].v - 1)))

\* The length is hidden by the hash of the packet before; the first packet's data
\* begins with TcpMss, which is taken from the front of all that was decrypted.
RECURSIVE chainaPostDecrypt(_, _, _)
chainaPostDecrypt(p, recvID, out) ==
  IF p = <<>> THEN Packets(recvID, out, p, FALSE)
  ELSE IF p[1].v >= PacketMax THEN Packets(recvID, <<>>, <<>>, TRUE)
  ELSE IF p[1].v > Len(p) THEN Packets(recvID, out, p, FALSE)
  ELSE IF p[1].k # recvID \/ p[p[1].v] # Cell("t", 0, recvID) THEN Packets(recvID, <<>>, <<>>, TRUE)
  ELSE LET all == out \o Values(SubSeq(p, 3, p[1].v - 1)) IN
       chainaPostDecrypt(SubSeq(p, p[1].v + 1, Len(p)), (recvID + 1) % Mod,
                         IF recvID = 0 THEN SubSeq(all, 3, Len(all)) ELSE all)

PostDecrypt(p) ==
  CASE codec.proto = "sha1_v4" -> sha1v4PostDecrypt(p, <<>>)
    [] codec.proto = "aes128" -> aes128PostDecrypt(p, r.count, <<>>)
    [] codec.proto = "chain_a" -> chainaPostDecrypt(p, r.count, <<>>)

Decoded == IF codec.obfs = "tls12" THEN tls12Decode(r.rec \o Cells(here), <<>>)
           ELSE Packets(0, Cells(here), <<>>, FALSE)

\* meets: the writing goroutine comes to PreEncrypt before what PostDecrypt
\* returned is copied.
doRead(size) ==
  /\ Is("ssr-down") /\ r.buf = <<>> /\ here > 0
  /\ \A i \in 1 .. here : wire[i].t # "x"
  /\ \E decoded \in {Decoded} : \E post \in {PostDecrypt(r.acc \o decoded.data)} :
     \E meets \in {FALSE} \cup {codec.proto \in SharedBuffer /\ post.data # <<>>} :
       /\ Opened(here, IF meets THEN [i \in DOMAIN post.data |-> 0] ELSE post.data,
                 ~decoded.bad /\ ~post.bad, size,
                 [r EXCEPT !.rec = decoded.rest, !.acc = post.rest, !.count = post.count])
       /\ ssr' = [ssr EXCEPT !.overlap = @ \/ meets]

\* A server takes the records apart and then the packets.
RECURSIVE Unpacked(_, _, _)
Unpacked(p, id, out) ==
  IF p = <<>> THEN Packets(id, out, p, FALSE)
  ELSE IF p[1].t # "h" \/ p[1].k # id THEN Packets(id, <<>>, <<>>, TRUE)
  ELSE IF p[1].v > Len(p) THEN Packets(id, out, p, FALSE)
  ELSE Unpacked(SubSeq(p, p[1].v + 1, Len(p)),
                IF codec.proto = "sha1_v4" THEN id ELSE (id + 1) % Mod,
                out \o Values(SubSeq(p, 3, p[1].v - 1)))

ssrServerRead(size) ==
  /\ Is("ssr") /\ r.buf = <<>> /\ here > 0
  /\ \A i \in 1 .. here : wire[i].t # "x"
  /\ \E decoded \in {Decoded} : \E post \in {Unpacked(r.acc \o decoded.data, r.count, <<>>)} :
     Opened(here, post.data, ~decoded.bad /\ ~post.bad, size,
            [r EXCEPT !.rec = decoded.rest, !.acc = post.rest, !.count = post.count])
  /\ UNCHANGED ssr

\* A server of the tls obfuscation takes the ticket out of the hello, and records.
tlsobfsServerRead(size) ==
  /\ Is("obfs-tls") /\ r.buf = <<>> /\ here >= 2
  /\ LET n == wire[2].v
         hello == r.xs = 0 IN
     Opened(IF hello THEN n + 3 ELSE n + 2, Values(SubSeq(wire, 3, n + 2)),
            IF hello THEN wire[1] = X /\ wire[n + 3].t = "p" ELSE wire[1].t = "r",
            size, [r EXCEPT !.xs = 1])
  /\ UNCHANGED ssr

-----------------------------------------------------------------------------
Greetings ==
  \/ DecodeRespHeader \/ shadowaeadInitReader \/ shadowstreamInitReader \/ vlessRcved
  \/ httpobfsHeader \/ tlsobfsHello \/ httpsimpleDecode \/ ssrServerGreeted

Read(size) ==
  \/ chunkedRead(size) \/ tlsobfsRead(size) \/ frameRead(size) \/ shadowstreamRead(size)
  \/ vlessRead(size) \/ httpobfsRead(size) \/ FromBuf(size) \/ aeadRead(size)
  \/ shadowaeadRead(size) \/ doRead(size) \/ ssrServerRead(size) \/ tlsobfsServerRead(size)

Next ==
  \/ \E n \in WriteSizes : Write(n) \/ preWrite(n)
  \/ needSendBack \/ PostDecryptMeets
  \/ \E g \in Goroutines : Encode(g) \/ ConnWrite(g)
  \/ Arrive
  \/ Greetings
  \/ \E size \in ReadSizes : Read(size)

\* The network delivers, the reader reads on, a Write that has begun goes on.
Fairness ==
  /\ WF_vars(Arrive)
  /\ WF_vars(Greetings \/ \E size \in ReadSizes : Read(size))
  /\ WF_vars(needSendBack)
  /\ \A g \in Goroutines : WF_vars(Encode(g) \/ ConnWrite(g))

Spec == Init /\ [][Next]_vars /\ Fairness

-----------------------------------------------------------------------------
\* However the bytes are cut into writes, fragments and buffers, the reader
\* returns them as they were written, in order, and decrypts every frame under
\* the key it was sealed with (the counters and offsets of aead.go, stream.go,
\* frame.go and the packet ids of ssr); for ssr, as long as its reading goroutine
\* has not met a Write of the other, in Encode or in a buffer both use.
ReadsWritten ==
  ~ssr.overlap => ~r.bad /\ IsPrefix(got \o r.buf, [i \in 1 .. sent |-> i])

\* Everything written is read in the end: no codec waits for more than the frame
\* it is in, and what tls12_ticket_auth and random_head held back is sent once
\* the server has answered.
AllArrives == <>[](ssr.overlap \/ Len(got) = sent)

\* Not so where the two goroutines of ssr meet: nothing orders Encode and the
\* write of what it returns, or PreEncrypt and PostDecrypt (CodecsOverlap.cfg).
OverlapIsHarmless == ~r.bad /\ IsPrefix(got \o r.buf, [i \in 1 .. sent |-> i])

=============================================================================
