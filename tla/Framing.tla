------------------------------- MODULE Framing -------------------------------
(***************************************************************************)
(* The stream codecs: what the protocols make of the bytes of a connection *)
(* when they write, and how they get them back from fragments of any size  *)
(* into buffers of any size.  The wire carries cells: a header h with a    *)
(* length, a datum d, an authenticator t, padding p, a preamble x (a salt, *)
(* a handshake, a response header).  A cell's key is what it was encrypted *)
(* or masked under.  Bytes are the numbers 1, 2, ... in the order written. *)
(***************************************************************************)
EXTENDS Integers, Sequences, SequencesExt, FiniteSetsExt

CONSTANTS
  CodecSet,      \* the codecs to choose from, each [kind, proto, obfs]
  Total,       \* bound: bytes written
  WriteSizes,  \* lengths of the buffers given to Write
  ReadSizes,   \* and to Read
  Chunk,       \* the most cells in a frame's body (chunkSize, maxPayload, blockSize)
  RecordLen,   \* the most cells in a record of tls12_ticket_auth
  PacketMax,   \* the length from which a packet of ssr is refused
  Units,       \* what TcpMss may leave auth_chain_a for a packet
  MaskLen,     \* length of a websocket mask
  CountMod     \* where the counters in nonces and packet ids go round

VARIABLES
  codec,
  sent,    \* bytes Write was given
  w,       \* the writer: first (nothing written yet), count (frames so far)
  wire,    \* cells on their way
  here,    \* how many of them have arrived
  r,       \* the reader: xs (preambles read), left, mask, count, acc, buf, bad
  got,     \* bytes Read has returned
  ssr      \* ShadowsocksR: the obfuscation's status, saver and calls of Write

vars == <<codec, sent, w, wire, here, r, got, ssr>>

Cell(t, v, k) == [t |-> t, v |-> v, k |-> k]
X == Cell("x", 0, 0)
Keyed(p, k) == [i \in DOMAIN p |-> Cell("d", p[i], k)]

\* p in pieces of at most max.
Cut(p, max) ==
  [i \in 1 .. (Len(p) + max - 1) \div max |->
     SubSeq(p, (i - 1) * max + 1, Min({i * max, Len(p)}))]

\* The ids of auth_chain_a do not go round: the one that says TcpMss comes back
\* after 2^32 packets only.
Mod == IF codec.proto = "chain_a" THEN Total + 1 ELSE CountMod

\* The counter of the i-th of the frames being written, step per frame.
Count(i, step) == (w.count + (i - 1) * step) % Mod

Preamble == IF w.first THEN <<X>> ELSE <<>>

-----------------------------------------------------------------------------
\* Write, by codec: the cells for p.

\* A length, not encrypted or authenticated, and the data.
chunkedWrite(p) ==
  FlattenSeq([i \in DOMAIN Cut(p, Chunk) |->
    LET q == Cut(p, Chunk)[i] IN
    <<Cell("h", Len(q), 0), Cell("h", Len(q), 0)>> \o Keyed(q, 0)])

\* Mutant: the overhead is left out of the length.
aeadWriteShort(p) ==
  FlattenSeq([i \in DOMAIN Cut(p, Chunk - 1) |->
    LET q == Cut(p, Chunk - 1)[i]
        k == Count(i, 1) IN
    <<Cell("h", Len(q), 0), Cell("h", Len(q), 0)>> \o Keyed(q, k) \o <<Cell("t", 0, k)>>])

\* The length counts the overhead, and so does the most a frame may hold.
aeadWrite(p) ==
  FlattenSeq([i \in DOMAIN Cut(p, Chunk - 1) |->
    LET q == Cut(p, Chunk - 1)[i]
        k == Count(i, 1) IN
    <<Cell("h", Len(q) + 1, 0), Cell("h", Len(q) + 1, 0)>> \o Keyed(q, k) \o <<Cell("t", 0, k)>>])

vmessWrite(p) == Preamble \o (IF codec.kind = "vmess" THEN chunkedWrite(p) ELSE aeadWrite(p))

increment(nonce) == (nonce + 1) % CountMod

\* A salt; then the length is sealed under one nonce and the data under the next.
shadowaeadInitWriter == Preamble
shadowaeadWrite(p) ==
  FlattenSeq([i \in DOMAIN Cut(p, Chunk) |->
    LET q == Cut(p, Chunk)[i]
        k == Count(i, 2)
        k1 == increment(k) IN
    <<Cell("h", Len(q), k), Cell("t", 0, k)>> \o Keyed(q, k1) \o <<Cell("t", 0, k1)>>])

\* An iv; then encrypted by position in the key stream.
shadowstreamInitWriter == Preamble
shadowstreamWrite(p) == [i \in DOMAIN p |-> Cell("d", p[i], Count(i, 1))]

\* One frame; its length takes two bytes, or four, or ten; a client masks.
frameWrite(p) ==
  LET n == Len(p)
      ext == IF n <= 1 THEN 0 ELSE IF n < 3 THEN 1 ELSE 2 IN
  <<Cell("h", IF ext = 0 THEN n ELSE 0, ext)>> \o [i \in 1 .. ext |-> Cell("e", n, 0)]
    \o (IF codec.obfs = "masked" THEN <<Cell("m", 0, 0)>> ELSE <<>>)
    \o [i \in DOMAIN p |-> Cell("d", p[i], IF codec.obfs = "masked" THEN (i - 1) % MaskLen ELSE 0)]

TLSRecord(q) == <<Cell("r", 0, 0), Cell("h", Len(q), 0)>> \o Keyed(q, 0)

\* The hello takes all there is, as a session ticket between its extensions.
tlsobfsHandshake(p) == <<X, Cell("h", Len(p), 0)>> \o Keyed(p, 0) \o <<Cell("p", 0, 0)>>

\* TLS records after the hello.
tlsobfsWrite(p) ==
  IF w.first THEN tlsobfsHandshake(p)
  ELSE FlattenSeq([i \in DOMAIN Cut(p, Chunk) |-> TLSRecord(Cut(p, Chunk)[i])])

\* Its server: a hello, and records from the first byte on.
tlsobfsServerWrite(p) ==
  Preamble \o FlattenSeq([i \in DOMAIN Cut(p, Chunk) |-> TLSRecord(Cut(p, Chunk)[i])])

\* A header once, and then the data as it is.
httpobfsWrite(p) == Preamble \o Keyed(p, 0)
vlessWrite(p) == Preamble \o Keyed(p, 0)

\* ShadowsocksR: each packet has its length, padding, the data and a check.
packData(p, k) ==
  <<Cell("h", Len(p) + 3, k), Cell("p", 0, 0)>> \o Keyed(p, 0) \o <<Cell("t", 0, k)>>

\* The first packet takes up to head bytes and authenticates the client.
PreEncrypt(p, head, block, step) ==
  LET n == IF w.first THEN Min({head, Len(p)}) ELSE 0
      rest == Cut(SubSeq(p, n + 1, Len(p)), block)
      packets == (IF n > 0 THEN <<SubSeq(p, 1, n)>> ELSE <<>>) \o rest IN
  FlattenSeq([i \in DOMAIN packets |-> packData(packets[i], Count(i, step))])

sha1v4PreEncrypt(p) == PreEncrypt(p, 1, Chunk, 0)
aes128PreEncrypt(p) == PreEncrypt(p, 2, Chunk, 1)
chainaPreEncrypt(p, unit) == PreEncrypt(p, 2, unit, 1)

Protocol(p, unit) ==
  IF codec.proto = "sha1_v4" THEN sha1v4PreEncrypt(p)
  ELSE IF codec.proto = "aes128" THEN aes128PreEncrypt(p)
  ELSE chainaPreEncrypt(p, unit)

\* An ssr server: packets; auth_chain_a's first one begins with the two bytes of
\* TcpMss.
ssrServerWrite(p) ==
  LET step == IF codec.proto = "sha1_v4" THEN 0 ELSE 1
      mss == IF codec.proto = "chain_a" /\ w.first THEN <<0, 0>> ELSE <<>>
      packets == Cut(p, Chunk) IN
  FlattenSeq([i \in DOMAIN packets |->
    packData((IF i = 1 THEN mss ELSE <<>>) \o packets[i], Count(i, step))])

Written(p, unit) ==
  CASE codec.kind \in {"vmess", "vmess-aead"} -> vmessWrite(p)
    [] codec.kind = "shadowaead" -> shadowaeadInitWriter \o shadowaeadWrite(p)
    [] codec.kind = "shadowstream" -> shadowstreamInitWriter \o shadowstreamWrite(p)
    [] codec.kind = "ws" -> frameWrite(p)
    [] codec.kind = "obfs-tls" -> tlsobfsWrite(p)
    [] codec.kind = "obfs-tls-down" -> tlsobfsServerWrite(p)
    [] codec.kind = "obfs-http" -> httpobfsWrite(p)
    [] codec.kind = "vless" -> vlessWrite(p)
    [] codec.kind = "ssr" -> Protocol(p, unit)
    [] codec.kind = "ssr-down" -> ssrServerWrite(p)

\* How far a Write moves the counter: by what is encrypted or authenticated.
Counted(cells) ==
  IF codec.proto = "sha1_v4" THEN 0
  ELSE Len(SelectSeq(cells, LAMBDA c : c.t = (IF codec.kind = "shadowstream" THEN "d" ELSE "t")))

=============================================================================
