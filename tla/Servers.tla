------------------------------- MODULE Servers -------------------------------
(***************************************************************************)
(* The TCP servers: what becomes of one accepted connection, through the   *)
(* layers of a listener (transports such as tls or ws around a proxy such  *)
(* as http or socks5, or a bare tunnel), the dial, the relay and the       *)
(* failures charged to the forwarder.                                      *)
(***************************************************************************)
EXTENDS Dialers

VARIABLES
  layers,   \* the server layers still to be entered
  via,      \* what the server does once it has dialled
  charges,  \* failures charged to the forwarder
  defers    \* the sides whose Close is deferred, the last one runs first

vars == <<conn, copy, pc, load, target, dial, layers, via, charges, defers>>
outside == <<load, target, dial, layers, via, charges>>

\* The client will send a request for each layer that reads one, and its data.
Reads == {"ws", "pxyproto", "http", "socks5", "ss", "trojan", "vless", "mixed"}
Requests(ls) == [j \in 1 .. Cardinality({i \in DOMAIN ls : ls[i] \in Reads}) |-> "h"]

\* What is configured.  Proxies are innermost; the layers of a chain that ask their
\* server for an address are the ones another server follows; a tunnel's chain
\* ends where its server does, so it needs one, without a proxy (an ss or ssr
\* fails there); through ws peers wait their turn; and the errors of smux and kcp
\* show no address.
Transports == {"tcp", "tls", "unix", "vsock", "kcp", "smux", "ws"}
Proxies == {"mixed", "http", "socks5", "ss", "trojan", "vless", "redir"}

Configured(l) ==
  LET n == Len(l.layers)
      m == Len(l.chain) IN
  /\ n > 0 /\ l.layers[n] \in Transports \cup Proxies
  /\ \A i \in 1 .. n - 1 : l.layers[i] \in Transports \cup {"pxyproto"}
  /\ m > 0 => l.chain[1].addr # ""
  /\ \A i \in 2 .. m : /\ l.chain[i].addr # "" <=> l.chain[i - 1].kind \in Asks
                       /\ l.chain[i].kind \notin Outrights
  /\ IF l.layers[n] \in Transports THEN m > 0 /\ l.chain[m].kind \notin Asks \ {"ss", "ssr"}
                                  ELSE m > 0 => l.chain[m].kind \in Asks
  /\ l.eager => /\ \A i \in 1 .. n : l.layers[i] # "ws"
                /\ \A i \in 1 .. m : l.chain[i].kind # "ws"
  /\ l.shown => Timer(l.layers) = "os"

ASSUME LoadAssumption ==
  /\ Target \in STRING \ {""} /\ Cap \in Nat
  /\ \A l \in Loads :
       /\ l \in [layers : Seq(STRING), chain : Seq([kind : STRING, addr : STRING]),
                 sends : Seq(STRING \ {"h"}), says : Seq(STRING \ {"h"}), eager : BOOLEAN,
                 shown : BOOLEAN, fallback : BOOLEAN, session : BOOLEAN]
       /\ Configured(l)

Init ==
  /\ load \in Loads
  /\ layers = load.layers
  /\ conn = [s \in Sides |-> NewConn("none", <<>>, "os")]
  /\ copy = [s \in Sides |-> NewCopy]
  /\ pc = "listen" /\ via = "none" /\ target = "" /\ charges = 0 /\ defers = <<>>
  /\ dial = [dir |-> "none", k |-> 0, asked |-> <<>>, session |-> load.session]

-----------------------------------------------------------------------------
\* ListenAndServe of the outermost layer: the accept loop has a connection and
\* runs Serve in a goroutine.

Listens(kind) ==
  /\ pc = "listen" /\ Head(layers) = kind
  /\ pc' = "serve"
  /\ conn' = [conn EXCEPT !["l"] = NewConn("open", Requests(layers) \o load.sends, Timer(layers))]
  /\ UNCHANGED <<copy, defers, outside>>

tcpListen == Listens("tcp")
tlsListen == Listens("tls")
unixListen == Listens("unix")
vsockListen == Listens("vsock")
kcpListen == Listens("kcp")
smuxListen == Listens("smux")
wsListen == Listens("ws")
pxyprotoListen == Listens("pxyproto")
mixedListen == Listens("mixed")
httpListen == Listens("http")
socks5Listen == Listens("socks5")
ssListen == Listens("ss")
trojanListen == Listens("trojan")
vlessListen == Listens("vless")
redirListen == Listens("redir")

Listen ==
  \/ tcpListen \/ tlsListen \/ unixListen \/ vsockListen \/ kcpListen \/ smuxListen
  \/ wsListen \/ pxyprotoListen \/ mixedListen \/ httpListen \/ socks5Listen
  \/ ssListen \/ trojanListen \/ vlessListen \/ redirListen

-----------------------------------------------------------------------------
\* Serve, layer by layer.

Serves(kind) == pc = "serve" /\ layers # <<>> /\ Head(layers) = kind

\* From here on the Close of the accepted connection is deferred.
Defers == defers' = <<"l">>

Dials(addr, how) ==
  /\ Defers
  /\ pc' = "dial" /\ target' = addr /\ via' = how
  /\ dial' = [dial EXCEPT !.dir = "down", !.k = Len(Chain)]
  /\ UNCHANGED <<copy, load, layers, charges>>

Leaves(to) == Defers /\ pc' = to /\ UNCHANGED <<copy, outside>>

\* The connection is closed at once: its Close is not deferred yet.
Refuses ==
  /\ conn' = [conn EXCEPT !["l"].state = "closed"]
  /\ pc' = "done"
  /\ UNCHANGED <<copy, defers, outside>>

\* The connection goes to the server inside, which is to close it; without one it
\* is a tunnel.
Inside == layers' = Tail(layers) /\ UNCHANGED <<copy, pc, load, target, dial, via, charges, defers>>
Passes == IF Len(layers) > 1 THEN Inside ELSE Dials("", "tunnel")

\* A transport without bytes of its own in Serve (tls shakes hands at the first
\* read).
Transport(kind) == Serves(kind) /\ Passes /\ UNCHANGED conn

tcpServe == Transport("tcp")
tlsServe == Transport("tls")
unixServe == Transport("unix")
vsockServe == Transport("vsock")
kcpServe == Transport("kcp")
smuxServe == Transport("smux")

\* One request read from the client; drops: through a buffer that is thrown away.
Arrived == conn["l"].in # <<>> /\ conn["l"].dl = "none"
Gone == conn["l"].in = <<>> /\ conn["l"].fin # "no"
Read(drops) == conn' = [conn EXCEPT !["l"].in = IF drops THEN <<>> ELSE Tail(@)]

\* What reading a request comes to, by protocol.
Handshake == BOOLEAN
parseHeader == BOOLEAN
ReadAddr == BOOLEAN
parseRequest == {"connect", "plain", "error"}
handshake == {"connect", "associate", "error"}
readHeader == {"connect", "udp", "error"}

wsServe ==
  /\ Serves("ws")
  /\ \/ Arrived /\ \E ok \in Handshake : IF ok THEN Read(TRUE) /\ Passes ELSE Refuses
     \/ Gone /\ Refuses

pxyprotoServe ==
  /\ Serves("pxyproto")
  /\ \/ Arrived /\ \E ok \in parseHeader : IF ok THEN Read(FALSE) /\ Inside ELSE Refuses
     \/ Gone /\ Refuses

\* The first byte tells which; no byte at all goes to http.
mixedServe ==
  /\ Serves("mixed")
  /\ \/ Arrived /\ \E k \in {"http", "socks5"} : layers' = <<k>>
     \/ Gone /\ layers' = <<"http">>
  /\ UNCHANGED <<conn, copy, pc, load, target, dial, via, charges, defers>>

\* CONNECT, a plain request, or one that is refused: it does not parse, the
\* credentials are wrong, or the server pretends to be another.
httpServe ==
  /\ Serves("http")
  /\ \/ Arrived /\ Read(FALSE) /\ \E how \in parseRequest :
          IF how = "error" THEN Leaves("close") ELSE Dials(Target, how)
     \/ Gone /\ Leaves("close") /\ UNCHANGED conn

\* CONNECT, UDP ASSOCIATE or a failed handshake.
socks5Serve ==
  /\ Serves("socks5")
  /\ \/ Arrived /\ Read(FALSE) /\ \E how \in handshake :
          IF how = "connect" THEN Dials(Target, how)
          ELSE Leaves(IF how = "associate" THEN "hold" ELSE "close")
     \/ Gone /\ Leaves("close") /\ UNCHANGED conn

\* The association lives until the client says something or leaves.
socks5Hold ==
  /\ pc = "hold" /\ (Arrived \/ Gone)
  /\ Leaves("close") /\ UNCHANGED conn

\* An address that cannot be read: what else comes is thrown away, to its end.
ssServe ==
  /\ Serves("ss")
  /\ \/ Arrived /\ Read(FALSE) /\ \E ok \in ReadAddr :
          IF ok THEN Dials(Target, "connect") ELSE Leaves("discard")
     \/ Gone /\ Leaves("discard") /\ UNCHANGED conn

ssDiscard ==
  /\ pc = "discard"
  /\ \/ Arrived /\ Read(FALSE) /\ UNCHANGED <<copy, pc, defers, outside>>
     \/ Gone /\ Leaves("close") /\ UNCHANGED conn

\* serveFallback: a request that is not understood goes to another server, with
\* the bytes that were read.
Fallback(how) ==
  IF load.fallback THEN Dials("fallback", how) ELSE Leaves("close")

\* CONNECT, UDP over TCP, served here when nothing is upstream, or an error.
Headed(kind) ==
  /\ Serves(kind)
  /\ \/ Arrived /\ Read(FALSE) /\ \E how \in readHeader :
          IF how = "error" THEN Fallback("fallback")
          ELSE IF how = "udp" /\ Chain = <<>> THEN Leaves("uot")
          ELSE Dials(Target, "connect")
     \/ Gone /\ Fallback("fallback-empty") /\ UNCHANGED conn

vlessServe == Headed("vless")

\* Or its TLS handshake fails.
trojanServe ==
  \/ Headed("trojan")
  \/ Serves("trojan") /\ (Arrived \/ Gone) /\ Refuses

\* ServeUoT: until the datagrams time out or the client fails.
UoT(kind) ==
  /\ pc = "uot" /\ Head(layers) = kind
  /\ Leaves("close") /\ UNCHANGED conn

trojanServeUoT == UoT("trojan")
vlessServeUoT == UoT("vless")

\* The address the connection was made for; none, or the listener's own, is
\* refused, and so is a connection that is not plain TCP.
redirServe ==
  /\ Serves("redir")
  /\ \/ Dials(Target, "connect") /\ UNCHANGED conn
     \/ Leaves("close") /\ UNCHANGED conn

-----------------------------------------------------------------------------
\* After the dial.

\* Mutant: every server records what Forwarder.Dial has charged already.
DialChargesTwice == 2

\* Forwarder.Dial charges a failed dial; the tunnels record it once more.
DialCharges == IF via = "tunnel" THEN 2 ELSE 1

DialFailed ==
  /\ pc = "dial" /\ dial.dir = "failed"
  /\ charges' = charges + DialCharges
  /\ pc' = "close"
  /\ UNCHANGED <<conn, copy, load, target, dial, layers, via, defers>>

\* Mutant: the fallback does not get the bytes that were read.
HeadLost == <<>>

\* What is written to the new connection before the copies start: the plain
\* request, or headBuf.
Head1 == IF via \in {"plain", "fallback"} THEN <<"h">> ELSE <<>>

\* Mutant: the Close is deferred once the first bytes are written.
DefersAfterHead ==
  IF Head1 # <<>> /\ conn["r"].fin = "rst" THEN defers ELSE Append(defers, "r")

\* The Close of the new connection is deferred before anything is written to it.
DefersRemote == Append(defers, "r")

\* The copies start; servHTTP's for the body first peeks, which is its read.
DialDone ==
  /\ pc = "dial" /\ dial.dir = "ok"
  /\ defers' = DefersRemote
  /\ IF Head1 # <<>> /\ conn["r"].fin = "rst"
     THEN pc' = "close" /\ UNCHANGED <<conn, copy>>
     ELSE /\ pc' = IF via = "plain" THEN "plain" ELSE "relay"
          /\ conn' = [conn EXCEPT !["r"].out = Head1]
          /\ copy' = [s \in Sides |-> IF s = "l" /\ via = "plain"
                                      THEN [NewCopy EXCEPT !.pc = "peek"] ELSE Running]
  /\ UNCHANGED outside

\* What was written to the peer of s.
Written(s) == conn[s].got \o conn[s].out

\* servHTTP's goroutine: it copies when there is something to copy.
Peek ==
  /\ copy["l"].pc = "peek"
  /\ LET x == conn["l"] IN
     copy' = [copy EXCEPT !["l"].pc = IF x.state = "open" /\ x.in # <<>> THEN "read" ELSE "done"]
  /\ conn["l"].state # "open" \/ conn["l"].in # <<>> \/ conn["l"].fin # "no"
  /\ UNCHANGED <<conn, pc, defers, outside>>

\* Relay returns; "record remote conn failure only", told by the error's text: any
\* that does not show the server's address.
Relayed ==
  /\ pc = "relay" /\ RelayDone
  /\ charges' = IF via \notin {"fallback", "fallback-empty"}
                   /\ (RelayError \in {"r", "late"} \/ (RelayError = "l" /\ ~load.shown))
                THEN charges + 1 ELSE charges
  /\ pc' = "close"
  /\ UNCHANGED <<conn, copy, load, target, dial, layers, via, defers>>

\* servHTTP returns when the response has been copied, or does not parse.
PlainDone ==
  /\ pc = "plain"
  /\ \/ copy["r"].pc = "done" /\ UNCHANGED copy
     \/ /\ copy["r"].pc = "write" /\ Written("l") = <<>>
        /\ copy' = [copy EXCEPT !["r"].pc = "done", !["r"].hold = <<>>]
  /\ pc' = "close"
  /\ UNCHANGED <<conn, defers, outside>>

\* The deferred Close calls, one after the other.
Return ==
  /\ pc = "close"
  /\ IF defers = <<>>
     THEN pc' = "done" /\ UNCHANGED <<conn, defers>>
     ELSE /\ conn' = [conn EXCEPT ![Last(defers)].state = "closed"]
          /\ defers' = Front(defers)
          /\ UNCHANGED pc
  /\ UNCHANGED <<copy, outside>>

-----------------------------------------------------------------------------
Serve ==
  \/ tcpServe \/ tlsServe \/ unixServe \/ vsockServe \/ kcpServe \/ smuxServe \/ wsServe
  \/ pxyprotoServe \/ mixedServe \/ httpServe \/ socks5Serve \/ socks5Hold \/ ssServe
  \/ ssDiscard \/ trojanServe \/ vlessServe \/ trojanServeUoT \/ vlessServeUoT \/ redirServe
  \/ DialFailed \/ DialDone \/ Relayed \/ PlainDone \/ Return

Copies == \E s \in Sides : CopyRead(s) \/ CopyWrite(s) \/ CopyEnds(s)

\* Peers that do not speak before they are answered: a client waits for each
\* layer and a remote for a first item.
MaySpeak(s) ==
  \/ load.eager
  \/ s = "l" /\ (pc # "serve" \/ (conn[s].in = <<>> /\ Head(conn[s].plan) = "h"))
  \/ s = "r" /\ (conn[s].got # <<>> \/ Head(conn[s].plan) = "h")

Peers ==
  \E s \in Sides :
    \/ conn[s].plan # <<>> /\ MaySpeak(s) /\ PeerSends(s)
    \/ PeerEnds(s)

Next ==
  \/ Listen \/ Serve \/ Peek
  \/ DialStep /\ pc = "dial" /\ UNCHANGED <<layers, via, charges, defers>>
  \/ /\ Copies \/ Peers \/ \E s \in Sides : PeerTakes(s) \/ DeadlinePasses(s)
     /\ UNCHANGED <<defers, outside>>

\* Goroutines and timers go on; a peer takes what it is sent, or it has reset
\* the connection.
Fairness ==
  /\ WF_vars(Serve) /\ WF_vars(DialStep /\ pc = "dial" /\ UNCHANGED <<layers, via, charges, defers>>)
  /\ \A s \in Sides :
       /\ WF_vars((CopyRead(s) \/ CopyWrite(s) \/ CopyEnds(s)) /\ UNCHANGED <<defers, outside>>)
       /\ WF_vars((PeerTakes(s) \/ DeadlinePasses(s)) /\ UNCHANGED <<defers, outside>>)

Spec == Init /\ [][Next]_vars /\ Fairness

-----------------------------------------------------------------------------
\* Properties.

\* What the peer of s has said, requests and replies aside, and what of it the
\* other peer is to get.
All(s) == IF s = "l" THEN load.sends ELSE load.says
SaidOf(all, plan) == SubSeq(all, 1, Len(all) - IF Len(plan) < Len(all) THEN Len(plan) ELSE Len(all))
Said(s) == SaidOf(All(s), conn[s].plan)
Due(s) == (IF s = "l" /\ via \in {"plain", "fallback"} THEN <<"h">> ELSE <<>>) \o Said(s)

\* A peer gets what the other said, in order, from the first byte after the
\* handshakes on, with the bytes a fallback server is to see in front; and when
\* a copy ends without an error it has passed on everything (Copy, CopyBuffer,
\* serveFallback, the buffered readers of http, mixed and pxyproto).
Delivered ==
  \A s \in Sides :
    /\ \E n \in 0 .. Len(Due(s)) : Written(Far(s)) = SubSeq(Due(s), 1, n)
    /\ copy[s].pc = "done" /\ copy[s].err = "none" /\ pc \in {"relay", "close"}
         /\ via # "plain" /\ conn[Far(s)].fin # "rst" => Written(Far(s)) = Due(s)

\* When Serve has returned, by whichever of its paths, its connections are closed,
\* but for one a dialer abandoned in its handshake: each path has deferred the
\* Close of what it holds by then, or closes it itself; and no copy of a relay
\* still uses them or their pooled readers (the defer statements of the servers,
\* the WaitGroup of Relay).
LeavesNothing ==
  pc = "done" =>
    /\ conn["l"].state = "closed" /\ conn["r"].state # "open"
    /\ via # "plain" => \A s \in Sides : copy[s].pc \in {"idle", "done"}

\* A failure is charged as often as the comment on Forwarder.Dial says: a failed
\* dial once, by tunnels twice; a relay that failed on the remote side once; a
\* client's failure and a deadline that Relay set never, when a client's errors
\* show the server's address and neither side has a timeout error of its own.
ChargedAsStated ==
  pc = "done" /\ load.shown /\ (\A s \in Sides : conn[s].timer # "own") =>
    charges = IF dial.dir = "failed" THEN (IF Head(layers) \in {"http", "socks5", "ss", "trojan",
                                               "vless", "redir"} THEN 1 ELSE 2)
              ELSE IF copy["l"].err # "l" /\ "r" \in {copy[s].err : s \in Sides}
                      /\ via \in {"connect", "tunnel"} THEN 1 ELSE 0


-----------------------------------------------------------------------------
\* What does not hold, shown by the cfgs that are named.

\* ServersTimer.cfg: a relay that neither peer broke off charges nothing ("record
\* remote conn failure only").  The timeout of a smux or kcp connection is not
\* os.ErrDeadlineExceeded: Relay returns it, and it shows no address.
EndedIsFree ==
  pc = "done" /\ load.shown /\ dial.dir = "ok" /\ (\A s \in Sides : conn[s].fin # "rst")
    => charges = 0

\* ServersSsh.cfg: Serve returns once the client has ended.  A channel of ssh
\* ignores the deadline Relay sets, and the remote may say nothing for ever.
ClientEndReturns == conn["l"].fin # "no" ~> (pc \in {"done", "dial"} \/ via = "plain")

=============================================================================
