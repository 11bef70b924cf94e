------------------------------- MODULE Dialers -------------------------------
(***************************************************************************)
(* The dialers of the protocols under proxy/, chained the way             *)
(* rule/forward.go chains them.                                            *)
(* Dial calls go down the chain, each layer naming its own server to the   *)
(* one below, until a connection is opened; on the way up each layer makes *)
(* its handshake and asks its server for the address it was given.  The    *)
(* data of a handshake is one item, "h": a request or a reply.             *)
(***************************************************************************)
EXTENDS Relay

CONSTANTS
  Loads,    \* what a behaviour is configured with, see load
  Target    \* the address clients ask for

VARIABLES
  load,     \* [layers, chain, ...]: server layers, outermost first; the dialer
            \* chain, lowest first, of [kind, addr]; the other fields are read
            \* where they are used
  target,   \* what the server dials
  dial      \* [dir, k, asked, session]: going down or up, at which layer, the
            \* addresses asked for so far, and whether smux has a session

dialVars == <<load, target>>

Chain == load.chain

\* Mutant: every hop is asked for the target.
AddrForEveryHop(k) == IF k = 0 /\ Chain # <<>> THEN Chain[1].addr ELSE target

\* What the Dial of layer k is given: layer k + 1 names its own server, and the
\* last layer gets what the server dials.
AddrFor(k) == IF k = Len(Chain) THEN target ELSE Chain[k + 1].addr

\* The layers that ask their server for an address, and the ones without a layer below.
Asks == {"http", "socks4", "socks5", "ssh", "trojan", "ss", "ssr", "vless", "vmess"}
Outrights == {"unix", "kcp", "vsock"}

\* What the far end will send: a reply for each layer that waits for one, data.
Waits == {"http", "socks4", "socks5", "tls", "ws", "trojan", "ssh"}
RemotePlan(k) ==
  [j \in 1 .. Cardinality({i \in k + 1 .. Len(Chain) : Chain[i].kind \in Waits}) |-> "h"]
    \o load.says

Up(k) == IF k = Len(Chain) THEN "ok" ELSE "up"

\* A connection for the layers above k.
Open(k, asked) ==
  /\ conn' = [conn EXCEPT !["r"] = NewConn("open", RemotePlan(k),
                                            Timer([i \in DOMAIN Chain |-> Chain[i].kind]))]
  /\ dial' = [dial EXCEPT !.dir = Up(k), !.k = k + 1, !.asked = asked]
  /\ UNCHANGED <<copy, pc, dialVars>>

Fail(closes) ==
  /\ dial' = [dial EXCEPT !.dir = "failed"]
  /\ conn' = [conn EXCEPT !["r"].state = IF @ = "none" THEN @
                                         ELSE IF closes THEN "closed" ELSE "abandoned"]
  /\ UNCHANGED <<copy, pc, dialVars>>

-----------------------------------------------------------------------------
\* Down.

At(dir, kind) ==
  /\ dial.dir = dir /\ dial.k \in 1 .. Len(Chain)
  /\ Chain[dial.k].kind = kind

\* The layer calls the Dial below it.
Lower(kind) ==
  /\ At("down", kind)
  /\ dial' = [dial EXCEPT !.k = @ - 1]
  /\ UNCHANGED <<conn, copy, pc, dialVars>>

tcpDial == Lower("tcp")
httpDial == Lower("http")
socks4Dial == Lower("socks4")
socks5Dial == Lower("socks5")
tlsDial == Lower("tls")
trojanDial == Lower("trojan")
vlessDial == Lower("vless")
vmessDial == Lower("vmess")
wsDial == Lower("ws")
obfsDial == Lower("obfs")

\* An address that does not parse fails before the layer below is called.
LowerIfParsed(kind) ==
  At("down", kind) /\ IF AddrFor(dial.k) # "" THEN Lower(kind) ELSE Fail(TRUE)

ssDial == LowerIfParsed("ss")
ssrDial == LowerIfParsed("ssr")

\* The servers up to layer k.
HopsOf(c) ==
  LET hops[k \in Nat] == IF k = 0 THEN <<>>
                         ELSE IF c[k].addr = "" THEN hops[k - 1]
                         ELSE Append(hops[k - 1], c[k].addr)
  IN  hops
Hops(k) == HopsOf(Chain)[k]

\* A new stream of the session there is; if that fails the session is closed
\* and another one dialled.
smuxDial ==
  /\ At("down", "smux")
  /\ \/ dial.session /\ Open(dial.k, Hops(dial.k))
     \/ /\ dial' = [dial EXCEPT !.k = @ - 1, !.session = FALSE]
        /\ UNCHANGED <<conn, copy, pc, dialVars>>

\* The first Dial makes the connection, and later ones open a channel of it; none
\* while keepConn has not replaced one that failed.
sshDial ==
  \/ ~dial.session /\ Lower("ssh")
  \/ At("down", "ssh") /\ dial.session /\ (Open(dial.k - 1, Hops(dial.k)) \/ Fail(TRUE))

\* These do not use the layer below.
Outright(kind) ==
  /\ At("down", kind)
  /\ Open(dial.k, <<Chain[dial.k].addr>>) \/ Fail(TRUE)

unixDial == Outright("unix")
kcpDial == Outright("kcp")
vsockDial == Outright("vsock")

\* Direct.Dial, with any of the local addresses.
directDial ==
  /\ dial.dir = "down" /\ dial.k = 0
  /\ Open(0, <<AddrFor(0)>>) \/ Fail(TRUE)

-----------------------------------------------------------------------------
\* Up.

\* The handshake succeeded; a layer that asks, asks for what it was given.
Risen(asks) ==
  dial' = [dial EXCEPT !.dir = Up(dial.k), !.k = @ + 1,
                       !.asked = IF asks THEN Append(@, AddrFor(dial.k)) ELSE @]

\* A handshake with a reply.  A layer that reads it through a buffer it then
\* drops loses what came with it.
Shake(kind, asks, drops, closes) ==
  /\ At("up", kind)
  /\ \/ /\ conn["r"].in # <<>> /\ Head(conn["r"].in) = "h"
        /\ Risen(asks)
        /\ conn' = [conn EXCEPT !["r"].in = IF drops THEN <<>> ELSE Tail(@)]
        /\ UNCHANGED <<copy, pc, dialVars>>
     \/ conn["r"].in # <<>> /\ Fail(closes)
     \/ conn["r"].in = <<>> /\ conn["r"].fin # "no" /\ Fail(closes)

httpConnect == Shake("http", TRUE, FALSE, FALSE)
socks4Connect == Shake("socks4", TRUE, FALSE, TRUE)
socks5Connect == Shake("socks5", TRUE, FALSE, TRUE)
sshConnect == Shake("ssh", TRUE, FALSE, TRUE)
trojanHeader == Shake("trojan", TRUE, FALSE, FALSE)
tlsHandshake == Shake("tls", FALSE, FALSE, FALSE)
wsHandshake == Shake("ws", FALSE, TRUE, FALSE)

\* A request nobody answers before the data.
Request(kind, asks, closes) ==
  /\ At("up", kind)
  /\ \/ /\ conn["r"].fin # "rst"
        /\ Risen(asks)
        /\ UNCHANGED <<conn, copy, pc, dialVars>>
     \/ conn["r"].fin = "rst" /\ Fail(closes)

ssTarget == Request("ss", TRUE, TRUE)
ssrTarget == Request("ssr", TRUE, TRUE)
vlessHeader == Request("vless", TRUE, FALSE)
vmessRequest == Request("vmess", TRUE, FALSE)
obfsConn == Request("obfs", FALSE, FALSE)
smuxOpen == Request("smux", FALSE, FALSE)

\* The connection below, as it is.
tcpConn ==
  /\ At("up", "tcp")
  /\ Risen(FALSE) /\ UNCHANGED <<conn, copy, pc, dialVars>>

-----------------------------------------------------------------------------
DialStep ==
  \/ tcpDial \/ tcpConn \/ vsockDial \/ httpDial \/ socks4Dial \/ socks5Dial \/ tlsDial \/ trojanDial \/ vlessDial
  \/ vmessDial \/ wsDial \/ obfsDial \/ sshDial \/ ssDial \/ ssrDial \/ smuxDial
  \/ unixDial \/ kcpDial \/ directDial
  \/ httpConnect \/ socks4Connect \/ socks5Connect \/ sshConnect \/ trojanHeader
  \/ tlsHandshake \/ wsHandshake
  \/ ssTarget \/ ssrTarget \/ vlessHeader \/ vmessRequest \/ obfsConn \/ smuxOpen

\* The way the chain leads: the servers that were configured, then the target.
Route ==
  Hops(Len(Chain)) \o (IF target = "" THEN <<>> ELSE <<target>>)

\* Whatever mixture of transports and proxies a chain is, each server is asked
\* for the next one and the last for the target, also over a session that was
\* there already (the Dial of each layer, ForwarderFromURL).
HopsInOrder == dial.dir = "ok" => dial.asked = Route

=============================================================================
