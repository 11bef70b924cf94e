------------------------------ MODULE MCServers ------------------------------
(* Every server and every dialer, in combinations that are configured: each   *)
(* transport alone and around a proxy, chains of one to three dialers.  Peers *)
(* speak at once, except through ws, whose handshakes drop what comes early.  *)
EXTENDS Servers

D(kind, addr) == [kind |-> kind, addr |-> addr]
L(ls, ch) ==
  [layers |-> ls, chain |-> ch, sends |-> <<"1", "2">>, says |-> <<"1">>, eager |-> TRUE,
   shown |-> TRUE, fallback |-> FALSE, session |-> FALSE]

MCLoads ==
  {[L(<<"tcp">>, <<D("tcp", "a")>>) EXCEPT !.says = <<"1", "2">>],
   L(<<"tls", "http">>, <<D("tls", "a"), D("http", "")>>),
   [L(<<"ws">>, <<D("ws", "a")>>) EXCEPT !.eager = FALSE],
   [L(<<"ws", "vless">>, <<D("ws", "a"), D("vless", "")>>) EXCEPT !.eager = FALSE],
   L(<<"pxyproto", "http">>, <<D("socks5", "a"), D("tls", "b"), D("http", "")>>),
   L(<<"mixed">>, <<D("socks4", "a"), D("ss", "b")>>),
   L(<<"unix">>, <<D("unix", "a")>>),
   L(<<"vsock">>, <<D("vsock", "a")>>),
   [L(<<"kcp", "ss">>, <<D("kcp", "a"), D("obfs", ""), D("ssr", "")>>) EXCEPT !.shown = FALSE],
   [L(<<"smux", "socks5">>, <<D("tls", "a"), D("smux", ""), D("trojan", "")>>)
      EXCEPT !.session = TRUE, !.shown = FALSE],
   [L(<<"trojan">>, <<>>) EXCEPT !.fallback = TRUE],
   [L(<<"vless">>, <<>>) EXCEPT !.fallback = TRUE],
   [L(<<"redir">>, <<D("ssh", "a")>>) EXCEPT !.shown = FALSE],
   L(<<"http">>, <<D("ss", "a")>>),
   L(<<"socks5">>, <<D("smux", "a"), D("vmess", "")>>),
   [L(<<"ss">>, <<D("ssh", "a"), D("trojan", "b")>>) EXCEPT !.session = TRUE],
   [L(<<"kcp">>, <<D("ss", "a")>>) EXCEPT !.shown = FALSE],
   [L(<<"smux">>, <<D("ssr", "a")>>) EXCEPT !.shown = FALSE]}
=============================================================================
