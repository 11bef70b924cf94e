------------------------------- MODULE MCSmux -------------------------------
(* Two streams of version 1 that share the tokens; a stream whose reader and *)
(* writer, or one of them and a session, close; one of version 2 whose       *)
(* session ends while it waits for a window; and one of version 2 through    *)
(* the turn of its counters, with frames of half the stream buffer.          *)
EXTENDS Smux

V1 == [ver |-> 1, frame |-> 1, buffer |-> 2, receive |-> 1, window |-> 2, wrap |-> 2,
       sids |-> {1}, max |-> 1, closes |-> {}]
V2 == [V1 EXCEPT !.ver = 2, !.wrap = 6]

MCLoads ==
  {[V1 EXCEPT !.sids = {1, 2}],
   [V1 EXCEPT !.receive = 2, !.closes = {<<"writer", 1>>, <<"reader", 1>>}],
   [V1 EXCEPT !.closes = {<<"writer", 1>>, <<"session", "p">>}],
   [V1 EXCEPT !.closes = {<<"reader", 1>>, <<"session", "o">>}],
   [V2 EXCEPT !.closes = {<<"session", "o">>}],
   [V2 EXCEPT !.frame = 2, !.buffer = 4, !.window = 4, !.wrap = 10,
              !.max = 2]}
=============================================================================
