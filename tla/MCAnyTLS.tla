------------------------------ MODULE MCAnyTLS ------------------------------
(* AnyTLS: a behaviour exercises the pool or the inside of a session.  There *)
(* is data on the first stream; the second one is opened while frames of the *)
(* first may still arrive.                                                   *)
EXTENDS AnyTLSPool, AnyTLSSession

VARIABLE focus   \* what this behaviour exercises

MCFrames == <<3, 0>>

Init ==
  /\ focus \in {"pool", "session"}
  /\ PoolInit /\ SessionInit
  /\ focus = "pool" => ss.peer = 1

Next ==
  /\ \/ focus = "pool" /\ PoolNext /\ UNCHANGED session
     \/ focus = "session" /\ SessionNext /\ UNCHANGED pool
  /\ UNCHANGED focus

vars == <<focus, pool, session>>

Spec == Init /\ [][Next]_vars /\ PoolFairness /\ SessionFairness

=============================================================================
