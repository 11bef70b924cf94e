------------------------------- MODULE UDPNat -------------------------------
(***************************************************************************)
(* The UDP session table that the udp, socks5, ss, tproxy and unix servers *)
(* share as a pattern, after proxy/udp/udp.go.  One listener reads packets *)
(* and hands each to the session of its source through a bounded channel;  *)
(* a session dials, then forwards packets while a second goroutine copies  *)
(* the replies back until the upstream has been silent for too long.       *)
(*                                                                         *)
(* Packets have no identity here: a channel is the number of packets in it. *)
(***************************************************************************)
EXTENDS Naturals

CONSTANTS
  Srcs,       \* client addresses, the keys of the table
  Sessions,   \* bound: sessions alive at one time
  NoSession,
  ChanCap         \* capacity of session.msgCh: 32 in the code

ASSUME NatAssumption ==
  /\ Srcs # {} /\ Sessions # {}
  /\ NoSession \notin Sessions
  /\ ChanCap \in Nat \ {0}

VARIABLES
  nm,       \* the table: per source, a session or NoSession
  key,      \* session.key
  copier,   \* per session: none, dialing, copying, deleted, closed or failed
  loop,     \* serveSession's goroutine: none, dialing, running, writing or returned
  msgCh,    \* per session: packets in the channel
  at, cur   \* the listener: reading, or sending to session cur

natVars == <<nm, key, copier, loop, msgCh, at, cur>>

-----------------------------------------------------------------------------

\* A packet of a source that has a session.
ReceiveKnown(a) ==
  /\ at = "read" /\ nm[a] # NoSession
  /\ cur' = nm[a] /\ at' = "send"
  /\ UNCHANGED <<nm, key, copier, loop, msgCh>>

\* A packet of a new source: store a session for it and start its goroutine.
\* A slot is free when nothing refers to its last session.
ReceiveNew(a, s) ==
  /\ at = "read" /\ nm[a] = NoSession
  /\ copier[s] = "none"
  /\ nm' = [nm EXCEPT ![a] = s]
  /\ key' = [key EXCEPT ![s] = a]
  /\ copier' = [copier EXCEPT ![s] = "dialing"]
  /\ loop' = [loop EXCEPT ![s] = "dialing"]
  /\ msgCh' = [msgCh EXCEPT ![s] = 0]
  /\ cur' = s /\ at' = "send"

\* sess.msgCh <- buf: blocks while the channel is full.
Send ==
  /\ at = "send" /\ msgCh[cur] < ChanCap
  /\ msgCh' = [msgCh EXCEPT ![cur] = @ + 1]
  /\ at' = "read"
  /\ UNCHANGED <<nm, key, copier, loop, cur>>

\* serveSession: DialUDP succeeds, and the copier starts.
DialOK(s) ==
  /\ loop[s] = "dialing"
  /\ loop' = [loop EXCEPT ![s] = "running"]
  /\ copier' = [copier EXCEPT ![s] = "copying"]
  /\ UNCHANGED <<nm, key, msgCh, at, cur>>

\* Mutant: the failed session stays in the table.
DialFailsQuietly(s) ==
  /\ loop[s] = "dialing"
  /\ loop' = [loop EXCEPT ![s] = "returned"]
  /\ copier' = [copier EXCEPT ![s] = "failed"]
  /\ UNCHANGED <<nm, key, msgCh, at, cur>>

\* serveSession: DialUDP fails; nobody will ever read msgCh.
DialFails(s) ==
  /\ loop[s] = "dialing"
  /\ nm' = [nm EXCEPT ![key[s]] = NoSession]
  /\ loop' = [loop EXCEPT ![s] = "returned"]
  /\ copier' = [copier EXCEPT ![s] = "failed"]
  /\ UNCHANGED <<key, msgCh, at, cur>>

\* The loop takes a packet and writes it upstream.
Forward(s) ==
  /\ loop[s] = "running" /\ msgCh[s] > 0
  /\ msgCh' = [msgCh EXCEPT ![s] = @ - 1]
  /\ loop' = [loop EXCEPT ![s] = "writing"]
  /\ UNCHANGED <<nm, key, copier, at, cur>>

\* Mutant: a failed write ends the loop.
WrittenOrEnd(s) ==
  /\ loop[s] = "writing"
  /\ loop' \in {[loop EXCEPT ![s] = "running"], [loop EXCEPT ![s] = "returned"]}
  /\ UNCHANGED <<nm, key, copier, msgCh, at, cur>>

\* The write returns, with an error or without.
Written(s) ==
  /\ loop[s] = "writing"
  /\ loop' = [loop EXCEPT ![s] = "running"]
  /\ UNCHANGED <<nm, key, copier, msgCh, at, cur>>

\* CopyUDP returns: a read timed out or a write failed.  nm.Delete ...
CopyUDPEnds(s) ==
  /\ copier[s] = "copying"
  /\ nm' = [nm EXCEPT ![key[s]] = NoSession]
  /\ copier' = [copier EXCEPT ![s] = "deleted"]
  /\ UNCHANGED <<key, loop, msgCh, at, cur>>

\* ... and close(finCh).
CloseFin(s) ==
  /\ copier[s] = "deleted"
  /\ copier' = [copier EXCEPT ![s] = "closed"]
  /\ UNCHANGED <<nm, key, loop, msgCh, at, cur>>

\* The loop's select takes finCh, which it may do with packets in the channel.
LoopEnds(s) ==
  /\ loop[s] = "running" /\ copier[s] = "closed"
  /\ loop' = [loop EXCEPT ![s] = "returned"]
  /\ UNCHANGED <<nm, key, copier, msgCh, at, cur>>

\* The session is garbage once its goroutines are gone and the listener has let
\* go of it.
Collect(s) ==
  /\ loop[s] = "returned" /\ copier[s] \in {"closed", "failed"}
  /\ s \notin {nm[a] : a \in Srcs} /\ ~(at = "send" /\ cur = s)
  /\ copier' = [copier EXCEPT ![s] = "none"]
  /\ loop' = [loop EXCEPT ![s] = "none"]
  /\ msgCh' = [msgCh EXCEPT ![s] = 0]
  /\ UNCHANGED <<nm, key, at, cur>>

-----------------------------------------------------------------------------

\* Fields that are not in use yet have some value of their type.
AnySrc == CHOOSE a \in Srcs : TRUE

AnySession == CHOOSE s \in Sessions : TRUE

NatInit ==
  /\ nm = [a \in Srcs |-> NoSession]
  /\ key = [s \in Sessions |-> AnySrc]
  /\ copier = [s \in Sessions |-> "none"]
  /\ loop = [s \in Sessions |-> "none"]
  /\ msgCh = [s \in Sessions |-> 0]
  /\ at = "read"
  /\ cur = AnySession

NatReceive == \E a \in Srcs : ReceiveKnown(a) \/ \E s \in Sessions : ReceiveNew(a, s)

Dialed(s) == DialOK(s) \/ DialFails(s)

LoopStep(s) == Forward(s) \/ LoopEnds(s)

NatNext ==
  \/ NatReceive \/ Send
  \/ \E s \in Sessions : \/ Dialed(s) \/ LoopStep(s) \/ Written(s)
                         \/ CopyUDPEnds(s) \/ CloseFin(s) \/ Collect(s)

NatSpec == NatInit /\ [][NatNext]_natVars

\* Goroutines that can run do.  Nothing makes a dial or a write end: the
\* handshakes of DialUDP, and the writes of a packet connection that rides on a
\* stream, have no deadline.  No packet has to arrive, and a copier may go on
\* for ever.
NatFairSpec ==
  /\ NatSpec
  /\ WF_natVars(Send)
  /\ \A s \in Sessions :
       WF_natVars(LoopStep(s)) /\ WF_natVars(CloseFin(s)) /\ WF_natVars(Collect(s))

-----------------------------------------------------------------------------

\* The types of the table, the sessions and the listener.
NatTypeOK ==
  /\ nm \in [Srcs -> Sessions \cup {NoSession}]
  /\ key \in [Sessions -> Srcs]
  /\ copier \in [Sessions -> {"none", "dialing", "copying", "deleted", "closed", "failed"}]
  /\ loop \in [Sessions -> {"none", "dialing", "running", "writing", "returned"}]
  /\ msgCh \in [Sessions -> 0 .. ChanCap]
  /\ at \in {"read", "send"} /\ cur \in Sessions

\* A session is in the table under its source exactly while it is dialing or
\* copying: nm.Delete never removes a later session of the source, no session is
\* found after its end, and a source has one such session at most.
TableIsOpen ==
  \A s \in Sessions, a \in Srcs :
    nm[a] = s <=> key[s] = a /\ copier[s] \in {"dialing", "copying"}

\* The listener blocks for ever only on a session that has ended, or whose dial
\* or whose write upstream never ends: a session that is alive takes its packets.
NeverStuckOnLive ==
  \A s \in Sessions :
    <>[](at = "send" /\ cur = s)
      => \/ <>[](copier[s] \in {"closed", "failed"})
         \/ <>[](loop[s] = "dialing")
         \/ <>[](loop[s] = "writing")

\* The server serves UDP: the listener always comes back to read a packet.
ListenerServes == []<>(at = "read")
=============================================================================
