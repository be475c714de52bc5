---------------------------- MODULE DurableQueue ----------------------------
(***************************************************************************)
(* What the outbox of op4-tui/src/ui/app.rs promises ("persisted so it     *)
(* survives crashes/restarts"): a message is on disk before any byte of it *)
(* is on the wire, it stays on disk until it was on the wire or expired,   *)
(* and once gone it never comes back.  A message may be on the wire more   *)
(* than once: delivery is at least once.                                   *)
(***************************************************************************)
CONSTANT Msg

VARIABLES
  kept,    \* messages on disk
  wire,    \* messages handed to the network
  expired  \* messages given up

DQInit == kept = {} /\ wire = {} /\ expired = {}

\* A save: messages never seen before come in, finished ones go.
Commit ==
  /\ kept' \subseteq Msg
  /\ (kept' \ kept) \cap (wire \cup expired) = {}
  /\ kept \ kept' \subseteq wire \cup expired
  /\ UNCHANGED <<wire, expired>>

Transmit(m) ==
  /\ m \in kept
  /\ wire' = wire \cup {m}
  /\ UNCHANGED <<kept, expired>>

\* Only what was kept is ever given up.
Expire ==
  /\ expired \subseteq expired'
  /\ expired' \ expired \subseteq kept
  /\ UNCHANGED <<kept, wire>>

DQNext == Commit \/ Expire \/ \E m \in Msg : Transmit(m)

DQSpec == DQInit /\ [][DQNext]_<<kept, wire, expired>>
=============================================================================
