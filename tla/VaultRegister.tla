--------------------------- MODULE VaultRegister ---------------------------
(***************************************************************************)
(* What the vault promises to the application: one stored payload that is  *)
(* replaced as a whole by the payload of the open session, and that is     *)
(* what the next session starts from.  A decoy session never shows here.   *)
(* Once the environment puts an old file back it is an old payload, and    *)
(* `reverted' says that this happened.                                     *)
(***************************************************************************)
CONSTANTS
  Docs, EmptyDoc,
  NoFile,     \* nothing stored yet
  Closed      \* no session open

VARIABLES stored, session, history, reverted

rvars == <<stored, session, history, reverted>>

RInit == stored = NoFile /\ session = Closed /\ history = {} /\ reverted = FALSE

ROpen ==
  /\ session = Closed
  /\ session' = IF stored = NoFile THEN EmptyDoc ELSE stored
  /\ UNCHANGED <<stored, history, reverted>>

REdit ==
  /\ session # Closed
  /\ session' \in Docs
  /\ UNCHANGED <<stored, history, reverted>>

RCommit ==
  /\ session # Closed
  /\ stored' = session
  /\ history' = history \cup {session}
  /\ UNCHANGED <<session, reverted>>

RClose ==
  /\ session' = Closed
  /\ UNCHANGED <<stored, history, reverted>>

RRevert ==
  /\ reverted' = TRUE
  /\ stored' \in history \cup {NoFile}
  /\ session' = Closed
  /\ UNCHANGED history

RNext == ROpen \/ REdit \/ RCommit \/ RClose \/ RRevert

RSpec == RInit /\ [][RNext]_rvars

=============================================================================
