------------------------------ MODULE MCOutbox ------------------------------
(* Instances of Outbox for TLC.                                            *)
EXTENDS Outbox, SequencesExt
CONSTANTS m1, m2, m3, bob, carol, r1, r2, r3

\* Two messages for one contact, and one for another contact between them.
TwoToBob == (m1 :> bob) @@ (m2 :> bob)
TwoAndOne == TwoToBob @@ (m3 :> carol)

\* drain_pending_confirms removes the delivered indices one by one, the largest
\* first: for every short outbox this is RemoveIndices.
RemoveDescending(q, D) ==
  FoldLeft(RemoveAt, q, SetToSortSeq(D, LAMBDA a, b : a > b))
ASSUME RemovalAgrees ==
  \A n \in 0..5 : \A D \in SUBSET (1..n) :
    LET q == [i \in 1..n |-> i] IN
    RemoveIndices(q, D) = RemoveDescending(q, D)
=============================================================================
