-------------------------- MODULE MC_DedupPrepare --------------------------
(***************************************************************************)
(* Instances of DedupPrepare for TLC. Rows r1 and r2 are copies of one     *)
(* event (a Kafka message delivered twice), r3 is another event.           *)
(***************************************************************************)
EXTENDS DedupPrepare, TLC

CONSTANTS r1, r2, r3, k1, k2, s1, s2

TwoCopies == [r \in Rows |-> k1]
CopiesAndOther == [r \in Rows |-> IF r = r3 THEN k2 ELSE k1]

\* Events of different groups, and events that an aggregated row cannot tell apart.
OwnGroups == [k \in Keys |-> k]
OneGroup == [k \in Keys |-> k1]

SlotSymmetry == Permutations(Slots)
=============================================================================
