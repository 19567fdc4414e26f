------------------------------ MODULE MCApprovals ------------------------------
(* Two approvals of one proposal and one of another.                         *)
EXTENDS Approvals

CONSTANTS c1, c2, c3, p1, p2, r1, r2

MCSignalOf == [c \in Call |-> IF c = c3 THEN p2 ELSE p1]

MCCorrOf == [c \in Call |-> IF c = c3 THEN r2 ELSE r1]
=============================================================================
