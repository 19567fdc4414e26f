-------------------------- MODULE MCExecutionPipeline --------------------------
(* Four calls: c1 and c2 repeat one signal under one correlation id, c3      *)
(* carries it under another one, c4 is of another signal.                    *)
EXTENDS ExecutionPipeline

CONSTANTS c1, c2, c3, c4, s1, s2, r1, r2

MCSignalOf == [c \in Call |-> IF c = c4 THEN s2 ELSE s1]

MCCorrOf == [c \in Call |-> IF c \in {c1, c2} THEN r1 ELSE r2]
=============================================================================
