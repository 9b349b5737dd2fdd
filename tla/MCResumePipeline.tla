-------------------------- MODULE MCResumePipeline --------------------------
(***************************************************************************)
(* A small instance of ResumePipeline: a can be parsed, c is a file no     *)
(* parser reads.                                                           *)
(***************************************************************************)
EXTENDS ResumePipeline, TLC

CONSTANTS a, c, q, ka, kc

OneRequest == [r \in Resume |-> q]

OwnKeys == [r \in Resume |-> IF r = a THEN ka ELSE kc]

OwnAddresses == [r \in Resume |-> IF r = a THEN "a@x" ELSE "c@x"]

\* How often users delete files: the one of a once, or each file twice.
OnceThatOfA == [k \in Key |-> IF k = ka THEN 1 ELSE 0]

TwiceEach == [k \in Key |-> 2]
=============================================================================
