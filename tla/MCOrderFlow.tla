---------------------------- MODULE MCOrderFlow ----------------------------
(***************************************************************************)
(* Instances of OrderFlow for TLC.  The catalog is chosen by the           *)
(* configuration: its sets of courses, degrees and orders pick the rows of *)
(* the tables below that exist.                                            *)
(***************************************************************************)
EXTENDS OrderFlow, TLC

CONSTANTS u1, u2, c1, c2, d1, d2, oC1, oC2, oD1, oX

\* d1 is a paid degree of the paid course c1 and the charity course c2, d2 a
\* free degree of c2.
MCCurriculum == [d \in Degree |-> IF d = d1 THEN SelectSeq(<<c1, c2>>, LAMBDA c : c \in Course)
                                  ELSE <<c2>>]
MCCostType   == [i \in Item |-> IF i = d2 THEN "free"
                                ELSE IF i = c2 THEN "charity" ELSE "paid"]
MCBuyer      == [o \in Order |-> IF o = oX THEN u2 ELSE u1]
MCItemOf     == [o \in Order |-> IF o = oD1 THEN d1 ELSE c1]

SameRequests == Permutations(Request)
=============================================================================
