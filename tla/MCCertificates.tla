--------------------------- MODULE MCCertificates ---------------------------
(***************************************************************************)
(* Numbers are written in radix 3 and padded to one digit: "1", "2", "10". *)
(* Three certificates then stand for the ten thousand of "%04d".           *)
(***************************************************************************)
EXTENDS Certificates

CONSTANTS course, degree, a1, a2, b1

MCTypeOf == [a \in Award |-> IF a = b1 THEN degree ELSE course]
=============================================================================
