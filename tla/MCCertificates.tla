--------------------------- MODULE MCCertificates ---------------------------
(* Instances of Certificates for TLC. *)
EXTENDS Certificates, TLC

\* Callers are interchangeable.
Symmetry == Permutations(Caller)
=============================================================================
