---------------------------- MODULE MCIssuance ----------------------------
(* Instances of Issuance for TLC. *)
EXTENDS IssuanceInv, TLC

\* Every certificate covers the same domains.
SameNames == [c \in Cert |-> "names"]

\* One caller per certificate, named after it, or all callers after the same one.
OwnTarget == [q \in Request |-> q]
SameTarget == [q \in Request |-> CHOOSE c \in Cert : TRUE]

\* Certificates with the same domains are interchangeable, and so are callers.
Symmetry == Permutations(Cert \cup Request)
=============================================================================
