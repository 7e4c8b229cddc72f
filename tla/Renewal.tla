------------------------------ MODULE Renewal ------------------------------
(***************************************************************************)
(* What the issuance worker promises the holder of a certificate, with the *)
(* protocol, retries, restarts and the store left out: at most one issuance *)
(* at a time, every key certified at most once, and an installed           *)
(* certificate that is only ever replaced by one the CA issued for a newer *)
(* key.  Issuance implements this specification.                           *)
(***************************************************************************)
EXTENDS Integers

CONSTANTS Cert,   \* certificates under management
          Key     \* keys, numbered in the order they are generated

VARIABLES busy,       \* certificates with an unfinished issuance
          certified,  \* keys the CA has issued a certificate for
          installed   \* [Cert -> the key in use, 0 before the first issuance]

vars == <<busy, certified, installed>>

Init ==
    /\ busy \in SUBSET Cert
    /\ certified = {}
    /\ installed = [c \in Cert |-> 0]

Start(c) ==
    /\ c \notin busy
    /\ busy' = busy \cup {c}
    /\ UNCHANGED <<certified, installed>>

Certify(k) ==
    /\ k \notin certified
    /\ certified' = certified \cup {k}
    /\ UNCHANGED <<busy, installed>>

Install(c, k) ==
    /\ c \in busy
    /\ k \in certified
    /\ k > installed[c]
    /\ installed' = [installed EXCEPT ![c] = k]
    /\ UNCHANGED <<busy, certified>>

\* One issuance ends, or a restart gives up several.
Finish(ended) ==
    /\ ended # {} /\ ended \subseteq busy
    /\ busy' = busy \ ended
    /\ UNCHANGED <<certified, installed>>

Next ==
    \/ \E c \in Cert : Start(c)
    \/ \E k \in Key : Certify(k)
    \/ \E c \in Cert, k \in Key : Install(c, k)
    \/ \E ended \in SUBSET Cert : Finish(ended)

Spec == Init /\ [][Next]_vars
=============================================================================
