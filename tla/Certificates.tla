---------------------------- MODULE Certificates ----------------------------
(***************************************************************************)
(* The certificate operations of api.Service (api/service.go), called       *)
(* through the API at any time, beside the issuance workers.  An operation  *)
(* reads a certificate row, talks to the CA or checks something, and writes *)
(* the whole row back; a worker does the same when it installs what it got  *)
(* or fails.  Nothing is locked in between: only the store's constraints    *)
(* keep them apart.                                                        *)
(*                                                                         *)
(* Issuance models a worker step by step and takes those reads and writes   *)
(* for one step; here the ACME flow is one step and they are two.           *)
(***************************************************************************)
EXTENDS Integers, FiniteSets, FiniteSetsExt

CONSTANTS
    Caller,          \* concurrent calls of the API
    Domains,         \* sets of domains certificates are made for
    Operation,       \* the operations callers use, see Operations
    MaxCertificate,  \* bound: row ids of certificates
    MaxIssuance,     \* bound: row ids of issuances
    MaxWorker        \* bound: issuances ever started

Operations == {"create", "renew", "update", "revoke", "delete"}
CertificateId == 1..MaxCertificate
IssuanceId == 1..MaxIssuance
Worker == 1..MaxWorker   \* worker w generates key w, the CA's certificate for it is w
None == 0
NoDomains == "none"

ASSUME CertificatesAssumption ==
    /\ NoDomains \notin Domains
    /\ Operation \subseteq Operations
    /\ MaxCertificate \in Nat \ {0}
    /\ MaxIssuance \in Nat
    /\ MaxWorker \in Nat

VARIABLES
    certificate,   \* [CertificateId -> certificate rows]          (store)
    issuance,      \* [IssuanceId -> issuance rows]                (store)
    call,          \* [Caller -> the operation in progress and the row it has read]
    worker,        \* [Worker -> the issuance it works on and the certificate it has read]
    revoked        \* certificates the CA has revoked

vars == <<certificate, issuance, call, worker, revoked>>

\* `auto' stands for the renewal settings, `pem' for certificate, key and leaf.
NoCertificate == [domains |-> NoDomains, auto |-> FALSE, status |-> "absent", pem |-> None]

CertificateRow == {NoCertificate} \cup
    [domains : Domains, auto : BOOLEAN, status : {"pending", "active", "failed", "revoked"},
     pem : Worker \cup {None}]

NoIssuance == [cert |-> None, status |-> "absent"]

IssuanceRow == {NoIssuance} \cup
    [cert : CertificateId, status : {"unfinished", "succeeded", "failed"}]

Idle == [at |-> "idle", cert |-> None, copy |-> NoCertificate]

Call == {Idle} \cup
    [at : {"due", "start", "created", "save", "revoke", "delete"}, cert : CertificateId,
     copy : CertificateRow]

NoWorker == [pc |-> "idle", id |-> None, cert |-> None, domains |-> NoDomains,
             copy |-> NoCertificate]

WorkerState == {NoWorker} \cup
    [pc : {"idle", "issue", "read", "install", "fail", "failing", "succeeded", "failed"},
     id : IssuanceId, cert : CertificateId, domains : Domains, copy : CertificateRow]

TypeOK ==
    /\ certificate \in [CertificateId -> CertificateRow]
    /\ issuance \in [IssuanceId -> IssuanceRow]
    /\ call \in [Caller -> Call]
    /\ worker \in [Worker -> WorkerState]
    /\ revoked \in SUBSET Worker

\* Every database begins empty, or with a certificate whose first issuance was
\* never started because the process died in CreateCertificate.
Init ==
    /\ \/ certificate = [c \in CertificateId |-> NoCertificate]
       \/ \E d \in Domains, a \in BOOLEAN :
            certificate = [[c \in CertificateId |-> NoCertificate] EXCEPT ![1] =
                              [domains |-> d, auto |-> a, status |-> "pending", pem |-> None]]
    /\ issuance = [i \in IssuanceId |-> NoIssuance]
    /\ call = [q \in Caller |-> Idle]
    /\ worker = [w \in Worker |-> NoWorker]
    /\ revoked = {}

-----------------------------------------------------------------------------
(* The store. *)

Certificates == {c \in CertificateId : certificate[c].status # "absent"}
IssuancesOf(c) == {i \in IssuanceId : issuance[i].cert = c /\ issuance[i].status # "absent"}
UnfinishedOf(c) == {i \in IssuancesOf(c) : issuance[i].status = "unfinished"}

\* INTEGER PRIMARY KEY: a new row gets the largest id in the table plus one, so
\* the id of a deleted row may be given out again.
NextId(used) == 1 + Max({0} \cup used)

\* UPDATE ... WHERE id = c writes every column, or matches nothing.
UpdateCertificate(c, r) ==
    certificate' = [certificate EXCEPT ![c] = IF @.status = "absent" THEN @ ELSE r]

\* ON DELETE CASCADE takes the issuances along.
DeleteCertificate(c) ==
    /\ certificate' = [certificate EXCEPT ![c] = NoCertificate]
    /\ issuance' = [i \in IssuanceId |-> IF issuance[i].cert = c THEN NoIssuance ELSE issuance[i]]

Enter(q, at, c, r) == call' = [call EXCEPT ![q] = [at |-> at, cert |-> c, copy |-> r]]
Return(q) == call' = [call EXCEPT ![q] = Idle]
Goto(w, label) == worker' = [worker EXCEPT ![w].pc = label, ![w].copy = NoCertificate]
GotoWith(w, label, r) == worker' = [worker EXCEPT ![w].pc = label, ![w].copy = r]

-----------------------------------------------------------------------------
(* The operations. *)

\* CreateCertificate inserts a pending row, then starts its issuance.
CreateCertificate(q, d, a) ==
    LET c == NextId(Certificates)
        r == [domains |-> d, auto |-> a, status |-> "pending", pem |-> None]
    IN  /\ "create" \in Operation
        /\ call[q] = Idle
        /\ c \in CertificateId   \* bound: MaxCertificate
        /\ certificate' = [certificate EXCEPT ![c] = r]
        /\ Enter(q, "created", c, r)
        /\ UNCHANGED <<issuance, worker, revoked>>

\* RenewCertificate refuses a revoked certificate and hands the row it has read
\* to startIssuance.
RenewCertificate(q, c) ==
    /\ certificate[c].status \notin {"absent", "revoked"}
    /\ Enter(q, "start", c, certificate[c])
    /\ UNCHANGED <<certificate, issuance, worker, revoked>>

Renew(q, c) == "renew" \in Operation /\ call[q] = Idle /\ RenewCertificate(q, c)

\* RenewDue renews what was due when it listed the certificates.
ListDue(q, c) ==
    /\ "renew" \in Operation
    /\ call[q] = Idle
    /\ certificate[c].auto /\ certificate[c].status = "active"
    /\ Enter(q, "due", c, NoCertificate)
    /\ UNCHANGED <<certificate, issuance, worker, revoked>>

RenewDue(q) == call[q].at = "due" /\ RenewCertificate(q, call[q].cert)

\* startIssuance inserts an issuance, which the foreign key and the index of
\* unfinished issuances may forbid, and launches its worker.
StartIssuance(q) ==
    LET c == call[q].cert
        i == NextId({j \in IssuanceId : issuance[j].status # "absent"})
    IN  /\ call[q].at \in {"start", "created"}
        /\ i \in IssuanceId   \* bound: MaxIssuance
        /\ certificate[c].status # "absent"
        /\ UnfinishedOf(c) = {}
        /\ \E w \in Worker :   \* bound: MaxWorker
             /\ worker[w] = NoWorker
             /\ \A v \in Worker : v < w => worker[v] # NoWorker
             /\ issuance' = [issuance EXCEPT ![i] = [cert |-> c, status |-> "unfinished"]]
             /\ worker' = [worker EXCEPT ![w] =
                   [pc |-> "issue", id |-> i, cert |-> c, domains |-> call[q].copy.domains,
                    copy |-> NoCertificate]]
        /\ Return(q)
        /\ UNCHANGED <<certificate, revoked>>

\* If the issuance is not started CreateCertificate deletes the row again, and
\* whatever another call has started for it in the meantime.
RollBack(q) ==
    /\ call[q].at = "created"
    /\ DeleteCertificate(call[q].cert)
    /\ Return(q)
    /\ UNCHANGED <<worker, revoked>>

\* UpdateCertificate reads the row, changes the settings and validates them.
ReadSettings(q, c, a) ==
    /\ "update" \in Operation
    /\ call[q] = Idle
    /\ certificate[c].status # "absent"
    /\ Enter(q, "save", c, [certificate[c] EXCEPT !.auto = a])
    /\ UNCHANGED <<certificate, issuance, worker, revoked>>

\* RevokeCertificate reads an active certificate ...
ReadActive(q, c) ==
    /\ "revoke" \in Operation
    /\ call[q] = Idle
    /\ certificate[c].status = "active"
    /\ Enter(q, "revoke", c, certificate[c])
    /\ UNCHANGED <<certificate, issuance, worker, revoked>>

\* ... has the CA revoke what it read, and goes on if the CA's answer says so.
\* The answer may be lost, and the CA refuses to revoke a certificate twice.
RevokeCert(q) ==
    /\ call[q].at = "revoke"
    /\ \/ /\ call[q].copy.pem \notin revoked
          /\ revoked' = revoked \cup {call[q].copy.pem}
          /\ \/ Enter(q, "save", call[q].cert,
                     [call[q].copy EXCEPT !.status = "revoked", !.auto = FALSE])
             \/ Return(q)
       \/ Return(q) /\ UNCHANGED revoked
    /\ UNCHANGED <<certificate, issuance, worker>>

\* Mutant: the new status is put on whatever row is there now.
SaveStatus(q) ==
    /\ call[q].at = "save"
    /\ UpdateCertificate(call[q].cert, [certificate[call[q].cert] EXCEPT
            !.status = call[q].copy.status, !.auto = call[q].copy.auto])
    /\ Return(q)
    /\ UNCHANGED <<issuance, worker, revoked>>

\* The row that was read is written back with the change.
SaveCopy(q) ==
    /\ call[q].at = "save"
    /\ UpdateCertificate(call[q].cert, call[q].copy)
    /\ Return(q)
    /\ UNCHANGED <<issuance, worker, revoked>>

\* DeleteCertificate lists the issuances, refuses if one is unfinished ...
ListFinished(q, c) ==
    /\ "delete" \in Operation
    /\ call[q] = Idle
    /\ UnfinishedOf(c) = {}
    /\ certificate[c].status # "absent"
    /\ Enter(q, "delete", c, NoCertificate)
    /\ UNCHANGED <<certificate, issuance, worker, revoked>>

\* ... and deletes.
Delete(q) ==
    /\ call[q].at = "delete"
    /\ DeleteCertificate(call[q].cert)
    /\ Return(q)
    /\ UNCHANGED <<worker, revoked>>

\* A call is refused, or its request ends, before it has changed anything.
GiveUp(q) ==
    /\ call[q].at \in {"due", "start", "save", "revoke", "delete"}
    /\ Return(q)
    /\ UNCHANGED <<certificate, issuance, worker, revoked>>

-----------------------------------------------------------------------------
(* The workers. *)

\* Mutant: the update brings a deleted row back.
UpdateIssuanceUpserts(w, status) ==
    issuance' = [issuance EXCEPT ![worker[w].id].status = status]

\* UPDATE acme_issuances ... WHERE id = w's: whichever row has that id now.
UpdateIssuance(w, status) ==
    issuance' = [issuance EXCEPT ![worker[w].id].status =
                    IF @ = "absent" THEN @ ELSE status]

\* The index may forbid that a row becomes unfinished again.
MayUpdate(w) ==
    LET i == worker[w].id IN
    /\ issuance[i].status # "absent"
    /\ UnfinishedOf(issuance[i].cert) \subseteq {i}

\* issue() keeps its row up to date as it goes on, and in the end has a
\* certificate for the domains it was started for.
Issue(w) ==
    /\ worker[w].pc = "issue"
    /\ MayUpdate(w)
    /\ UpdateIssuance(w, "unfinished")
    /\ Goto(w, "issue") \/ Goto(w, "read")
    /\ UNCHANGED <<certificate, call, revoked>>

\* It fails, is canceled, or its row is gone.
IssueFails(w) ==
    /\ worker[w].pc = "issue"
    /\ Goto(w, "fail")
    /\ UNCHANGED <<certificate, issuance, call, revoked>>

\* Installing: read the certificate ...
ReadCertificate(w) ==
    LET r == certificate[worker[w].cert] IN
    /\ worker[w].pc = "read"
    /\ IF r.status = "absent" THEN Goto(w, "fail") ELSE GotoWith(w, "install", r)
    /\ UNCHANGED <<certificate, issuance, call, revoked>>

\* ... and write it back with the new certificate and key.
Install(w) ==
    LET c == worker[w].cert IN
    /\ worker[w].pc = "install"
    /\ UpdateCertificate(c, [worker[w].copy EXCEPT !.status = "active", !.pem = w])
    /\ Goto(w, IF certificate[c].status = "absent" THEN "fail" ELSE "succeeded")
    /\ UNCHANGED <<issuance, call, revoked>>

\* Mutant: a failed renewal marks its certificate failed.
ReadAny(w) ==
    LET r == certificate[worker[w].cert] IN
    /\ worker[w].pc = "fail"
    /\ IF r.status # "absent" THEN GotoWith(w, "failing", r) ELSE Goto(w, "failed")
    /\ UNCHANGED <<certificate, issuance, call, revoked>>

\* finish: a certificate still pending is read ...
ReadPending(w) ==
    LET r == certificate[worker[w].cert] IN
    /\ worker[w].pc = "fail"
    /\ IF r.status = "pending" THEN GotoWith(w, "failing", r) ELSE Goto(w, "failed")
    /\ UNCHANGED <<certificate, issuance, call, revoked>>

\* ... and written back as failed.
MarkFailed(w) ==
    /\ worker[w].pc = "failing"
    /\ UpdateCertificate(worker[w].cert, [worker[w].copy EXCEPT !.status = "failed"])
    /\ Goto(w, "failed")
    /\ UNCHANGED <<issuance, call, revoked>>

\* The terminal status is saved.
Publish(w) ==
    /\ worker[w].pc \in {"succeeded", "failed"}
    /\ UpdateIssuance(w, worker[w].pc)
    /\ Goto(w, "idle")
    /\ UNCHANGED <<certificate, call, revoked>>

-----------------------------------------------------------------------------

Work(w) ==
    \/ Issue(w) \/ IssueFails(w) \/ ReadCertificate(w) \/ Install(w)
    \/ ReadPending(w) \/ MarkFailed(w) \/ Publish(w)

Serve(q) ==
    \/ \E d \in Domains, a \in BOOLEAN : CreateCertificate(q, d, a)
    \/ \E c \in CertificateId : Renew(q, c) \/ ListDue(q, c) \/ ReadActive(q, c) \/ ListFinished(q, c)
    \/ \E c \in CertificateId, a \in BOOLEAN : ReadSettings(q, c, a)
    \/ RenewDue(q) \/ StartIssuance(q) \/ RollBack(q) \/ RevokeCert(q) \/ SaveCopy(q)
    \/ Delete(q) \/ GiveUp(q)

Next == (\E w \in Worker : Work(w)) \/ (\E q \in Caller : Serve(q))

Spec == Init /\ [][Next]_vars
-----------------------------------------------------------------------------
(* Safety. *)

\* A certificate recorded as revoked is one the CA has revoked, whatever was
\* installed, renewed or deleted between RevokeCertificate's read and its write.
RevokedAtCA ==
    \A c \in CertificateId : certificate[c].status = "revoked" => certificate[c].pem \in revoked

\* Status and content of a row agree, although six operations write them back
\* from what they read earlier: nothing usable is in a pending or failed row, and
\* something is in every other.
RowTellsTruth ==
    \A c \in Certificates :
        (certificate[c].status \in {"pending", "failed"}) <=> (certificate[c].pem = None)

\* UpdateCertificate changes renewal settings and nothing else.
UpdateKeepsCertificate ==
    [][\A q \in Caller :
          call[q].at = "save" /\ call[q].copy.status # "revoked" /\ call'[q] # call[q] =>
             certificate'[call[q].cert].pem = certificate[call[q].cert].pem]_vars

\* A row holds a certificate issued with its own settings: for its own domains.
InstalledForDomains ==
    \A c \in CertificateId : certificate[c].pem # None =>
        worker[certificate[c].pem].domains = certificate[c].domains
-----------------------------------------------------------------------------
(* The inductive invariant behind RevokedAtCA and RowTellsTruth: they hold of *)
(* every copy of a row an operation or a worker may still write back.          *)

Sound(r) ==
    /\ r.status = "revoked" => r.pem \in revoked
    /\ r.status \in {"active", "revoked"} <=> r.pem # None

CallInv(q) ==
    /\ Sound(call[q].copy)
    /\ call[q].at \in {"start", "created", "save", "revoke"} => call[q].copy.status # "absent"
    /\ call[q].at = "revoke" => call[q].copy.status = "active"

WorkerInv(w) ==
    /\ Sound(worker[w].copy)
    /\ worker[w].pc = "install" => worker[w].copy.status # "absent"
    /\ worker[w].pc = "failing" => worker[w].copy.status = "pending"

IInv ==
    /\ TypeOK
    /\ \A c \in CertificateId : Sound(certificate[c])
    /\ \A q \in Caller : CallInv(q)
    /\ \A w \in Worker : WorkerInv(w)
=============================================================================
