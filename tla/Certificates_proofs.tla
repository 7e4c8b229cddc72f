------------------------ MODULE Certificates_proofs ------------------------
(***************************************************************************)
(* Proofs about Certificates, for any number of callers, workers and ids,  *)
(* and whichever operations race: no interleaving of reads and write-backs *)
(* makes a row say "revoked" of a certificate the CA has not revoked, or    *)
(* gives a row a status its content belies.  The invariant says the same of *)
(* every copy that may still be written back.                              *)
(***************************************************************************)
EXTENDS Certificates, TLAPS

USE CertificatesAssumption

\* The parts of a row that is there.
LEMMA RowParts ==
  ASSUME NEW r \in CertificateRow, r.status # "absent"
  PROVE  /\ r \in [domains : Domains, auto : BOOLEAN,
                   status : {"pending", "active", "failed", "revoked"}, pem : Worker \cup {None}]
         /\ \A a \in BOOLEAN : [r EXCEPT !.auto = a] \in CertificateRow
         /\ [r EXCEPT !.status = "failed"] \in CertificateRow
         /\ [r EXCEPT !.status = "revoked", !.auto = FALSE] \in CertificateRow
         /\ \A w \in Worker : [r EXCEPT !.status = "active", !.pem = w] \in CertificateRow
<1> DEFINE Rows == [domains : Domains, auto : BOOLEAN,
                    status : {"pending", "active", "failed", "revoked"}, pem : Worker \cup {None}]
<1>1. r \in Rows
  BY DEF CertificateRow, NoCertificate
<1>2. ASSUME NEW a \in BOOLEAN  PROVE [r EXCEPT !.auto = a] \in Rows
  BY <1>1
<1>3. [r EXCEPT !.status = "failed"] \in Rows
  BY <1>1
<1>4. [r EXCEPT !.status = "revoked", !.auto = FALSE] \in Rows
  BY <1>1
<1>5. ASSUME NEW w \in Worker  PROVE [r EXCEPT !.status = "active", !.pem = w] \in Rows
  BY <1>1
<1>6. Rows \subseteq CertificateRow
  BY DEF CertificateRow
<1> HIDE DEF Rows
<1>7. /\ \A a \in BOOLEAN : [r EXCEPT !.auto = a] \in CertificateRow
      /\ [r EXCEPT !.status = "failed"] \in CertificateRow
      /\ [r EXCEPT !.status = "revoked", !.auto = FALSE] \in CertificateRow
      /\ \A w \in Worker : [r EXCEPT !.status = "active", !.pem = w] \in CertificateRow
  BY <1>2, <1>3, <1>4, <1>5, <1>6
<1> QED BY <1>1, <1>7 DEF Rows

\* A caller that is not idle works on a certificate.
LEMMA CallParts ==
  ASSUME TypeOK, NEW q \in Caller, call[q].at # "idle"
  PROVE  call[q].cert \in CertificateId /\ call[q].copy \in CertificateRow
BY DEF TypeOK, Call, Idle

\* A worker that is not idle has an issuance, a certificate and its domains.
LEMMA WorkerParts ==
  ASSUME TypeOK, NEW w \in Worker, worker[w].pc # "idle"
  PROVE  /\ worker[w].id \in IssuanceId /\ worker[w].cert \in CertificateId
         /\ worker[w] \in [pc : {"idle", "issue", "read", "install", "fail", "failing",
                                 "succeeded", "failed"},
                           id : IssuanceId, cert : CertificateId, domains : Domains,
                           copy : CertificateRow]
BY DEF TypeOK, WorkerState, NoWorker

\* Where a worker goes next it keeps its type.
LEMMA GotoType ==
  ASSUME TypeOK, NEW w \in Worker, worker[w].pc # "idle", NEW r \in CertificateRow,
         NEW l \in {"idle", "issue", "read", "install", "fail", "failing", "succeeded", "failed"},
         GotoWith(w, l, r)
  PROVE  /\ worker' \in [Worker -> WorkerState]
         /\ worker'[w].copy = r /\ worker'[w].pc = l
         /\ \A v \in Worker \ {w} : worker'[v] = worker[v]
<1> DEFINE Parts == [pc : {"idle", "issue", "read", "install", "fail", "failing",
                           "succeeded", "failed"},
                     id : IssuanceId, cert : CertificateId, domains : Domains,
                     copy : CertificateRow]
<1>1. worker[w] \in Parts /\ worker \in [Worker -> WorkerState]
  BY WorkerParts DEF TypeOK
<1>2. /\ [worker[w] EXCEPT !.pc = l, !.copy = r] \in Parts
      /\ [worker[w] EXCEPT !.pc = l, !.copy = r].copy = r
      /\ [worker[w] EXCEPT !.pc = l, !.copy = r].pc = l
  BY <1>1
<1>3. Parts \subseteq WorkerState
  BY DEF WorkerState
<1> HIDE DEF Parts
<1>4. worker' = [worker EXCEPT ![w] = [worker[w] EXCEPT !.pc = l, !.copy = r]]
  BY DEF GotoWith
<1> QED BY <1>1, <1>2, <1>3, <1>4

LEMMA AbsentType == NoCertificate \in CertificateRow /\ NoIssuance \in IssuanceRow
BY DEF CertificateRow, IssuanceRow

\* An update keeps the table's type and leaves every other row alone.
LEMMA UpdateType ==
  ASSUME TypeOK, NEW c \in CertificateId, NEW r \in CertificateRow, UpdateCertificate(c, r)
  PROVE  /\ certificate' \in [CertificateId -> CertificateRow]
         /\ \A d \in CertificateId : certificate'[d] \in {certificate[d], r}
BY DEF TypeOK, UpdateCertificate

LEMMA DeleteType ==
  ASSUME TypeOK, NEW c \in CertificateId, DeleteCertificate(c)
  PROVE  /\ certificate' \in [CertificateId -> CertificateRow]
         /\ issuance' \in [IssuanceId -> IssuanceRow]
         /\ \A d \in CertificateId : certificate'[d] \in {certificate[d], NoCertificate}
BY AbsentType DEF TypeOK, DeleteCertificate

LEMMA UpdateIssuanceType ==
  ASSUME TypeOK, NEW w \in Worker, worker[w].pc # "idle",
         NEW s \in {"unfinished", "succeeded", "failed"}, UpdateIssuance(w, s)
  PROVE  issuance' \in [IssuanceId -> IssuanceRow]
<1>1. worker[w].id \in IssuanceId
  BY WorkerParts
<1> DEFINE Set(r) == [r EXCEPT !.status = IF @ = "absent" THEN @ ELSE s]
<1>2. ASSUME NEW r \in IssuanceRow  PROVE Set(r) \in IssuanceRow
  <2>1. CASE r = NoIssuance
    BY <2>1 DEF IssuanceRow, NoIssuance
  <2>2. CASE r \in [cert : CertificateId, status : {"unfinished", "succeeded", "failed"}]
    BY <2>2 DEF IssuanceRow
  <2> QED BY <2>1, <2>2 DEF IssuanceRow
<1>3. issuance \in [IssuanceId -> IssuanceRow]
  BY DEF TypeOK
<1>4. issuance' = [issuance EXCEPT ![worker[w].id] = Set(issuance[worker[w].id])]
  BY DEF UpdateIssuance
<1>5. Set(issuance[worker[w].id]) \in IssuanceRow
  BY <1>1, <1>2, <1>3
<1> HIDE DEF Set
<1> QED BY <1>1, <1>3, <1>4, <1>5

LEMMA ReturnType ==
  ASSUME TypeOK, NEW q \in Caller, Return(q)
  PROVE  /\ call' \in [Caller -> Call]
         /\ call'[q] = Idle
         /\ \A p \in Caller \ {q} : call'[p] = call[p]
BY DEF TypeOK, Return, Call

\* What was sound stays sound when the CA revokes more.
LEMMA SoundGrows ==
  ASSUME NEW r, Sound(r), revoked \subseteq revoked'
  PROVE  Sound(r)'
BY DEF Sound

LEMMA SoundAbsent == Sound(NoCertificate) /\ Sound(NoCertificate)'
BY DEF Sound, NoCertificate

-----------------------------------------------------------------------------
(* Every step keeps the invariant. *)

LEMMA InitInvariant == Init => IInv
<1> SUFFICES ASSUME Init  PROVE IInv
  OBVIOUS
<1>1. 1 \in CertificateId
  BY DEF CertificateId
<1>2. TypeOK
  <2>1. certificate \in [CertificateId -> CertificateRow]
    BY <1>1, AbsentType DEF Init, CertificateRow, NoCertificate
  <2> QED BY <2>1, AbsentType DEF Init, TypeOK, Call, WorkerState
<1>3. \A c \in CertificateId : Sound(certificate[c])
  BY <1>1, SoundAbsent DEF Init, Sound, NoCertificate
<1>4. (\A q \in Caller : CallInv(q)) /\ (\A w \in Worker : WorkerInv(w))
  BY SoundAbsent DEF Init, CallInv, WorkerInv, Idle, NoWorker
<1> QED BY <1>2, <1>3, <1>4 DEF IInv

\* What a call enters with and what it leaves are all that an operation can
\* disturb: the rest of the invariant is about variables it leaves alone.
LEMMA CallKeeps ==
  ASSUME IInv, NEW q \in Caller, UNCHANGED worker, revoked \subseteq revoked',
         \A p \in Caller \ {q} : call'[p] = call[p], CallInv(q)'
  PROVE  (\A p \in Caller : CallInv(p)') /\ (\A w \in Worker : WorkerInv(w)')
<1>1. ASSUME NEW p \in Caller \ {q}  PROVE CallInv(p)'
  <2>1. CallInv(p) /\ call'[p] = call[p]
    BY DEF IInv
  <2>2. Sound(call[p].copy)'
    BY <2>1, SoundGrows DEF CallInv, Sound
  <2> QED BY <2>1, <2>2 DEF CallInv
<1>2. ASSUME NEW w \in Worker  PROVE WorkerInv(w)'
  BY DEF IInv, WorkerInv, Sound
<1> QED BY <1>1, <1>2

LEMMA WorkerKeeps ==
  ASSUME IInv, NEW w \in Worker, UNCHANGED <<call, revoked>>,
         \A v \in Worker \ {w} : worker'[v] = worker[v], WorkerInv(w)'
  PROVE  (\A p \in Caller : CallInv(p)') /\ (\A v \in Worker : WorkerInv(v)')
<1>1. ASSUME NEW v \in Worker \ {w}  PROVE WorkerInv(v)'
  BY DEF IInv, WorkerInv, Sound
<1>2. ASSUME NEW p \in Caller  PROVE CallInv(p)'
  BY DEF IInv, CallInv, Sound
<1> QED BY <1>1, <1>2

\* Rows stay sound if each is what it was or a sound one.
LEMMA RowsKeep ==
  ASSUME IInv, revoked \subseteq revoked', NEW r, Sound(r)',
         \A c \in CertificateId : certificate'[c] \in {certificate[c], r}
  PROVE  \A c \in CertificateId : Sound(certificate[c])'
<1> SUFFICES ASSUME NEW c \in CertificateId  PROVE Sound(certificate[c])'
  OBVIOUS
<1>1. Sound(certificate[c])
  BY DEF IInv
<1>2. CASE certificate'[c] = certificate[c]
  BY <1>1, <1>2 DEF Sound
<1>3. CASE certificate'[c] = r
  BY <1>3 DEF Sound
<1> QED BY <1>2, <1>3

\* A step that only moves a call.
LEMMA CallMoves ==
  ASSUME IInv, NEW q \in Caller, UNCHANGED <<certificate, issuance, worker, revoked>>,
         call' \in [Caller -> Call], \A p \in Caller \ {q} : call'[p] = call[p], CallInv(q)'
  PROVE  IInv'
<1>1. TypeOK'
  BY DEF IInv, TypeOK
<1>2. \A c \in CertificateId : Sound(certificate[c])'
  BY DEF IInv, Sound
<1> QED BY <1>1, <1>2, CallKeeps DEF IInv

\* A step that only moves a worker.
LEMMA WorkerMoves ==
  ASSUME IInv, NEW w \in Worker, UNCHANGED <<certificate, call, revoked>>,
         issuance' \in [IssuanceId -> IssuanceRow], worker' \in [Worker -> WorkerState],
         \A v \in Worker \ {w} : worker'[v] = worker[v], WorkerInv(w)'
  PROVE  IInv'
<1>1. TypeOK'
  BY DEF IInv, TypeOK
<1>2. \A c \in CertificateId : Sound(certificate[c])'
  BY DEF IInv, Sound
<1> QED BY <1>1, <1>2, WorkerKeeps DEF IInv

\* An operation that returns has nothing left to write.
LEMMA ReturnInv ==
  ASSUME IInv, NEW q \in Caller, Return(q)
  PROVE  /\ call' \in [Caller -> Call] /\ CallInv(q)'
         /\ \A p \in Caller \ {q} : call'[p] = call[p]
BY ReturnType DEF IInv, CallInv, Idle, Sound, NoCertificate

\* An operation that has read a row has read a sound one.
LEMMA EnterInv ==
  ASSUME IInv, NEW q \in Caller, NEW c \in CertificateId, NEW r \in CertificateRow,
         r.status = "revoked" => r.pem \in revoked',
         r.status \in {"active", "revoked"} <=> r.pem # None,
         NEW at \in {"due", "start", "created", "save", "revoke", "delete"}, Enter(q, at, c, r),
         at \in {"start", "created", "save", "revoke"} => r.status # "absent",
         at = "revoke" => r.status = "active"
  PROVE  /\ call' \in [Caller -> Call] /\ CallInv(q)'
         /\ \A p \in Caller \ {q} : call'[p] = call[p]
<1>1. /\ call' \in [Caller -> Call]
      /\ call'[q] = [at |-> at, cert |-> c, copy |-> r]
      /\ \A p \in Caller \ {q} : call'[p] = call[p]
  <2>1. call \in [Caller -> Call]
    BY DEF IInv, TypeOK
  <2>2. [at |-> at, cert |-> c, copy |-> r] \in Call
    BY DEF Call
  <2> QED BY <2>1, <2>2 DEF Enter
<1>2. call'[q].at = at /\ call'[q].copy = r
  BY <1>1
<1>3. CallInv(q)'
  BY <1>2 DEF CallInv, Sound
<1> QED BY <1>1, <1>3

LEMMA RowSound ==
  ASSUME IInv, NEW c \in CertificateId
  PROVE  certificate[c] \in CertificateRow /\ Sound(certificate[c])
BY DEF IInv, TypeOK

LEMMA CopySound ==
  ASSUME IInv, NEW q \in Caller
  PROVE  /\ Sound(call[q].copy)
         /\ call[q].at \in {"start", "created", "save", "revoke"} => call[q].copy.status # "absent"
         /\ call[q].at = "revoke" => call[q].copy.status = "active"
BY DEF IInv, CallInv

LEMMA CreateKeeps ==
  ASSUME IInv, NEW q \in Caller, NEW d \in Domains, NEW a \in BOOLEAN, CreateCertificate(q, d, a)
  PROVE  IInv'
<1> DEFINE c == NextId(Certificates)
           r == [domains |-> d, auto |-> a, status |-> "pending", pem |-> None]
<1>1. /\ c \in CertificateId /\ certificate' = [certificate EXCEPT ![c] = r]
      /\ Enter(q, "created", c, r) /\ UNCHANGED <<issuance, worker, revoked>>
  BY DEF CreateCertificate
<1> HIDE DEF c
<1>2. r \in CertificateRow /\ Sound(r)'
  BY DEF CertificateRow, Sound
<1>3. /\ certificate' \in [CertificateId -> CertificateRow]
      /\ \A e \in CertificateId : certificate'[e] \in {certificate[e], r}
  BY <1>1, <1>2 DEF IInv, TypeOK
<1>4. r.status # "absent"
  OBVIOUS
<1> HIDE DEF r
<1>5. /\ call' \in [Caller -> Call] /\ CallInv(q)'
      /\ \A p \in Caller \ {q} : call'[p] = call[p]
  <2>1. r.pem = None /\ r.status = "pending"
    BY DEF r
  <2> QED BY <1>1, <1>2, <1>4, <2>1, EnterInv
<1>6. \A e \in CertificateId : Sound(certificate[e])'
  BY <1>1, <1>2, <1>3, RowsKeep
<1>7. TypeOK'
  BY <1>1, <1>3, <1>5 DEF IInv, TypeOK
<1> QED BY <1>1, <1>5, <1>6, <1>7, CallKeeps DEF IInv

LEMMA RenewKeeps ==
  ASSUME IInv, NEW q \in Caller, NEW c \in CertificateId, RenewCertificate(q, c)
  PROVE  IInv'
<1>1. certificate[c] \in CertificateRow /\ Sound(certificate[c]) /\ Sound(certificate[c])'
  BY RowSound DEF RenewCertificate, Sound
<1>2. /\ call' \in [Caller -> Call] /\ CallInv(q)'
      /\ \A p \in Caller \ {q} : call'[p] = call[p]
  <2> DEFINE r == certificate[c]
  <2>1. r \in CertificateRow /\ Enter(q, "start", c, r) /\ r.status # "absent"
    BY <1>1 DEF RenewCertificate
  <2>2. /\ r.status = "revoked" => r.pem \in revoked'
        /\ r.status \in {"active", "revoked"} <=> r.pem # None
    BY <1>1 DEF Sound, RenewCertificate
  <2> HIDE DEF r
  <2> QED BY <2>1, <2>2, EnterInv
<1> QED BY <1>2, CallMoves DEF RenewCertificate

LEMMA StartKeeps ==
  ASSUME IInv, NEW q \in Caller, StartIssuance(q)
  PROVE  IInv'
<1> DEFINE c == call[q].cert
           i == NextId({j \in IssuanceId : issuance[j].status # "absent"})
<1>1. /\ call[q].at \in {"start", "created"} /\ i \in IssuanceId
      /\ Return(q) /\ UNCHANGED <<certificate, revoked>>
  BY DEF StartIssuance
<1>2. PICK w \in Worker :
        /\ issuance' = [issuance EXCEPT ![i] = [cert |-> c, status |-> "unfinished"]]
        /\ worker' = [worker EXCEPT ![w] =
              [pc |-> "issue", id |-> i, cert |-> c, domains |-> call[q].copy.domains,
               copy |-> NoCertificate]]
  BY DEF StartIssuance
<1>3. /\ c \in CertificateId /\ call[q].copy \in CertificateRow
      /\ call[q].copy.status # "absent"
  BY <1>1, CallParts, CopySound DEF IInv
<1>4. call[q].copy.domains \in Domains
  BY <1>3, RowParts
<1> HIDE DEF c, i
<1>5. issuance' \in [IssuanceId -> IssuanceRow]
  BY <1>1, <1>2, <1>3 DEF IInv, TypeOK, IssuanceRow
<1>6. worker' \in [Worker -> WorkerState]
  BY <1>1, <1>2, <1>3, <1>4, AbsentType DEF IInv, TypeOK, WorkerState
<1>7. WorkerInv(w)' /\ \A v \in Worker \ {w} : worker'[v] = worker[v]
  BY <1>2, SoundAbsent DEF IInv, TypeOK, WorkerInv
<1>8. /\ call' \in [Caller -> Call] /\ CallInv(q)'
      /\ \A p \in Caller \ {q} : call'[p] = call[p]
  BY <1>1, ReturnInv
<1>9. TypeOK'
  BY <1>1, <1>5, <1>6, <1>8 DEF IInv, TypeOK
<1>10. \A e \in CertificateId : Sound(certificate[e])'
  BY <1>1 DEF IInv, Sound
<1>11. ASSUME NEW p \in Caller  PROVE CallInv(p)'
  BY <1>1, <1>8 DEF IInv, CallInv, Sound
<1>12. ASSUME NEW v \in Worker  PROVE WorkerInv(v)'
  BY <1>1, <1>7 DEF IInv, WorkerInv, Sound
<1> QED BY <1>9, <1>10, <1>11, <1>12 DEF IInv

\* RollBack and Delete.
LEMMA DeleteKeeps ==
  ASSUME IInv, NEW q \in Caller, call[q].at # "idle", DeleteCertificate(call[q].cert), Return(q),
         UNCHANGED <<worker, revoked>>
  PROVE  IInv'
<1>1. /\ certificate' \in [CertificateId -> CertificateRow]
      /\ issuance' \in [IssuanceId -> IssuanceRow]
      /\ \A d \in CertificateId : certificate'[d] \in {certificate[d], NoCertificate}
  BY CallParts, DeleteType DEF IInv
<1>2. /\ call' \in [Caller -> Call] /\ CallInv(q)'
      /\ \A p \in Caller \ {q} : call'[p] = call[p]
  BY ReturnInv
<1>3. \A e \in CertificateId : Sound(certificate[e])'
  BY <1>1, SoundAbsent, RowsKeep
<1>4. TypeOK'
  BY <1>1, <1>2 DEF IInv, TypeOK
<1> QED BY <1>2, <1>3, <1>4, CallKeeps DEF IInv

\* ListDue and ListFinished, ReadSettings, ReadActive.
LEMMA ReadKeeps ==
  ASSUME IInv, NEW q \in Caller, NEW c \in CertificateId,
         \/ ListDue(q, c) \/ ListFinished(q, c) \/ ReadActive(q, c)
         \/ \E a \in BOOLEAN : ReadSettings(q, c, a)
  PROVE  IInv'
<1>1. UNCHANGED <<certificate, issuance, worker, revoked>>
  BY DEF ListDue, ListFinished, ReadActive, ReadSettings
<1>2. certificate[c] \in CertificateRow /\ Sound(certificate[c])
  BY RowSound
<1>3. CASE ListDue(q, c) \/ ListFinished(q, c)
  <2>1. PICK at \in {"due", "delete"} : Enter(q, at, c, NoCertificate)
    BY <1>3 DEF ListDue, ListFinished
  <2>2. /\ call' \in [Caller -> Call] /\ CallInv(q)'
        /\ \A p \in Caller \ {q} : call'[p] = call[p]
    BY <2>1, AbsentType, EnterInv DEF NoCertificate
  <2> QED BY <1>1, <2>2, CallMoves
<1>4. CASE ReadActive(q, c)
  <2> DEFINE r == certificate[c]
  <2>1. /\ r \in CertificateRow /\ Enter(q, "revoke", c, r) /\ r.status = "active"
        /\ r.pem # None
    BY <1>2, <1>4 DEF ReadActive, Sound
  <2> HIDE DEF r
  <2>2. /\ call' \in [Caller -> Call] /\ CallInv(q)'
        /\ \A p \in Caller \ {q} : call'[p] = call[p]
    BY <2>1, EnterInv
  <2> QED BY <1>1, <2>2, CallMoves
<1>5. ASSUME NEW a \in BOOLEAN, ReadSettings(q, c, a)  PROVE IInv'
  <2> DEFINE r == [certificate[c] EXCEPT !.auto = a]
  <2>1. r \in CertificateRow /\ r.status = certificate[c].status /\ r.pem = certificate[c].pem
    BY <1>2, <1>5, RowParts DEF ReadSettings
  <2>2. /\ r.status = "revoked" => r.pem \in revoked'
        /\ r.status \in {"active", "revoked"} <=> r.pem # None
    BY <1>1, <1>2, <2>1 DEF Sound
  <2>3. Enter(q, "save", c, r) /\ r.status # "absent"
    BY <1>5, <2>1 DEF ReadSettings
  <2> HIDE DEF r
  <2>4. /\ call' \in [Caller -> Call] /\ CallInv(q)'
        /\ \A p \in Caller \ {q} : call'[p] = call[p]
    BY <2>1, <2>2, <2>3, EnterInv
  <2> QED BY <1>1, <2>4, CallMoves
<1> QED BY <1>3, <1>4, <1>5

\* What RevokeCertificate goes on with is revoked at the CA by now.
LEMMA RevokeKeeps ==
  ASSUME IInv, NEW q \in Caller, RevokeCert(q)
  PROVE  IInv'
<1> DEFINE pem == call[q].copy.pem
           r == [call[q].copy EXCEPT !.status = "revoked", !.auto = FALSE]
<1>1. /\ call[q].at = "revoke" /\ UNCHANGED <<certificate, issuance, worker>>
      /\ revoked' = revoked \cup {pem} \/ revoked' = revoked
      /\ Return(q) \/ (Enter(q, "save", call[q].cert, r) /\ revoked' = revoked \cup {pem})
  BY DEF RevokeCert
<1>2. /\ call[q].cert \in CertificateId /\ call[q].copy \in CertificateRow
      /\ call[q].copy.status = "active" /\ Sound(call[q].copy)
  BY <1>1, CallParts, CopySound DEF IInv
<1>3. pem \in Worker /\ revoked \subseteq revoked' /\ revoked' \in SUBSET Worker
  BY <1>1, <1>2, RowParts DEF IInv, TypeOK, Sound
<1>4. /\ r \in CertificateRow /\ r.status = "revoked" /\ r.pem = pem /\ pem # None
  BY <1>2, RowParts DEF Sound
<1> HIDE DEF r, pem
<1>5. /\ call' \in [Caller -> Call] /\ CallInv(q)'
      /\ \A p \in Caller \ {q} : call'[p] = call[p]
  <2>1. CASE Return(q)
    BY <2>1, ReturnInv
  <2>2. CASE Enter(q, "save", call[q].cert, r) /\ revoked' = revoked \cup {pem}
    <3> DEFINE c == call[q].cert
    <3>1. c \in CertificateId /\ Enter(q, "save", c, r)
      BY <1>2, <2>2
    <3>2. r.status = "revoked" => r.pem \in revoked'
      BY <1>4, <2>2
    <3>3. r.status \in {"active", "revoked"} <=> r.pem # None
      BY <1>4
    <3> HIDE DEF c
    <3> QED BY <1>4, <3>1, <3>2, <3>3, EnterInv
  <2> QED BY <1>1, <2>1, <2>2
<1>6. TypeOK'
  BY <1>1, <1>3, <1>5 DEF IInv, TypeOK
<1>7. \A c \in CertificateId : Sound(certificate[c])'
  BY <1>1, <1>3 DEF IInv, Sound
<1> QED BY <1>1, <1>3, <1>5, <1>6, <1>7, CallKeeps DEF IInv

\* What is written back was sound when it was read, and still is.
LEMMA SaveKeeps ==
  ASSUME IInv, NEW q \in Caller, SaveCopy(q)
  PROVE  IInv'
<1> DEFINE c == call[q].cert
           r == call[q].copy
<1>1. /\ call[q].at = "save" /\ UpdateCertificate(c, r) /\ Return(q)
      /\ UNCHANGED <<issuance, worker, revoked>>
  BY DEF SaveCopy
<1>2. c \in CertificateId /\ r \in CertificateRow /\ Sound(r)
  BY <1>1, CallParts, CopySound DEF IInv
<1> HIDE DEF c, r
<1>3. /\ certificate' \in [CertificateId -> CertificateRow]
      /\ \A d \in CertificateId : certificate'[d] \in {certificate[d], r}
  BY <1>1, <1>2 DEF IInv, TypeOK, UpdateCertificate
<1>4. /\ call' \in [Caller -> Call] /\ CallInv(q)'
      /\ \A p \in Caller \ {q} : call'[p] = call[p]
  BY <1>1, ReturnInv
<1>5. \A d \in CertificateId : Sound(certificate[d])'
  BY <1>1, <1>2, <1>3 DEF IInv, Sound
<1>6. TypeOK'
  BY <1>1, <1>3, <1>4 DEF IInv, TypeOK
<1> QED BY <1>1, <1>4, <1>5, <1>6, CallKeeps DEF IInv

LEMMA ServeKeeps ==
  ASSUME IInv, NEW q \in Caller, Serve(q)
  PROVE  IInv'
<1>1. ASSUME NEW d \in Domains, NEW a \in BOOLEAN, CreateCertificate(q, d, a)  PROVE IInv'
  BY <1>1, CreateKeeps
<1>2. ASSUME NEW c \in CertificateId, Renew(q, c)  PROVE IInv'
  BY <1>2, RenewKeeps DEF Renew
<1>3. ASSUME NEW c \in CertificateId,
             ListDue(q, c) \/ ReadActive(q, c) \/ ListFinished(q, c)
                \/ \E a \in BOOLEAN : ReadSettings(q, c, a)
      PROVE  IInv'
  BY <1>3, ReadKeeps
<1>4. CASE RenewDue(q)
  <2>1. call[q].cert \in CertificateId /\ RenewCertificate(q, call[q].cert)
    BY <1>4, CallParts DEF RenewDue, IInv
  <2>2. PICK c \in CertificateId : RenewCertificate(q, c)
    BY <2>1
  <2> QED BY <2>2, RenewKeeps
<1>5. CASE StartIssuance(q)
  BY <1>5, StartKeeps
<1>6. CASE RollBack(q) \/ Delete(q)
  BY <1>6, DeleteKeeps DEF RollBack, Delete
<1>7. CASE RevokeCert(q)
  BY <1>7, RevokeKeeps
<1>8. CASE SaveCopy(q)
  BY <1>8, SaveKeeps
<1>9. CASE GiveUp(q)
  BY <1>9, ReturnInv, CallMoves DEF GiveUp
<1> QED BY <1>1, <1>2, <1>3, <1>4, <1>5, <1>6, <1>7, <1>8, <1>9 DEF Serve

-----------------------------------------------------------------------------
(* The workers. *)

LEMMA IssueKeeps ==
  ASSUME IInv, NEW w \in Worker, Issue(w) \/ IssueFails(w) \/ Publish(w)
  PROVE  IInv'
<1>1. /\ worker[w].pc # "idle" /\ UNCHANGED <<certificate, call, revoked>>
      /\ \E l \in {"issue", "read", "fail", "idle"} : GotoWith(w, l, NoCertificate)
  BY DEF Issue, IssueFails, Publish, Goto, GotoWith
<1>2. issuance' \in [IssuanceId -> IssuanceRow]
  <2>1. issuance' = issuance \/ \E s \in {"unfinished", "succeeded", "failed"} : UpdateIssuance(w, s)
    BY DEF Issue, IssueFails, Publish
  <2> QED BY <1>1, <2>1, UpdateIssuanceType DEF IInv, TypeOK
<1>3. PICK l \in {"issue", "read", "fail", "idle"} : GotoWith(w, l, NoCertificate)
  BY <1>1
<1>4. /\ worker' \in [Worker -> WorkerState]
      /\ worker'[w].copy = NoCertificate /\ worker'[w].pc = l
      /\ \A v \in Worker \ {w} : worker'[v] = worker[v]
  BY <1>1, <1>3, AbsentType, GotoType DEF IInv
<1>5. WorkerInv(w)'
  BY <1>4 DEF WorkerInv, Sound, NoCertificate
<1> QED BY <1>1, <1>2, <1>4, <1>5, WorkerMoves

\* ReadCertificate and ReadPending.
LEMMA ReadRowKeeps ==
  ASSUME IInv, NEW w \in Worker, ReadCertificate(w) \/ ReadPending(w)
  PROVE  IInv'
<1> DEFINE c == worker[w].cert
<1>1. /\ worker[w].pc # "idle" /\ UNCHANGED <<certificate, issuance, call, revoked>>
  BY DEF ReadCertificate, ReadPending
<1>2. certificate[c] \in CertificateRow /\ Sound(certificate[c])
  BY <1>1, WorkerParts, RowSound DEF IInv
<1>3. PICK l \in {"fail", "install", "failing", "failed"}, r \in CertificateRow :
         /\ GotoWith(w, l, r) /\ Sound(r)
         /\ l = "install" => r.status # "absent"
         /\ l = "failing" => r.status = "pending"
  <2>1. CASE \E l \in {"fail", "failed"} : Goto(w, l)
    BY <2>1, AbsentType, SoundAbsent DEF Goto, GotoWith
  <2> DEFINE row == certificate[c]
  <2>2. CASE GotoWith(w, "install", row) /\ row.status # "absent"
    <3>1. row \in CertificateRow /\ Sound(row)
      BY <1>2
    <3> HIDE DEF row
    <3> QED BY <2>2, <3>1
  <2>3. CASE GotoWith(w, "failing", row) /\ row.status = "pending"
    <3>1. row \in CertificateRow /\ Sound(row)
      BY <1>2
    <3> HIDE DEF row
    <3> QED BY <2>3, <3>1
  <2> QED BY <2>1, <2>2, <2>3 DEF ReadCertificate, ReadPending
<1>4. /\ worker' \in [Worker -> WorkerState]
      /\ worker'[w].copy = r /\ worker'[w].pc = l
      /\ \A v \in Worker \ {w} : worker'[v] = worker[v]
  BY <1>1, <1>3, GotoType DEF IInv
<1>5. WorkerInv(w)'
  BY <1>1, <1>3, <1>4 DEF WorkerInv, Sound
<1>6. issuance' \in [IssuanceId -> IssuanceRow]
  BY <1>1 DEF IInv, TypeOK
<1> QED BY <1>1, <1>4, <1>5, <1>6, WorkerMoves

\* Install and MarkFailed.
LEMMA WriteRowKeeps ==
  ASSUME IInv, NEW w \in Worker, Install(w) \/ MarkFailed(w)
  PROVE  IInv'
<1> DEFINE c == worker[w].cert
<1>1. /\ worker[w].pc \in {"install", "failing"} /\ UNCHANGED <<issuance, call, revoked>>
      /\ \E l \in {"fail", "succeeded", "failed"} : GotoWith(w, l, NoCertificate)
  BY DEF Install, MarkFailed, Goto, GotoWith
<1>2. /\ c \in CertificateId /\ worker[w].copy \in CertificateRow
      /\ worker[w].copy.status # "absent"
      /\ worker[w].pc = "failing" => worker[w].copy.status = "pending" /\ worker[w].copy.pem = None
  BY <1>1, WorkerParts DEF IInv, WorkerInv, Sound
<1>3. PICK r \in CertificateRow : UpdateCertificate(c, r) /\ Sound(r)
  <2>1. CASE Install(w)
    <3>1. [worker[w].copy EXCEPT !.status = "active", !.pem = w] \in CertificateRow
      BY <1>2, RowParts
    <3>2. Sound([worker[w].copy EXCEPT !.status = "active", !.pem = w])
      <4>1. w # None
        BY DEF Worker, None
      <4>2. /\ [worker[w].copy EXCEPT !.status = "active", !.pem = w].status = "active"
            /\ [worker[w].copy EXCEPT !.status = "active", !.pem = w].pem = w
        BY <1>2, RowParts
      <4> QED BY <4>1, <4>2 DEF Sound
    <3> QED BY <2>1, <3>1, <3>2 DEF Install
  <2>2. CASE MarkFailed(w)
    <3>1. [worker[w].copy EXCEPT !.status = "failed"] \in CertificateRow
      BY <1>2, RowParts
    <3>2. Sound([worker[w].copy EXCEPT !.status = "failed"])
      BY <1>2, <2>2, RowParts DEF Sound, MarkFailed
    <3> QED BY <2>2, <3>1, <3>2 DEF MarkFailed
  <2> QED BY <2>1, <2>2
<1> HIDE DEF c
<1>4. /\ certificate' \in [CertificateId -> CertificateRow]
      /\ \A d \in CertificateId : certificate'[d] \in {certificate[d], r}
  BY <1>2, <1>3 DEF IInv, TypeOK, UpdateCertificate
<1>5. \A d \in CertificateId : Sound(certificate[d])'
  BY <1>1, <1>3, <1>4 DEF IInv, Sound
<1>6. PICK l \in {"fail", "succeeded", "failed"} : GotoWith(w, l, NoCertificate)
  BY <1>1
<1>7. /\ worker' \in [Worker -> WorkerState]
      /\ worker'[w].copy = NoCertificate /\ worker'[w].pc = l
      /\ \A v \in Worker \ {w} : worker'[v] = worker[v]
  BY <1>1, <1>6, AbsentType, GotoType DEF IInv
<1>8. WorkerInv(w)'
  BY <1>7 DEF WorkerInv, Sound, NoCertificate
<1>9. TypeOK'
  BY <1>1, <1>4, <1>7 DEF IInv, TypeOK
<1> QED BY <1>1, <1>5, <1>7, <1>8, <1>9, WorkerKeeps DEF IInv

-----------------------------------------------------------------------------
(* The theorems. *)

LEMMA NextInvariant == IInv /\ [Next]_vars => IInv'
<1> SUFFICES ASSUME IInv, [Next]_vars  PROVE IInv'
  OBVIOUS
<1>1. ASSUME NEW w \in Worker, Work(w)  PROVE IInv'
  BY <1>1, IssueKeeps, ReadRowKeeps, WriteRowKeeps DEF Work
<1>2. ASSUME NEW q \in Caller, Serve(q)  PROVE IInv'
  BY <1>2, ServeKeeps
<1>3. CASE UNCHANGED vars
  BY <1>3 DEF vars, IInv, TypeOK, Sound, CallInv, WorkerInv
<1> QED BY <1>1, <1>2, <1>3 DEF Next

\* The inductive invariant: every row, and every copy of a row that an
\* operation or a worker may still write back, is sound.
THEOREM Invariance == Spec => []IInv
BY InitInvariant, NextInvariant, PTL DEF Spec

\* The tables, calls and workers keep their types.
THEOREM TypeCorrect == Spec => []TypeOK
<1>1. IInv => TypeOK
  BY DEF IInv
<1> QED BY Invariance, <1>1, PTL

\* RevokeCertificate (service.go:418) never records a revocation the CA has not
\* made, however many operations and workers write the row at the same time.
THEOREM RevocationIsReal == Spec => []RevokedAtCA
<1>1. IInv => RevokedAtCA
  BY DEF IInv, Sound, RevokedAtCA
<1> QED BY Invariance, <1>1, PTL

\* A pending or failed row holds nothing and every other row a certificate, though
\* rows are written back from stale copies (service.go:394, 442,
\* issuance.go:217, 381).
THEOREM RowsTellTruth == Spec => []RowTellsTruth
<1>1. IInv => RowTellsTruth
  <2> SUFFICES ASSUME IInv, NEW c \in Certificates
               PROVE  (certificate[c].status \in {"pending", "failed"}) <=> (certificate[c].pem = None)
    BY DEF RowTellsTruth
  <2>1. c \in CertificateId /\ certificate[c].status # "absent"
    BY DEF Certificates
  <2>2. /\ certificate[c] \in CertificateRow /\ Sound(certificate[c])
    BY <2>1, RowSound
  <2>3. certificate[c].status \in {"pending", "active", "failed", "revoked"}
    BY <2>1, <2>2, RowParts
  <2> QED BY <2>2, <2>3 DEF Sound
<1> QED BY Invariance, <1>1, PTL
=============================================================================
