------------------------- MODULE Issuance_proofs -------------------------
(***************************************************************************)
(* Machine-checked proofs about Issuance, for every value of its constants: *)
(* the inductive invariant IInv of IssuanceInv, the safety and action      *)
(* properties that follow from it, and the refinement of Renewal.          *)
(*                                                                         *)
(* The argument.  OrderStep: no step takes back an order, its names, its    *)
(* CSR or its validity.  StepMoves, StepIsLocal and RowStep: a worker      *)
(* writes only its own row, only while that is unfinished, and never drops *)
(* the order or the certificate it names.  SubmissionStep and              *)
(* CertificateStep: a key reaches the CA, and a certificate its row, only   *)
(* through the worker whose row holds the key; a submission that arrives    *)
(* late was one before.  From these every part of IInv is preserved by     *)
(* the steps that write rows (WritesKeepRows, WritesKeepKeys) and by the   *)
(* one that adds a row (StartKeeps).  Where a theorem assumes              *)
(* OneCallPerCertificate, it does not hold for retries that race each other. *)
(***************************************************************************)
EXTENDS IssuanceInv, TLAPS, WellFoundedInduction

-----------------------------------------------------------------------------
(* Fields of rows and orders, and what the parts of a step leave well-typed. *)

LEMMA RowFields ==
  ASSUME NEW r \in Row
  PROVE  /\ r.cert \in Cert \cup {NoCert}
         /\ r.status \in Unfinished \cup Finished \cup {"absent"}
         /\ r.key \in Id \cup {NoKey}
         /\ r.order \in Orders \cup {NoOrder}
         /\ r.attempts \in Nat
         /\ r.confirmed \in BOOLEAN
  BY DEF Row

LEMMA RowUpdates ==
  ASSUME NEW r \in Row
  PROVE  /\ \A x \in Unfinished \cup Finished \cup {"absent"} : [r EXCEPT !.status = x] \in Row
         /\ \A x \in Id \cup {NoKey} : [r EXCEPT !.key = x] \in Row
         /\ \A x \in Orders \cup {NoOrder} : [r EXCEPT !.order = x] \in Row
         /\ \A x \in Nat : [r EXCEPT !.attempts = x] \in Row
         /\ \A x \in BOOLEAN : [r EXCEPT !.confirmed = x] \in Row
         /\ \A x \in Finished, y \in Id \cup {NoKey} : [r EXCEPT !.status = x, !.key = y] \in Row
  BY DEF Row

LEMMA AbsentType == Absent \in Row
  BY DEF Absent, Row

LEMMA OrderUpdates ==
  ASSUME NEW r \in Order
  PROVE  /\ r.status \in OrderStatus
         /\ r.csr \in Id \cup {NoKey} /\ r.late \in Id \cup {NoKey}
         /\ \A x \in OrderStatus : [r EXCEPT !.status = x] \in Order
         /\ \A x \in STRING \cup {NoCert} : [r EXCEPT !.names = x] \in Order
         /\ \A x \in {"pending", "valid", "invalid"} : [r EXCEPT !.authz = x] \in Order
         /\ \A x \in BOOLEAN : [r EXCEPT !.answered = x] \in Order
         /\ \A x \in {"processing", "valid"}, y \in Id \cup {NoKey} :
              /\ [r EXCEPT !.status = x, !.csr = y] \in Order
              /\ [r EXCEPT !.status = x, !.csr = y, !.late = NoKey] \in Order
         /\ \A y \in Id \cup {NoKey} : [r EXCEPT !.late = y] \in Order
         /\ [r EXCEPT !.authz = "invalid", !.status = "invalid"] \in Order
         /\ \A x \in STRING : [r EXCEPT !.status = "pending", !.names = x] \in Order
  BY DEF Order, OrderStatus

LEMMA WorkerCert ==
  ASSUME IInv, NEW i \in Id, pc[i] # "idle"
  PROVE  mem[i].cert \in Cert
  BY RowFields DEF IInv, TypeOK, WorkerInv, OwnsRow, RowsInOrder

LEMMA WorkerOrder ==
  ASSUME IInv, NEW i \in Id, pc[i] \in Recorded \cup {"record", "persist", "get"}
  PROVE  mem[i].order \in Orders
  BY RowFields DEF IInv, TypeOK, WorkerInv, OrderSaved, Recorded, NoOrder

LEMMA ReturnType ==
  ASSUME TypeOK, NEW i \in Id, NEW kind \in Error, Return(i, kind)
  PROVE  pc' \in [Id -> Label] /\ err' \in [Id -> Error] /\ record' \in [Orders -> OrderRow]
<1>1. pc' \in [Id -> Label] /\ err' \in [Id -> Error]
  BY DEF TypeOK, Return, Goto, Label
<1>2. ASSUME NEW o \in Orders  PROVE [record[o] EXCEPT !.status = seen[i]] \in OrderRow
  BY DEF TypeOK, OrderRow
<1>3. [record EXCEPT ![mem[i].order].status = seen[i]] \in [Orders -> OrderRow]
  BY <1>2 DEF TypeOK
<1> QED
  BY <1>1, <1>3 DEF TypeOK, Return

LEMMA CleanupType ==
  ASSUME TypeOK, NEW i \in Id, Cleanup(i)
  PROVE  served' \in SUBSET Orders /\ cleanups' \in [Id -> BOOLEAN]
  BY DEF TypeOK, Cleanup

LEMMA FinishType ==
  ASSUME TypeOK, NEW i \in Id, NEW status \in Finished, NEW kind, Finish(i, status, kind)
  PROVE  /\ pc' \in [Id -> Label] /\ mem' \in [Id -> Row]
         /\ certificate' \in [Cert -> CertificateRow]
         /\ served' \in SUBSET Orders /\ cleanups' \in [Id -> BOOLEAN]
<1>1. Cleanup(i) /\ Goto(i, "publish")
  BY DEF Finish
<1>2. pc' \in [Id -> Label]
  BY <1>1 DEF TypeOK, Goto, Label
<1>3. mem' \in [Id -> Row]
  <2>1. \A key \in Id \cup {NoKey} : [mem[i] EXCEPT !.status = status, !.key = key] \in Row
    BY RowUpdates DEF TypeOK
  <2>2. [mem[i] EXCEPT !.status = status, !.key = IF kind = "transient" THEN @ ELSE NoKey] \in Row
    <3>1. mem[i].key \in Id \cup {NoKey}
      BY RowFields DEF TypeOK
    <3> QED BY <2>1, <3>1
  <2> QED BY <2>2 DEF Finish, TypeOK
<1>4. certificate' \in [Cert -> CertificateRow]
  <2>1. \A c \in Cert : [certificate[c] EXCEPT !.status = "failed"] \in CertificateRow
    BY DEF TypeOK, CertificateRow
  <2> QED BY <2>1 DEF Finish, TypeOK
<1> QED
  BY <1>1, <1>2, <1>3, <1>4, CleanupType

-----------------------------------------------------------------------------
(* Issuances are numbered in the order of their creation. *)

LEMMA IdOrder ==
  \A i, j \in Id : i \in Nat /\ i # NoKey /\ (i < j \/ i = j \/ j < i)
  BY ConstantsAssumption DEF Id, NoKey

\* A certificate that has issuances has a newest one.
LEMMA NewestExists ==
  ASSUME NEW S \in SUBSET Id, S # {}
  PROVE  \E k \in S : \A j \in S : j <= k
<1> DEFINE less == {ss \in Nat \X Nat : ss[1] < ss[2]}
           T == {MaxIssuance - k : k \in S}
<1>1. IsWellFoundedOn(less, Nat)
  BY NatLessThanWellFounded DEF OpToRel
<1>2. T \subseteq Nat /\ T # {}
  <2>1. \A k \in S : k \in Id /\ MaxIssuance - k \in Nat
    BY ConstantsAssumption DEF Id
  <2> QED BY <2>1
<1>3. PICK x \in T : \A y \in T : ~(<<y, x>> \in less)
  <2> HIDE DEF less, T
  <2> QED BY <1>1, <1>2, WFMin
<1>4. \A y \in T : x <= y
  <2> TAKE y \in T
  <2>1. x \in Nat /\ y \in Nat
    BY <1>2, <1>3
  <2>2. ~(y < x)
    BY <1>3, <2>1
  <2> QED BY <2>1, <2>2
<1>5. PICK k \in S : x = MaxIssuance - k
  BY <1>3
<1>6. \A j \in S : j <= k
  <2> TAKE j \in S
  <2>1. x <= MaxIssuance - j
    BY <1>4
  <2> QED BY <1>5, <2>1, ConstantsAssumption DEF Id
<1> QED BY <1>6

LEMMA NewestIsLast ==
  ASSUME NEW c, Newest(c) # 0
  PROVE  Newest(c) \in Id /\ row[Newest(c)].cert = c /\ ~Superseded(Newest(c))
<1> DEFINE of == {k \in Id : row[k].cert = c}
           last == Newest(c)
<1>1. of # {} /\ last = CHOOSE k \in of : \A j \in of : j <= k
  BY DEF Newest
<1>2. \E k \in of : \A j \in of : j <= k
  BY <1>1, NewestExists
<1>3. last \in of /\ \A j \in of : j <= last
  BY <1>1, <1>2
<1> HIDE DEF last
<1>4. last \in Id /\ row[last].cert = c /\ ~Superseded(last)
  BY <1>3, IdOrder DEF Superseded
<1> QED BY <1>4 DEF last

-----------------------------------------------------------------------------
(* What the steps leave alone. *)

\* The orders, the calls and the certificates: which step of a worker changes them.
StepFramed(i) ==
    /\ UNCHANGED order \/ CreateOrder(i) \/ CompleteChallenge(i) \/ SubmitCSR(i)
    /\ UNCHANGED certificate \/ Install(i) \/ Returned(i)
    /\ UNCHANGED starting

LEMMA StepFrame ==
  ASSUME NEW i \in Id, Step(i)
  PROVE  StepFramed(i)
<1>1. ASSUME TimerFires(i)  PROVE StepFramed(i)
  BY <1>1 DEF StepFramed, TimerFires, storeVars
<1>2. ASSUME BeginAttempt(i)  PROVE StepFramed(i)
  BY <1>2 DEF StepFramed, BeginAttempt
<1>3. ASSUME StepFails(i)  PROVE StepFramed(i)
  BY <1>3 DEF StepFramed, StepFails
<1>4. ASSUME Returned(i)  PROVE StepFramed(i)
  BY <1>4 DEF StepFramed, Returned
<1>5. ASSUME SaveAndStop(i)  PROVE StepFramed(i)
  BY <1>5 DEF StepFramed, SaveAndStop
<1>6. ASSUME Exit(i)  PROVE StepFramed(i)
  BY <1>6 DEF StepFramed, Exit, storeVars
<1>7. ASSUME CreateOrder(i)  PROVE StepFramed(i)
  BY <1>7 DEF StepFramed, CreateOrder
<1>8. ASSUME PersistOrder(i)  PROVE StepFramed(i)
  BY <1>8 DEF StepFramed, PersistOrder
<1>9. ASSUME GetOrder(i)  PROVE StepFramed(i)
  BY <1>9 DEF StepFramed, GetOrder, storeVars
<1>10. ASSUME RecordOrder(i)  PROVE StepFramed(i)
  BY <1>10 DEF StepFramed, RecordOrder
<1>11. ASSUME GetAuthorization(i)  PROVE StepFramed(i)
  BY <1>11 DEF StepFramed, GetAuthorization, storeVars
<1>12. ASSUME Present(i)  PROVE StepFramed(i)
  BY <1>12 DEF StepFramed, Present, storeVars
<1>13. ASSUME AskOperator(i)  PROVE StepFramed(i)
  BY <1>13 DEF StepFramed, AskOperator
<1>14. ASSUME CheckDNS(i)  PROVE StepFramed(i)
  BY <1>14 DEF StepFramed, CheckDNS
<1>15. ASSUME ConfirmDNS(i)  PROVE StepFramed(i)
  BY <1>15 DEF StepFramed, ConfirmDNS
<1>16. ASSUME CompleteChallenge(i)  PROVE StepFramed(i)
  BY <1>16 DEF StepFramed, CompleteChallenge
<1>17. ASSUME WaitAuthorization(i)  PROVE StepFramed(i)
  BY <1>17 DEF StepFramed, WaitAuthorization
<1>18. ASSUME SubmitCSR(i)  PROVE StepFramed(i)
  BY <1>18 DEF StepFramed, SubmitCSR
<1>19. ASSUME WaitOrder(i)  PROVE StepFramed(i)
  BY <1>19 DEF StepFramed, WaitOrder
<1>20. ASSUME Download(i)  PROVE StepFramed(i)
  BY <1>20 DEF StepFramed, Download
<1>21. ASSUME Install(i)  PROVE StepFramed(i)
  BY <1>21 DEF StepFramed, Install
<1> QED
  BY <1>1, <1>2, <1>3, <1>4, <1>5, <1>6, <1>7, <1>8, <1>9, <1>10, <1>11,
     <1>12, <1>13, <1>14, <1>15, <1>16, <1>17, <1>18, <1>19, <1>20, <1>21 DEF Step

\* The steps of the service, the CA and the calls that touch no row, no worker
\* and no certificate.
Quiet ==
    /\ UNCHANGED <<row, certificate, mem, pc>>
    /\ UNCHANGED order \/ \E o \in Orders : CAValidates(o) \/ CAAdvances(o) \/ DeliverLate(o)

LEMMA NextCases ==
  ASSUME [Next]_vars
  PROVE  \/ \E i \in Id : Step(i)
         \/ \E q \in Request : CreateIssuance(q)
         \/ \E i \in Id, force \in BOOLEAN : ContinueIssuance(i, force)
         \/ Crash \/ NewService \/ Quiet
<1>1. ASSUME NEW i \in Id, CancelIssuance(i)  PROVE Quiet
  BY <1>1 DEF Quiet, CancelIssuance, storeVars
<1>2. ASSUME NEW q \in Request, NEW same \in BOOLEAN, ListPrevious(q, same)  PROVE Quiet
  BY <1>2 DEF Quiet, ListPrevious, storeVars, jobVars
<1>3. ASSUME NEW q \in Request, StartFails(q)  PROVE Quiet
  BY <1>3 DEF Quiet, StartFails, storeVars, jobVars
<1>4. CASE Close
  BY <1>4 DEF Quiet, Close, storeVars, jobVars
<1>5. CASE Closed
  BY <1>5 DEF Quiet, Closed, storeVars, jobVars
<1>6. ASSUME NEW o \in Orders, CAValidates(o)  PROVE Quiet
  <2>1. UNCHANGED <<row, certificate, mem, pc>>
    BY <1>6 DEF CAValidates, storeVars, jobVars
  <2> QED BY <1>6, <2>1 DEF Quiet
<1>7. ASSUME NEW o \in Orders, CAAdvances(o)  PROVE Quiet
  <2>1. UNCHANGED <<row, certificate, mem, pc>>
    BY <1>7 DEF CAAdvances, storeVars, jobVars
  <2> QED BY <1>7, <2>1 DEF Quiet
<1>9. ASSUME NEW o \in Orders, DeliverLate(o)  PROVE Quiet
  <2>1. UNCHANGED <<row, certificate, mem, pc>>
    BY <1>9 DEF DeliverLate, storeVars, jobVars
  <2> QED BY <1>9, <2>1 DEF Quiet
<1>8. CASE UNCHANGED vars
  BY <1>8 DEF Quiet, vars, storeVars, jobVars
<1> QED
  BY <1>1, <1>2, <1>3, <1>4, <1>5, <1>6, <1>7, <1>8, <1>9 DEF Next

-----------------------------------------------------------------------------
(* Types. *)

LEMMA TypeStep ==
  ASSUME IInv, [Next]_vars
  PROVE  TypeOK'
<1> TypeOK
  BY DEF IInv
<1>1. ASSUME NEW i \in Id, Step(i)  PROVE TypeOK'
  <2> mem[i] \in Row /\ row[i] \in Row
    BY DEF TypeOK
  <2>1. CASE TimerFires(i)
    <3>1. [mem[i] EXCEPT !.attempts = @ + 1] \in Row
      <4>1. mem[i].attempts + 1 \in Nat
        BY RowFields
      <4> QED BY <4>1, RowUpdates
    <3> QED BY <2>1, <3>1 DEF TypeOK, TimerFires, Goto, Label, storeVars
  <2>2. CASE BeginAttempt(i)
    <3> DEFINE r == [mem[i] EXCEPT !.status = "running",
                                   !.attempts = IF @ = 0 THEN 1 ELSE @]
    <3>1. r \in Row
      BY DEF TypeOK, Row, Unfinished
    <3> HIDE DEF r
    <3>2. CASE Return(i, "permanent") /\ UNCHANGED row
      BY <2>2, <3>1, <3>2, ReturnType DEF TypeOK, BeginAttempt, Error, r
    <3>3. CASE /\ SaveRow(i, r) /\ UNCHANGED <<record, err>>
               /\ Goto(i, IF r.order = NoOrder THEN "create" ELSE "get")
      BY <2>2, <3>1, <3>3 DEF TypeOK, BeginAttempt, SaveRow, Goto, Label, r
    <3> QED BY <2>2, <3>2, <3>3 DEF BeginAttempt, r
  <2>3. CASE StepFails(i)
    <3>1. PICK kind \in Error : Return(i, kind)
      BY <2>3 DEF StepFails, Error
    <3> QED BY <2>3, <3>1, ReturnType DEF TypeOK, StepFails
  <2>4. CASE Returned(i)
    <3>1. UNCHANGED <<record, seen, err, canceled, order, service, starting>>
      BY <2>4 DEF Returned
    <3>2. CASE \E status \in Finished, kind \in Error : Finish(i, status, kind)
      BY <3>1, <3>2, FinishType DEF TypeOK, Finish
    <3>3. CASE Goto(i, "checkpoint") /\ UNCHANGED <<row, certificate, mem, cleanups, served>>
      BY <3>1, <3>3 DEF TypeOK, Goto, Label
    <3>4. CASE ScheduleRetry(i)
      <4>1. [mem[i] EXCEPT !.status = "retrying"] \in Row
        BY RowUpdates DEF Unfinished
      <4> QED BY <3>1, <3>4, <4>1 DEF TypeOK, ScheduleRetry, SaveRow, Goto, Label
    <3> QED
      BY <2>4, <3>2, <3>3, <3>4 DEF Returned, Finished, Error, TypeOK
  <2>5. CASE SaveAndStop(i)
    BY <2>5 DEF TypeOK, SaveAndStop, MaySaveRow, SaveRow, Goto, Label
  <2>6. CASE Exit(i)
    BY <2>6, AbsentType, CleanupType DEF TypeOK, Exit, Goto, Label, OrderStatus, Error, storeVars
  <2>7. CASE CreateOrder(i)
    <3>1. PICK o \in Offered(i) :
            /\ order' = IF order[o].status = "none"
                        THEN [order EXCEPT ![o].status = "pending",
                                           ![o].names = Names[mem[i].cert]]
                        ELSE order
            /\ \/ /\ mem' = [mem EXCEPT ![i].order = o]
                  /\ seen' = [seen EXCEPT ![i] = order'[o].status]
                  /\ Goto(i, "persist")
                  /\ UNCHANGED <<err, record>>
               \/ Return(i, "transient") /\ UNCHANGED <<mem, seen>>
      BY <2>7 DEF CreateOrder
    <3>2. o \in Orders
      BY <3>1 DEF Offered
    <3>3. Names[mem[i].cert] \in STRING
      BY <2>7, WorkerCert, ConstantsAssumption DEF CreateOrder
    <3>4. [order[o] EXCEPT !.status = "pending", !.names = Names[mem[i].cert]] \in Order
      BY <3>2, <3>3, OrderUpdates DEF TypeOK
    <3>5. order' \in [Orders -> Order]
      BY <3>1, <3>2, <3>4 DEF TypeOK
    <3>6. [mem[i] EXCEPT !.order = o] \in Row /\ order'[o].status \in OrderStatus
      BY <3>2, <3>5, RowUpdates, OrderUpdates
    <3> QED BY <2>7, <3>1, <3>5, <3>6, ReturnType DEF TypeOK, CreateOrder, Goto, Label, Error
  <2>8. CASE PersistOrder(i)
    BY <2>8, ReturnType DEF TypeOK, PersistOrder, SaveRow, Goto, Label, Error
  <2>9. CASE GetOrder(i)
    <3>1. mem[i].order \in Orders
      BY <2>9, WorkerOrder DEF GetOrder
    <3>2. order[mem[i].order].status \in OrderStatus
      BY <3>1, OrderUpdates DEF TypeOK
    <3> QED BY <2>9, <3>2 DEF TypeOK, GetOrder, Goto, Label, storeVars
  <2>10. CASE RecordOrder(i)
    <3>1. [issuance |-> i, status |-> seen[i]] \in OrderRow
      BY DEF TypeOK, OrderRow
    <3> QED BY <2>10, <3>1 DEF TypeOK, RecordOrder, Goto, Label
  <2>11. CASE GetAuthorization(i)
    BY <2>11 DEF TypeOK, GetAuthorization, Goto, Label, storeVars
  <2>12. CASE Present(i)
    <3>1. mem[i].order \in Orders
      BY <2>12, WorkerOrder DEF Present, Recorded
    <3>2. pc' \in [Id -> Label]
      BY <2>12 DEF TypeOK, Present, Goto, Label
    <3>3. served' \in SUBSET Orders
      BY <2>12, <3>1 DEF TypeOK, Present
    <3>4. cleanups' \in [Id -> BOOLEAN]
      BY <2>12 DEF TypeOK, Present
    <3>5. UNCHANGED <<row, certificate, record, mem, seen, err, canceled, order, service, starting>>
      BY <2>12 DEF Present, storeVars
    <3> QED BY <3>2, <3>3, <3>4, <3>5 DEF TypeOK
  <2>13. CASE AskOperator(i)
    <3>1. [mem[i] EXCEPT !.status = "waiting"] \in Row
      BY RowUpdates DEF Unfinished
    <3> QED BY <2>13, <3>1 DEF TypeOK, AskOperator, SaveRow, Goto, Label
  <2>14. CASE CheckDNS(i)
    <3>1. [mem[i] EXCEPT !.status = "running"] \in Row
      BY RowUpdates DEF Unfinished
    <3> QED BY <2>14, <3>1 DEF TypeOK, CheckDNS, SaveRow, Goto, Label
  <2>15. CASE ConfirmDNS(i)
    <3>1. [mem[i] EXCEPT !.status = "running", !.confirmed = TRUE] \in Row
      BY DEF Row, Unfinished
    <3> QED BY <2>15, <3>1 DEF TypeOK, ConfirmDNS, SaveRow, Goto, Label
  <2>16. CASE CompleteChallenge(i)
    <3>1. \A o \in Orders : [order[o] EXCEPT !.answered = TRUE] \in Order
      BY OrderUpdates DEF TypeOK
    <3>2. order' \in [Orders -> Order]
      BY <2>16, <3>1 DEF TypeOK, CompleteChallenge
    <3> QED BY <2>16, <3>2, ReturnType DEF TypeOK, CompleteChallenge, Goto, Label, Error
  <2>17. CASE WaitAuthorization(i)
    BY <2>17, ReturnType DEF TypeOK, WaitAuthorization, Goto, Label, Error
  <2>18. CASE SubmitCSR(i)
    <3>1. \A o \in Orders :
            /\ [order[o] EXCEPT !.late = mem[i].key] \in Order
            /\ \A x \in {"processing", "valid"} :
                 [order[o] EXCEPT !.status = x, !.csr = mem[i].key] \in Order
      BY RowFields, OrderUpdates DEF TypeOK
    <3>2. order' \in [Orders -> Order]
      <4>1. PICK o \in Orders \cup {NoOrder} :
              \/ \E x \in {"processing", "valid"} :
                   order' = [order EXCEPT ![o] = [@ EXCEPT !.status = x, !.csr = mem[i].key]]
              \/ order' = [order EXCEPT ![o].late = mem[i].key]
        BY <2>18, RowFields DEF SubmitCSR, Accept
      <4>2. PICK r : order' = [order EXCEPT ![o] = r] /\ (o \in Orders => r \in Order)
        BY <3>1, <4>1
      <4> QED BY <4>2 DEF TypeOK
    <3>3. pc' \in [Id -> Label] /\ err' \in [Id -> Error] /\ record' \in [Orders -> OrderRow]
      BY <2>18, ReturnType DEF TypeOK, SubmitCSR, Goto, Label, Error
    <3>4. seen' \in [Id -> OrderStatus]
      BY <2>18 DEF TypeOK, SubmitCSR, OrderStatus
    <3>5. UNCHANGED <<row, certificate, mem, canceled, cleanups, served, service, starting>>
      BY <2>18 DEF SubmitCSR
    <3> QED BY <3>2, <3>3, <3>4, <3>5 DEF TypeOK
  <2>19. CASE WaitOrder(i)
    BY <2>19, ReturnType DEF TypeOK, WaitOrder, Goto, Label, Error, OrderStatus
  <2>20. CASE Download(i)
    BY <2>20, ReturnType DEF TypeOK, Download, Goto, Label, Error
  <2>21. CASE Install(i)
    <3>1. mem[i].order \in Orders
      BY <2>21, WorkerOrder DEF Install, Recorded
    <3>2. [status |-> "active", key |-> mem[i].key, pem |-> order[mem[i].order].csr] \in CertificateRow
      BY <3>1, RowFields, OrderUpdates DEF TypeOK, CertificateRow
    <3> QED BY <2>21, <3>2, ReturnType DEF TypeOK, Install, Error
  <2> QED
    BY <1>1, <2>1, <2>2, <2>3, <2>4, <2>5, <2>6, <2>7, <2>8, <2>9, <2>10, <2>11, <2>12,
       <2>13, <2>14, <2>15, <2>16, <2>17, <2>18, <2>19, <2>20, <2>21 DEF Step
<1>2. ASSUME NEW i \in Id, CancelIssuance(i)  PROVE TypeOK'
  BY <1>2 DEF TypeOK, CancelIssuance, storeVars
<1>3. ASSUME NEW i \in Id, NEW force \in BOOLEAN, ContinueIssuance(i, force)  PROVE TypeOK'
  BY <1>3 DEF TypeOK, ContinueIssuance, Goto, Label, storeVars
<1>4. ASSUME NEW q \in Request, NEW same \in BOOLEAN, ListPrevious(q, same)  PROVE TypeOK'
  <2> DEFINE last == Newest(Target[q])
             fresh == [Absent EXCEPT !.cert = Target[q], !.status = "running"]
             inherited == [fresh EXCEPT !.key = row[last].key,
                                        !.order = row[last].order,
                                        !.confirmed = row[last].confirmed]
  <2>1. \/ starting' = [starting EXCEPT ![q] = fresh]
        \/ last # 0 /\ starting' = [starting EXCEPT ![q] = inherited]
    BY <1>4 DEF ListPrevious
  <2>2. fresh \in Row
    BY ConstantsAssumption DEF Absent, Row, Unfinished
  <2>3. last # 0 => last \in Id
    BY NewestIsLast
  <2>4. last # 0 => inherited \in Row
    <3> SUFFICES ASSUME last # 0  PROVE inherited \in Row
      OBVIOUS
    <3>1. row[last] \in Row
      BY <2>3 DEF TypeOK
    <3> HIDE DEF last, fresh
    <3> QED BY <2>2, <3>1, RowFields DEF Row
  <2>5. starting' \in [Request -> Row]
    <3> HIDE DEF last, fresh, inherited
    <3> QED BY <2>1, <2>2, <2>4 DEF TypeOK
  <2> QED BY <1>4, <2>5 DEF TypeOK, ListPrevious, storeVars, jobVars
<1>10. ASSUME NEW q \in Request, CreateIssuance(q)  PROVE TypeOK'
  <2> DEFINE new(i) == [starting[q] EXCEPT !.key = IF @ = NoKey THEN i ELSE @]
  <2>3. PICK i \in Id : SaveRow(i, new(i)) /\ mem' = [mem EXCEPT ![i] = new(i)] /\ Goto(i, "begin")
    BY <1>10 DEF CreateIssuance
  <2>1. PICK r : r = new(i) /\ SaveRow(i, r) /\ mem' = [mem EXCEPT ![i] = r] /\ Goto(i, "begin")
    <3> HIDE DEF new
    <3> QED BY <2>3
  <2>2. r \in Row
    <3>1. starting[q] \in Row
      BY DEF TypeOK
    <3>2. (IF starting[q].key = NoKey THEN i ELSE starting[q].key) \in Id \cup {NoKey}
      BY <3>1, RowFields
    <3> QED BY <2>1, <3>1, <3>2, RowUpdates
  <2>4. row' \in [Id -> Row] /\ mem' \in [Id -> Row]
    BY <2>1, <2>2 DEF TypeOK, SaveRow
  <2>5. pc' \in [Id -> Label]
    BY <2>1 DEF TypeOK, Goto, Label
  <2>6. starting' \in [Request -> Row]
    BY <1>10, AbsentType DEF TypeOK, CreateIssuance
  <2>7. UNCHANGED <<certificate, record, seen, err, canceled, cleanups, served, order, service>>
    BY <1>10 DEF CreateIssuance
  <2> QED BY <2>4, <2>5, <2>6, <2>7 DEF TypeOK
<1>11. ASSUME NEW q \in Request, StartFails(q)  PROVE TypeOK'
  BY <1>11, AbsentType DEF TypeOK, StartFails, storeVars, jobVars
<1>5. CASE Close \/ Closed
  BY <1>5 DEF TypeOK, Close, Closed, storeVars, jobVars
<1>6. CASE Crash
  BY <1>6, AbsentType DEF TypeOK, Crash, Label, OrderStatus, Error, storeVars
<1>7. CASE NewService
  <2>1. \A i \in Id : row[i] \in Row /\ [row[i] EXCEPT !.status = "failed"] \in Row
    BY RowUpdates DEF TypeOK, Finished
  <2>2. \A c \in Cert : /\ certificate[c] \in CertificateRow
                        /\ [certificate[c] EXCEPT !.status = "failed"] \in CertificateRow
    BY DEF TypeOK, CertificateRow
  <2>3. row' \in [Id -> Row]
    BY <1>7, <2>1 DEF NewService, TypeOK
  <2>4. certificate' \in [Cert -> CertificateRow]
    BY <1>7, <2>2 DEF NewService, TypeOK
  <2>5. pc' \in [Id -> Label] /\ mem' \in [Id -> Row]
    BY <1>7, <2>1, AbsentType DEF NewService, Label
  <2> QED BY <1>7, <2>3, <2>4, <2>5 DEF TypeOK, NewService
<1>8. ASSUME NEW o \in Orders, CAValidates(o) \/ CAAdvances(o) \/ DeliverLate(o)  PROVE TypeOK'
  <2>1. order[o] \in Order
    BY DEF TypeOK
  <2>2. CASE CAValidates(o)
    <3>1. /\ [order[o] EXCEPT !.authz = "valid"] \in Order
          /\ [order[o] EXCEPT !.authz = "invalid", !.status = "invalid"] \in Order
      BY <2>1, OrderUpdates
    <3>2. order' \in [Orders -> Order]
      BY <2>2, <3>1 DEF TypeOK, CAValidates
    <3> QED BY <2>2, <3>2 DEF TypeOK, CAValidates, storeVars, jobVars
  <2>3. CASE CAAdvances(o)
    <3>1. \A x \in {"ready", "valid", "invalid"} : [order[o] EXCEPT !.status = x] \in Order
      BY <2>1, OrderUpdates DEF OrderStatus
    <3>2. order' \in [Orders -> Order]
      BY <2>3, <3>1 DEF TypeOK, CAAdvances
    <3> QED BY <2>3, <3>2 DEF TypeOK, CAAdvances, storeVars, jobVars
  <2>4. CASE DeliverLate(o)
    <3>1. /\ \A x \in {"processing", "valid"} :
               [order[o] EXCEPT !.status = x, !.csr = order[o].late, !.late = NoKey] \in Order
          /\ [order[o] EXCEPT !.late = NoKey] \in Order
      BY <2>1, OrderUpdates
    <3>2. order' \in [Orders -> Order]
      BY <2>4, <3>1 DEF TypeOK, DeliverLate
    <3> QED BY <2>4, <3>2 DEF TypeOK, DeliverLate, storeVars, jobVars
  <2> QED BY <1>8, <2>2, <2>3, <2>4
<1>9. CASE UNCHANGED vars
  BY <1>9 DEF TypeOK, vars, storeVars, jobVars
<1> QED
  BY <1>1, <1>2, <1>3, <1>4, <1>5, <1>6, <1>7, <1>8, <1>9, <1>10, <1>11 DEF Next

LEMMA OrderFields ==
  ASSUME NEW r \in Order
  PROVE  /\ \A x \in STRING : LET s == [r EXCEPT !.status = "pending", !.names = x]
                              IN  /\ s.status = "pending" /\ s.names = x
                                  /\ s.csr = r.csr /\ s.late = r.late
         /\ \A x : LET s == [r EXCEPT !.answered = x]
                   IN  s.status = r.status /\ s.names = r.names /\ s.csr = r.csr /\ s.late = r.late
         /\ \A x : LET s == [r EXCEPT !.authz = x]
                   IN  s.status = r.status /\ s.names = r.names /\ s.csr = r.csr /\ s.late = r.late
         /\ \A x : LET s == [r EXCEPT !.status = x]
                   IN  s.status = x /\ s.names = r.names /\ s.csr = r.csr /\ s.late = r.late
         /\ LET s == [r EXCEPT !.authz = "invalid", !.status = "invalid"]
            IN  s.status = "invalid" /\ s.names = r.names /\ s.csr = r.csr /\ s.late = r.late
         /\ \A x, y : LET s == [r EXCEPT !.status = x, !.csr = y]
                      IN  s.status = x /\ s.names = r.names /\ s.csr = y /\ s.late = r.late
         /\ \A x, y : LET s == [r EXCEPT !.status = x, !.csr = y, !.late = NoKey]
                      IN  s.status = x /\ s.names = r.names /\ s.csr = y /\ s.late = NoKey
         /\ \A y : LET s == [r EXCEPT !.late = y]
                   IN  s.status = r.status /\ s.names = r.names /\ s.csr = r.csr /\ s.late = y
  BY DEF Order

LEMMA OrderKept ==
  ASSUME [Next]_vars
  PROVE  \/ UNCHANGED order
         \/ \E i \in Id : CreateOrder(i) \/ CompleteChallenge(i) \/ SubmitCSR(i)
         \/ \E o \in Orders : CAValidates(o) \/ CAAdvances(o) \/ DeliverLate(o)
<1>1. CASE Crash \/ NewService
  BY <1>1 DEF Crash, NewService
<1>2. ASSUME NEW i \in Id, NEW force \in BOOLEAN, ContinueIssuance(i, force)  PROVE UNCHANGED order
  BY <1>2 DEF ContinueIssuance
<1>3. ASSUME NEW q \in Request, CreateIssuance(q)  PROVE UNCHANGED order
  BY <1>3 DEF CreateIssuance
<1> QED
  BY <1>1, <1>2, <1>3, NextCases, StepFrame DEF StepFramed, Quiet

\* The worker of issuance i submits key k to order o: its row holds both.
Submits(i, o, k) ==
    /\ row[i].status \in Unfinished /\ row[i].order = o
    /\ row[i].key = k /\ k # NoKey

\* What a step may do to order o: create it, change its status, take a submission
\* now or later, or receive or refuse one that was late.
Advances(from, to) ==
    \/ from = to
    \/ from = "none" /\ to = "pending"
    \/ from = "pending" /\ to = "ready"
    \/ from = "processing" /\ to = "valid"
    \/ from \in {"pending", "ready", "processing"} /\ to = "invalid"

Takes(o, key) ==
    /\ order[o].status = "ready" /\ order'[o].status \in {"processing", "valid"}
    /\ order'[o].csr = key

OrderMove(o) ==
    /\ \/ /\ Advances(order[o].status, order'[o].status)
          /\ order'[o].csr = order[o].csr /\ order'[o].late = order[o].late
       \/ \E i \in Id :
            /\ Submits(i, o, row[i].key)
            /\ \/ Takes(o, row[i].key) /\ order'[o].late = order[o].late
               \/ /\ LateRequests /\ order[o].status = "ready"
                  /\ order[o].late = NoKey /\ order'[o].late = row[i].key
                  /\ order'[o].status = order[o].status /\ order'[o].csr = order[o].csr
       \/ /\ order[o].late # NoKey /\ order'[o].late = NoKey
          /\ \/ Takes(o, order[o].late)
             \/ order'[o].status = order[o].status /\ order'[o].csr = order[o].csr
    /\ order[o].status # "none" => order'[o].names = order[o].names

\* A step changes at most one order, and then neither rows nor certificates.
Alone(o) == (\A p \in Orders \ {o} : order'[p] = order[p]) /\ UNCHANGED <<row, certificate>>

LEMMA OrderMoves ==
  ASSUME IInv, [Next]_vars, NEW o \in Orders
  PROVE  OrderMove(o) /\ (order'[o] # order[o] => Alone(o))
<1>1. order \in [Orders -> Order] /\ order[o] \in Order
  BY DEF IInv, TypeOK
<1>2. CASE order'[o] = order[o]
  BY <1>2 DEF OrderMove, Advances
<1>3. ASSUME NEW i \in Id, CreateOrder(i), order'[o] # order[o]
      PROVE  OrderMove(o) /\ Alone(o)
  <2>1. /\ order[o].status = "none"
        /\ order'[o] = [order[o] EXCEPT !.status = "pending", !.names = Names[mem[i].cert]]
        /\ Alone(o)
    BY <1>1, <1>3 DEF CreateOrder, Alone
  <2>2. Names[mem[i].cert] \in STRING
    BY <1>3, WorkerCert, ConstantsAssumption DEF CreateOrder
  <2>3. order'[o].status = "pending" /\ order'[o].csr = order[o].csr /\ order'[o].late = order[o].late
    BY <1>1, <2>1, <2>2, OrderFields
  <2>4. Advances(order[o].status, order'[o].status)
    BY <2>1, <2>3 DEF Advances
  <2> QED BY <2>1, <2>3, <2>4 DEF OrderMove
<1>4. ASSUME NEW i \in Id, CompleteChallenge(i), order'[o] # order[o]
      PROVE  OrderMove(o) /\ Alone(o)
  <2>0. mem[i].order = o /\ order' = [order EXCEPT ![o].answered = TRUE]
    BY <1>1, <1>4 DEF CompleteChallenge
  <2>1. order'[o] = [order[o] EXCEPT !.answered = TRUE] /\ Alone(o)
    BY <1>1, <1>4, <2>0 DEF CompleteChallenge, Alone
  <2>2. /\ order'[o].status = order[o].status /\ order'[o].csr = order[o].csr
        /\ order'[o].names = order[o].names /\ order'[o].late = order[o].late
    BY <1>1, <2>1, OrderFields
  <2> QED BY <2>1, <2>2 DEF OrderMove, Advances
<1>5. ASSUME NEW i \in Id, SubmitCSR(i), order'[o] # order[o]
      PROVE  OrderMove(o) /\ Alone(o)
  <2>1. /\ o = mem[i].order /\ pc[i] = "finalize" /\ order[o].status = "ready" /\ Alone(o)
        /\ \/ \E x \in {"processing", "valid"} :
                 order'[o] = [order[o] EXCEPT !.status = x, !.csr = mem[i].key]
           \/ /\ LateRequests /\ order[o].late = NoKey
              /\ order'[o] = [order[o] EXCEPT !.late = mem[i].key]
    BY <1>1, <1>5 DEF SubmitCSR, Accept, Alone
  <2>2. OwnsRow(i) /\ OrderSaved(i)
    BY DEF IInv, WorkerInv
  <2>3. Submits(i, o, row[i].key) /\ mem[i].key = row[i].key
    BY <2>1, <2>2 DEF OwnsRow, OrderSaved, Unsaved, Submits
  <2>4. ASSUME NEW x \in {"processing", "valid"},
               order'[o] = [order[o] EXCEPT !.status = x, !.csr = mem[i].key]
        PROVE  OrderMove(o)
    <3>1. /\ order'[o].status = x /\ order'[o].csr = mem[i].key
          /\ order'[o].names = order[o].names /\ order'[o].late = order[o].late
      BY <1>1, <2>4, OrderFields
    <3> QED BY <2>1, <2>3, <3>1 DEF OrderMove, Takes
  <2>5. ASSUME LateRequests, order[o].late = NoKey,
               order'[o] = [order[o] EXCEPT !.late = mem[i].key]
        PROVE  OrderMove(o)
    <3>1. /\ order'[o].status = order[o].status /\ order'[o].csr = order[o].csr
          /\ order'[o].names = order[o].names /\ order'[o].late = mem[i].key
      BY <1>1, <2>5, OrderFields
    <3> QED BY <2>1, <2>3, <2>5, <3>1 DEF OrderMove
  <2> QED BY <2>1, <2>4, <2>5
<1>6. ASSUME NEW p \in Orders, CAValidates(p), order'[o] # order[o]
      PROVE  OrderMove(o) /\ Alone(o)
  <2>1. /\ order[o].status = "pending" /\ Alone(o)
        /\ \/ order'[o] = [order[o] EXCEPT !.authz = "valid"]
           \/ order'[o] = [order[o] EXCEPT !.authz = "invalid", !.status = "invalid"]
    BY <1>1, <1>6 DEF CAValidates, Alone, storeVars
  <2>2. /\ order'[o].status \in {"pending", "invalid"} /\ order'[o].csr = order[o].csr
        /\ order'[o].names = order[o].names /\ order'[o].late = order[o].late
    <3>1. CASE order'[o] = [order[o] EXCEPT !.authz = "valid"]
      BY <1>1, <2>1, <3>1, OrderFields
    <3>2. CASE order'[o] = [order[o] EXCEPT !.authz = "invalid", !.status = "invalid"]
      BY <1>1, <3>2, OrderFields
    <3> QED BY <2>1, <3>1, <3>2
  <2> QED BY <2>1, <2>2 DEF OrderMove, Advances
<1>7. ASSUME NEW p \in Orders, CAAdvances(p), order'[o] # order[o]
      PROVE  OrderMove(o) /\ Alone(o)
  <2>1. /\ Alone(o)
        /\ \E x : Advances(order[o].status, x) /\ order'[o] = [order[o] EXCEPT !.status = x]
    BY <1>1, <1>7 DEF CAAdvances, Alone, Advances, storeVars
  <2>2. PICK x : Advances(order[o].status, x) /\ order'[o] = [order[o] EXCEPT !.status = x]
    BY <2>1
  <2>3. /\ order'[o].csr = order[o].csr /\ order'[o].names = order[o].names
        /\ order'[o].late = order[o].late /\ order'[o].status = x
    BY <1>1, <2>2, OrderFields
  <2> QED BY <2>1, <2>2, <2>3 DEF OrderMove
<1>8. ASSUME NEW p \in Orders, DeliverLate(p), order'[o] # order[o]
      PROVE  OrderMove(o) /\ Alone(o)
  <2>1. /\ order[o].late # NoKey /\ Alone(o)
        /\ \/ /\ order[o].status = "ready"
              /\ \E x \in {"processing", "valid"} : order'[o] =
                   [order[o] EXCEPT !.status = x, !.csr = order[o].late, !.late = NoKey]
           \/ order'[o] = [order[o] EXCEPT !.late = NoKey]
    BY <1>1, <1>8 DEF DeliverLate, Alone, storeVars
  <2>2. ASSUME order[o].status = "ready", NEW x \in {"processing", "valid"},
               order'[o] = [order[o] EXCEPT !.status = x, !.csr = order[o].late, !.late = NoKey]
        PROVE  OrderMove(o)
    <3>1. /\ order'[o].status = x /\ order'[o].csr = order[o].late
          /\ order'[o].names = order[o].names /\ order'[o].late = NoKey
      BY <1>1, <2>2, OrderFields
    <3> QED BY <2>1, <2>2, <3>1 DEF OrderMove, Takes
  <2>3. ASSUME order'[o] = [order[o] EXCEPT !.late = NoKey]
        PROVE  OrderMove(o)
    <3>1. /\ order'[o].status = order[o].status /\ order'[o].csr = order[o].csr
          /\ order'[o].names = order[o].names /\ order'[o].late = NoKey
      BY <1>1, <2>3, OrderFields
    <3> QED BY <2>1, <3>1 DEF OrderMove
  <2> QED BY <2>1, <2>2, <2>3
<1> QED
  BY <1>2, <1>3, <1>4, <1>5, <1>6, <1>7, <1>8, OrderKept

\* What no step takes back from an order.
OrderGrows(o) ==
    /\ order[o].status # "none" =>
         order'[o].status # "none" /\ order'[o].names = order[o].names
    /\ order[o].status = "valid" => order'[o].status = "valid"
    /\ order[o].csr # NoKey => order'[o].csr = order[o].csr

Finalized(r) ==
    /\ r.status \in {"none", "pending", "ready"} => r.csr = NoKey
    /\ r.status \in {"processing", "valid"} => r.csr # NoKey
    /\ r.late # NoKey => LateRequests /\ r.status # "none"

LEMMA OrderStep ==
  ASSUME IInv, [Next]_vars
  PROVE  FinalizedOrders' /\ \A o \in Orders : OrderGrows(o)
<1> SUFFICES ASSUME NEW o \in Orders  PROVE Finalized(order'[o]) /\ OrderGrows(o)
  BY DEF FinalizedOrders, Finalized
<1>1. Finalized(order[o])
  BY DEF IInv, FinalizedOrders, Finalized
<1>2. OrderMove(o)
  BY OrderMoves
<1>3. Finalized(order'[o])
  BY <1>1, <1>2 DEF Finalized, OrderMove, Advances, Takes, Submits
<1>4. OrderGrows(o)
  BY <1>1, <1>2 DEF Finalized, OrderMove, Advances, Takes, OrderGrows
<1> QED BY <1>3, <1>4

-----------------------------------------------------------------------------
(* What a step does to the rows and to the memory of the workers. *)

LEMMA RowKeeps ==
  ASSUME NEW r \in Row
  PROVE  /\ \A x : LET s == [r EXCEPT !.status = x]
                   IN  /\ s.status = x /\ s.cert = r.cert /\ s.key = r.key
                       /\ s.order = r.order /\ s.attempts = r.attempts
         /\ \A x : LET s == [r EXCEPT !.order = x]
                   IN  /\ s.order = x /\ s.cert = r.cert /\ s.key = r.key
                       /\ s.status = r.status /\ s.attempts = r.attempts
         /\ \A x : LET s == [r EXCEPT !.attempts = x]
                   IN  /\ s.attempts = x /\ s.cert = r.cert /\ s.key = r.key
                       /\ s.status = r.status /\ s.order = r.order
         /\ \A x, y : LET s == [r EXCEPT !.status = x, !.confirmed = y]
                      IN  /\ s.status = x /\ s.cert = r.cert /\ s.key = r.key
                          /\ s.order = r.order /\ s.attempts = r.attempts
         /\ \A x, y : LET s == [r EXCEPT !.status = x, !.attempts = y]
                      IN  /\ s.status = x /\ s.cert = r.cert /\ s.key = r.key
                          /\ s.order = r.order /\ s.attempts = y
         /\ \A x, y : LET s == [r EXCEPT !.status = x, !.key = y]
                      IN  /\ s.status = x /\ s.cert = r.cert /\ s.key = y
                          /\ s.order = r.order /\ s.attempts = r.attempts
  BY DEF Row

LEMMA AbsentFields ==
  /\ Absent.cert = NoCert /\ Absent.status = "absent" /\ Absent.key = NoKey
  /\ Absent.order = NoOrder /\ Absent.attempts = 0
  BY DEF Absent

\* What the worker of issuance i may do to its memory and row, and where it is then.
Moves(i) ==
    /\ UNCHANGED <<row, mem>>
    /\ \A j \in Id \ {i} : pc'[j] = pc[j]
    /\ \/ pc[i] \notin {"idle", "begin", "publish", "checkpoint", "exit"} /\ pc'[i] = "returned"
       \/ /\ pc[i] \in Recorded \cup {"record", "get"}
          /\ pc'[i] \in Recorded \cup {"record"}
          /\ pc'[i] = "download" => order'[mem[i].order].status = "valid"
          /\ pc'[i] = "install" => pc[i] = "download" /\ order[mem[i].order].csr = mem[i].key

Writes(i) ==
    \/ TimerFires(i) \/ BeginAttempt(i) \/ Returned(i) \/ SaveAndStop(i) \/ Exit(i)
    \/ CreateOrder(i) \/ PersistOrder(i) \/ AskOperator(i) \/ CheckDNS(i) \/ ConfirmDNS(i)

LEMMA StepMoves ==
  ASSUME TypeOK, NEW i \in Id, Step(i)
  PROVE  Moves(i) \/ Writes(i)
<1> pc \in [Id -> Label]
  BY DEF TypeOK
<1>1. ASSUME StepFails(i)  PROVE Moves(i)
  BY <1>1 DEF StepFails, Moves, Return, Goto, NetworkSteps, StoreSteps
<1>2. ASSUME GetOrder(i)  PROVE Moves(i)
  BY <1>2 DEF GetOrder, Moves, Goto, Recorded, storeVars
<1>3. ASSUME RecordOrder(i)  PROVE Moves(i)
  BY <1>3 DEF RecordOrder, Moves, Goto, Recorded
<1>4. ASSUME GetAuthorization(i)  PROVE Moves(i)
  BY <1>4 DEF GetAuthorization, Moves, Goto, Recorded, storeVars
<1>5. ASSUME Present(i)  PROVE Moves(i)
  BY <1>5 DEF Present, Moves, Goto, Recorded, storeVars
<1>6. ASSUME CompleteChallenge(i)  PROVE Moves(i)
  BY <1>6 DEF CompleteChallenge, Moves, Return, Goto, Recorded
<1>7. ASSUME WaitAuthorization(i)  PROVE Moves(i)
  BY <1>7 DEF WaitAuthorization, Moves, Return, Goto, Recorded
<1>8. ASSUME SubmitCSR(i)  PROVE Moves(i)
  BY <1>8 DEF SubmitCSR, Moves, Return, Goto, Recorded
<1>9. ASSUME WaitOrder(i)  PROVE Moves(i)
  BY <1>9 DEF WaitOrder, Moves, Return, Goto, Recorded
<1>10. ASSUME Download(i)  PROVE Moves(i)
  BY <1>10 DEF Download, Moves, Return, Goto, Recorded
<1>11. ASSUME Install(i)  PROVE Moves(i)
  BY <1>11 DEF Install, Moves, Return, Goto, Recorded
<1> QED
  BY <1>1, <1>2, <1>3, <1>4, <1>5, <1>6, <1>7, <1>8, <1>9, <1>10, <1>11 DEF Step, Writes

LEMMA StepIsLocal ==
  ASSUME TypeOK, NEW i \in Id, Step(i)
  PROVE  /\ \A j \in Id \ {i} : pc'[j] = pc[j] /\ mem'[j] = mem[j] /\ row'[j] = row[j]
         /\ row'[i] = row[i] \/ row'[i] = mem'[i]
<1> /\ pc \in [Id -> Label] /\ mem \in [Id -> Row] /\ row \in [Id -> Row]
  BY DEF TypeOK
<1>2. CASE Moves(i)
  BY <1>2 DEF Moves
<1>3. CASE TimerFires(i) \/ Exit(i)
  BY <1>3 DEF TimerFires, Exit, Goto, storeVars
<1>4. CASE BeginAttempt(i)
  BY <1>4 DEF BeginAttempt, Goto, Return, SaveRow
<1>5. CASE Returned(i)
  BY <1>5 DEF Returned, Finish, ScheduleRetry, Goto, SaveRow
<1>6. CASE SaveAndStop(i) \/ PersistOrder(i)
  BY <1>6 DEF SaveAndStop, PersistOrder, MaySaveRow, SaveRow, Goto, Return
<1>7. CASE CreateOrder(i)
  BY <1>7 DEF CreateOrder, Goto, Return
<1>8. CASE AskOperator(i) \/ CheckDNS(i) \/ ConfirmDNS(i)
  BY <1>8 DEF AskOperator, CheckDNS, ConfirmDNS, SaveRow, Goto
<1> QED
  BY StepMoves, <1>2, <1>3, <1>4, <1>5, <1>6, <1>7, <1>8 DEF Writes

-----------------------------------------------------------------------------
(* The invariant of a worker is kept by its own steps and by all others. *)

\* An issuance whose row, memory and place stay the same keeps its invariant.
LEMMA WorkerFrame ==
  ASSUME IInv, NEW j \in Id, \A o \in Orders : OrderGrows(o),
         row'[j] = row[j], mem'[j] = mem[j], pc'[j] = pc[j]
  PROVE  WorkerInv(j)'
<1>1. /\ OwnsRow(j) /\ OrderSaved(j) /\ NamesOrder(j) /\ RetryLeft(j)
      /\ row[j].order \in Orders \cup {NoOrder} /\ mem[j].order \in Orders \cup {NoOrder}
  BY RowFields DEF IInv, TypeOK, WorkerInv
<1>2. OwnsRow(j)' /\ OrderSaved(j)' /\ RetryLeft(j)'
  BY <1>1 DEF OwnsRow, OrderSaved, RetryLeft, NoOrder
<1>3. NamesOrder(j)'
  <2>1. pc[j] \in {"download", "install"} => mem[j].order \in Orders
    BY WorkerOrder DEF Recorded
  <2>2. pc[j] = "install" => mem[j].key # NoKey
    BY <1>1 DEF OwnsRow
  <2> QED BY <1>1, <2>1, <2>2 DEF NamesOrder, OrderGrows, NoOrder
<1> QED BY <1>2, <1>3 DEF WorkerInv

\* What the moves and writes of a worker share: the orders named so far stay.
LEMMA NamesGrow ==
  ASSUME IInv, NEW j \in Id, \A o \in Orders : OrderGrows(o)
  PROVE  /\ row[j].order # NoOrder =>
              /\ order'[row[j].order].names = Names[row[j].cert]
              /\ order'[row[j].order].status # "none"
         /\ mem[j].order # NoOrder =>
              /\ order'[mem[j].order].names = Names[mem[j].cert]
              /\ order'[mem[j].order].status # "none"
<1>1. /\ NamesOrder(j)
      /\ row[j].order \in Orders \cup {NoOrder} /\ mem[j].order \in Orders \cup {NoOrder}
  BY RowFields DEF IInv, TypeOK, WorkerInv
<1> QED BY <1>1 DEF NamesOrder, OrderGrows

LEMMA WorkerMoves ==
  ASSUME IInv, NEW i \in Id, Moves(i), \A o \in Orders : OrderGrows(o)
  PROVE  WorkerInv(i)'
<1>1. OwnsRow(i) /\ OrderSaved(i) /\ NamesOrder(i) /\ RetryLeft(i)
  BY DEF IInv, WorkerInv
<1>2. row'[i] = row[i] /\ mem'[i] = mem[i]
  BY DEF Moves
<1>3. OwnsRow(i)' /\ RetryLeft(i)'
  BY <1>1, <1>2 DEF OwnsRow, RetryLeft, Moves, Recorded
<1>4. OrderSaved(i)'
  BY <1>1, <1>2 DEF OrderSaved, Moves, Recorded, Unsaved
<1>5. NamesOrder(i)'
  <2>1. /\ pc'[i] = "download" => order'[mem[i].order].status = "valid"
        /\ pc'[i] = "install" => /\ order'[mem[i].order].status = "valid"
                                 /\ order'[mem[i].order].csr = mem[i].key
    <3>1. CASE pc'[i] = "download" \/ pc'[i] = "install"
      <4>1. pc[i] \in Recorded \cup {"record", "get"}
        BY <3>1 DEF Moves
      <4>2. mem[i].order \in Orders /\ mem[i].key # NoKey
        BY <1>1, <4>1, WorkerOrder DEF OwnsRow, Recorded
      <4> QED BY <1>1, <3>1, <4>2 DEF Moves, NamesOrder, OrderGrows
    <3> QED BY <3>1
  <2> QED BY <1>2, <2>1, NamesGrow DEF NamesOrder
<1> QED BY <1>3, <1>4, <1>5 DEF WorkerInv

LEMMA WorkerWrites ==
  ASSUME IInv, NEW i \in Id, Step(i), Writes(i), \A o \in Orders : OrderGrows(o)
  PROVE  WorkerInv(i)'
<1>1. OwnsRow(i) /\ OrderSaved(i) /\ NamesOrder(i) /\ RetryLeft(i)
  BY DEF IInv, WorkerInv
<1>2. /\ pc \in [Id -> Label] /\ mem \in [Id -> Row] /\ row \in [Id -> Row]
      /\ mem[i] \in Row /\ row[i] \in Row /\ MaxAttempts \in Nat \ {0}
      /\ mem[i].attempts \in Nat /\ row[i].attempts \in Nat
  BY RowFields, ConstantsAssumption DEF IInv, TypeOK
<1>3. /\ row[i].order # NoOrder =>
           /\ order'[row[i].order].names = Names[row[i].cert]
           /\ order'[row[i].order].status # "none"
      /\ mem[i].order # NoOrder =>
           /\ order'[mem[i].order].names = Names[mem[i].cert]
           /\ order'[mem[i].order].status # "none"
  BY NamesGrow
\* A write that keeps certificate, key and order of the worker's memory.
<1>4. ASSUME /\ pc[i] \notin {"idle", "publish", "exit"}
             /\ pc'[i] \notin {"idle", "create", "publish", "download", "install"}
             /\ mem'[i].cert = mem[i].cert /\ mem'[i].key = mem[i].key
             /\ mem'[i].order = mem[i].order
             /\ pc'[i] # "exit" => mem'[i].status \in Unfinished
             /\ \/ row'[i] = mem'[i]
                \/ /\ row'[i] = row[i]
                   /\ pc[i] \notin Unsaved \/ pc'[i] \in Unsaved \cup {"exit"}
             /\ pc'[i] \in Recorded \cup {"record", "get"} => mem[i].order # NoOrder
             /\ pc'[i] # "persist"
             /\ mem'[i].attempts <= MaxAttempts
             /\ mem'[i].status = "retrying" /\ pc'[i] # "begin" => mem'[i].attempts < MaxAttempts
             /\ row'[i] = mem'[i] => pc'[i] # "begin"
             /\ pc'[i] = "timer" => mem'[i].status = "retrying"
             /\ mem'[i].status \in Unfinished
      PROVE  WorkerInv(i)'
  <2>1. OwnsRow(i)'
    BY <1>1, <1>4 DEF OwnsRow, Unfinished
  <2>2. OrderSaved(i)'
    BY <1>1, <1>4 DEF OrderSaved, Recorded
  <2>3. NamesOrder(i)'
    BY <1>1, <1>3, <1>4 DEF NamesOrder, OwnsRow
  <2>4. RetryLeft(i)'
    BY <1>1, <1>4 DEF RetryLeft
  <2> QED BY <2>1, <2>2, <2>3, <2>4 DEF WorkerInv
<1>5. CASE TimerFires(i)
  <2>1. mem[i].status = "retrying" /\ mem[i].attempts + 1 <= MaxAttempts
    BY <1>1, <1>2, <1>5 DEF TimerFires, RetryLeft
  <2>2. /\ mem'[i].attempts = mem[i].attempts + 1 /\ mem'[i].status = mem[i].status
        /\ mem'[i].cert = mem[i].cert /\ mem'[i].key = mem[i].key
        /\ mem'[i].order = mem[i].order
    <3>1. mem'[i] = [mem[i] EXCEPT !.attempts = @ + 1]
      BY <1>2, <1>5 DEF TimerFires
    <3> QED BY <1>2, <3>1, RowKeeps
  <2>3. pc[i] = "timer" /\ pc'[i] = "begin" /\ row'[i] = row[i]
    BY <1>2, <1>5 DEF TimerFires, Goto, storeVars
  <2>4. OwnsRow(i)' /\ OrderSaved(i)' /\ RetryLeft(i)'
    BY <1>1, <2>1, <2>2, <2>3 DEF OwnsRow, OrderSaved, RetryLeft, Unsaved, Unfinished, Recorded
  <2>5. NamesOrder(i)'
    BY <1>3, <2>2, <2>3 DEF NamesOrder
  <2> QED BY <2>4, <2>5 DEF WorkerInv
<1>6. CASE BeginAttempt(i)
  <2> DEFINE n == IF mem[i].attempts = 0 THEN 1 ELSE mem[i].attempts
             r == [mem[i] EXCEPT !.status = "running",
                                 !.attempts = IF @ = 0 THEN 1 ELSE @]
  <2>1. /\ r.status = "running" /\ r.attempts = n /\ r.cert = mem[i].cert
        /\ r.key = mem[i].key /\ r.order = mem[i].order
    BY <1>2 DEF Row
  <2> HIDE DEF r
  <2>2. n <= MaxAttempts
    BY <1>1, <1>2 DEF RetryLeft
  <2>3. /\ pc[i] = "begin" /\ mem'[i] = r
        /\ \/ row'[i] = r /\ pc'[i] = IF r.order = NoOrder THEN "create" ELSE "get"
           \/ row'[i] = row[i] /\ pc'[i] = "returned"
    BY <1>2, <1>6 DEF BeginAttempt, SaveRow, Goto, Return, r
  <2>4. CASE pc'[i] # "create"
    BY <1>4, <2>1, <2>2, <2>3, <2>4 DEF Unsaved, Unfinished, Recorded
  <2>5. CASE pc'[i] = "create"
    <3>1. OwnsRow(i)' /\ OrderSaved(i)' /\ RetryLeft(i)'
      BY <1>1, <2>1, <2>2, <2>3, <2>5 DEF OwnsRow, OrderSaved, RetryLeft, Unsaved, Unfinished,
         Recorded
    <3>2. NamesOrder(i)'
      BY <1>3, <2>1, <2>3, <2>5 DEF NamesOrder
    <3> QED BY <3>1, <3>2 DEF WorkerInv
  <2> QED BY <2>4, <2>5
<1>7. CASE Returned(i)
  <2>1. ASSUME NEW status \in Finished, NEW kind, Finish(i, status, kind)
        PROVE  WorkerInv(i)'
    <3>1. mem'[i] = [mem[i] EXCEPT !.status = status,
                                   !.key = IF kind = "transient" THEN mem[i].key ELSE NoKey]
      BY <1>2, <2>1 DEF Finish
    <3>2. /\ mem'[i].status = status /\ mem'[i].cert = mem[i].cert
          /\ mem'[i].key \in {NoKey, mem[i].key}
          /\ mem'[i].order = mem[i].order /\ mem'[i].attempts = mem[i].attempts
      BY <1>2, <3>1, RowKeeps
    <3>3. pc[i] = "returned" /\ pc'[i] = "publish" /\ row'[i] = row[i]
      BY <1>2, <1>7, <2>1 DEF Returned, Finish, Goto
    <3>4. OwnsRow(i)' /\ RetryLeft(i)'
      BY <1>1, <2>1, <3>2, <3>3 DEF OwnsRow, RetryLeft, Finished
    <3>5. OrderSaved(i)' /\ NamesOrder(i)'
      BY <1>1, <1>3, <3>2, <3>3 DEF OrderSaved, NamesOrder, Unsaved, Recorded
    <3> QED BY <3>4, <3>5 DEF WorkerInv
  <2>2. CASE Goto(i, "checkpoint") /\ UNCHANGED <<row, certificate, mem, cleanups, served>>
    <3>1. pc[i] = "returned" /\ pc'[i] = "checkpoint" /\ row'[i] = row[i] /\ mem'[i] = mem[i]
      BY <1>2, <1>7, <2>2 DEF Returned, Goto
    <3>2. mem[i].status \in Unfinished
      BY <1>1, <3>1 DEF OwnsRow
    <3> QED BY <1>1, <1>4, <3>1, <3>2 DEF RetryLeft, Unsaved, Recorded
  <2>3. CASE ScheduleRetry(i) /\ mem[i].attempts < MaxAttempts
    <3>1. mem'[i] = [mem[i] EXCEPT !.status = "retrying"]
      BY <1>2, <2>3 DEF ScheduleRetry
    <3>2. /\ mem'[i].status = "retrying" /\ mem'[i].cert = mem[i].cert
          /\ mem'[i].key = mem[i].key
          /\ mem'[i].order = mem[i].order /\ mem'[i].attempts = mem[i].attempts
      BY <1>2, <3>1, RowKeeps
    <3>3. /\ pc[i] = "returned"
          /\ \/ row'[i] = mem'[i] /\ pc'[i] = "timer"
             \/ row'[i] = row[i] /\ pc'[i] = "exit"
      BY <1>2, <1>7, <2>3, <3>1 DEF Returned, ScheduleRetry, SaveRow, Goto
    <3> QED BY <1>1, <1>2, <1>4, <2>3, <3>2, <3>3 DEF Unsaved, Unfinished, Recorded
  <2> QED
    BY <1>7, <2>1, <2>2, <2>3 DEF Returned, Finished, AttemptsLeft
<1>8. CASE SaveAndStop(i)
  <2>1. /\ pc[i] \in {"publish", "checkpoint"} /\ pc'[i] = "exit" /\ mem'[i] = mem[i]
        /\ row'[i] = row[i] \/ row'[i] = mem[i]
    BY <1>2, <1>8 DEF SaveAndStop, MaySaveRow, SaveRow, Goto
  <2>2. OwnsRow(i)' /\ OrderSaved(i)' /\ RetryLeft(i)'
    BY <1>1, <2>1 DEF OwnsRow, OrderSaved, RetryLeft, Unfinished, Finished
  <2>3. NamesOrder(i)'
    BY <1>3, <2>1 DEF NamesOrder
  <2> QED BY <2>2, <2>3 DEF WorkerInv
<1>9. CASE Exit(i)
  <2>1. pc'[i] = "idle" /\ mem'[i] = Absent /\ row'[i] = row[i]
    BY <1>2, <1>9 DEF Exit, Goto, storeVars
  <2>2. OwnsRow(i)' /\ OrderSaved(i)' /\ RetryLeft(i)'
    BY <1>1, <1>2, <2>1, AbsentFields DEF OwnsRow, OrderSaved, RetryLeft
  <2>3. NamesOrder(i)'
    BY <1>3, <2>1, AbsentFields DEF NamesOrder
  <2> QED BY <2>2, <2>3 DEF WorkerInv
<1>10. CASE CreateOrder(i)
  <2>1. CASE UNCHANGED mem /\ Return(i, "transient")
    <3>1. /\ pc[i] = "create" /\ pc'[i] = "returned" /\ UNCHANGED <<row, mem>>
          /\ \A j \in Id \ {i} : pc'[j] = pc[j]
      BY <1>2, <1>10, <2>1 DEF CreateOrder, Return, Goto
    <3> QED BY <3>1, WorkerMoves DEF Moves
  <2>2. CASE ~(UNCHANGED mem /\ Return(i, "transient"))
    <3>1. PICK o \in Offered(i) :
            /\ order' = IF order[o].status = "none"
                        THEN [order EXCEPT ![o].status = "pending",
                                           ![o].names = Names[mem[i].cert]]
                        ELSE order
            /\ mem' = [mem EXCEPT ![i].order = o] /\ Goto(i, "persist")
      BY <1>10, <2>2 DEF CreateOrder
    <3>2. o \in Orders /\ o # NoOrder /\ order[o] \in Order /\ order \in [Orders -> Order]
      BY <3>1 DEF Offered, IInv, TypeOK, Orders, NoOrder
    <3>3. pc[i] = "create" /\ pc'[i] = "persist" /\ row'[i] = row[i]
      BY <1>2, <1>10, <3>1 DEF CreateOrder, Goto
    <3>4. /\ mem'[i].order = o /\ mem'[i].cert = mem[i].cert /\ mem'[i].key = mem[i].key
          /\ mem'[i].status = mem[i].status /\ mem'[i].attempts = mem[i].attempts
      <4>1. mem'[i] = [mem[i] EXCEPT !.order = o]
        BY <1>2, <3>1
      <4> QED BY <1>2, <4>1, RowKeeps
    <3>5. order'[o].names = Names[mem[i].cert] /\ order'[o].status # "none"
      <4>1. CASE order[o].status = "none"
        <5>1. order'[o] = [order[o] EXCEPT !.status = "pending", !.names = Names[mem[i].cert]]
          BY <3>1, <3>2, <4>1
        <5>2. Names[mem[i].cert] \in STRING
          BY <3>3, WorkerCert, ConstantsAssumption
        <5> QED BY <3>2, <5>1, <5>2, OrderFields
      <4>2. CASE order[o].status # "none"
        BY <3>1, <4>2 DEF Offered
      <4> QED BY <4>1, <4>2
    <3>6. OwnsRow(i)' /\ OrderSaved(i)' /\ RetryLeft(i)'
      BY <1>1, <3>2, <3>3, <3>4 DEF OwnsRow, OrderSaved, RetryLeft, Unsaved, Recorded
    <3>7. NamesOrder(i)'
      BY <1>3, <3>3, <3>4, <3>5 DEF NamesOrder
    <3> QED BY <3>6, <3>7 DEF WorkerInv
  <2> QED BY <1>10, <2>1, <2>2 DEF CreateOrder
<1>11. CASE PersistOrder(i)
  <2>1. /\ pc[i] = "persist" /\ mem'[i] = mem[i]
        /\ \/ row'[i] = mem[i] /\ pc'[i] = "record"
           \/ row'[i] = row[i] /\ pc'[i] = "returned"
    BY <1>2, <1>11 DEF PersistOrder, SaveRow, Goto, Return
  <2>2. OwnsRow(i)' /\ RetryLeft(i)'
    BY <1>1, <2>1 DEF OwnsRow, RetryLeft, Unfinished
  <2>3. OrderSaved(i)'
    BY <1>1, <2>1 DEF OrderSaved, Unsaved, Recorded
  <2>4. NamesOrder(i)'
    BY <1>3, <2>1 DEF NamesOrder
  <2> QED BY <2>2, <2>3, <2>4 DEF WorkerInv
<1>12. CASE AskOperator(i) \/ CheckDNS(i) \/ ConfirmDNS(i)
  <2>1. /\ mem'[i].cert = mem[i].cert /\ mem'[i].key = mem[i].key
        /\ mem'[i].order = mem[i].order /\ mem'[i].attempts = mem[i].attempts
        /\ mem'[i].status \in {"running", "waiting"} /\ row'[i] = mem'[i]
    <3>1. CASE AskOperator(i)
      <4>1. mem'[i] = [mem[i] EXCEPT !.status = "waiting"] /\ row'[i] = mem'[i]
        BY <1>2, <3>1 DEF AskOperator, SaveRow
      <4> QED BY <1>2, <4>1, RowKeeps
    <3>2. CASE CheckDNS(i)
      <4>1. mem'[i] = [mem[i] EXCEPT !.status = "running"] /\ row'[i] = mem'[i]
        BY <1>2, <3>2 DEF CheckDNS, SaveRow
      <4> QED BY <1>2, <4>1, RowKeeps
    <3>3. CASE ConfirmDNS(i)
      <4>1. mem'[i] = [mem[i] EXCEPT !.status = "running", !.confirmed = TRUE] /\ row'[i] = mem'[i]
        BY <1>2, <3>3 DEF ConfirmDNS, SaveRow
      <4> QED BY <1>2, <4>1, RowKeeps
    <3> QED BY <1>12, <3>1, <3>2, <3>3
  <2>2. pc[i] \in {"ask", "check", "confirm"} /\ pc'[i] \in {"await", "confirm", "ask", "answer"}
    <3>1. CASE AskOperator(i)
      BY <1>2, <3>1 DEF AskOperator, Goto
    <3>2. CASE CheckDNS(i)
      BY <1>2, <3>2 DEF CheckDNS, Goto
    <3>3. CASE ConfirmDNS(i)
      BY <1>2, <3>3 DEF ConfirmDNS, Goto
    <3> QED BY <1>12, <3>1, <3>2, <3>3
  <2>3. mem[i].order # NoOrder
    BY <1>1, <2>2 DEF OrderSaved, Recorded
  <2>4. mem[i].attempts <= MaxAttempts
    BY <1>1 DEF RetryLeft
  <2> QED BY <1>1, <1>4, <2>1, <2>2, <2>3, <2>4 DEF Unsaved, Unfinished
<1> QED
  BY <1>5, <1>6, <1>7, <1>8, <1>9, <1>10, <1>11, <1>12 DEF Writes

-----------------------------------------------------------------------------
(* What a step does to the rows, the submitted keys and the certificates. *)

\* A row is written only while its issuance is unfinished, and keeps its
\* certificate, its key unless it is cleared, and an order once it has one.
RowWrite(j) ==
    \/ row'[j] = row[j]
    \/ /\ row[j].status \in Unfinished
       /\ row'[j].status # "absent"
       /\ row'[j].cert = row[j].cert
       /\ row'[j].key \in {row[j].key, NoKey}
       /\ row'[j].order = row[j].order \/ row[j].order = NoOrder
       /\ row'[j].order \in {row[j].order, mem[j].order}
       /\ row'[j].status \in Unfinished => row'[j].key = row[j].key /\ row[j].key # NoKey

LEMMA RowStep ==
  ASSUME IInv, TypeOK', \A i \in Id : WorkerInv(i)', [Next]_vars,
         ~\E q \in Request : CreateIssuance(q)
  PROVE  \A j \in Id : RowWrite(j)
<1> SUFFICES ASSUME NEW j \in Id, row'[j] # row[j]  PROVE RowWrite(j)
  BY DEF RowWrite
<1>1. /\ TypeOK /\ row[j] \in Row /\ mem[j] \in Row /\ row \in [Id -> Row]
      /\ OwnsRow(j) /\ OrderSaved(j) /\ OwnsRow(j)' /\ OrderSaved(j)'
  BY DEF IInv, TypeOK, WorkerInv
<1>2. ASSUME NEW i \in Id, Step(i)  PROVE RowWrite(j)
  <2>1. j = i /\ row'[j] = mem'[j]
    BY <1>1, <1>2, StepIsLocal
  <2>2. CASE BeginAttempt(j)
    <3>1. pc[j] = "begin" /\ mem'[j] = [mem[j] EXCEPT !.status = "running",
                                          !.attempts = IF mem[j].attempts = 0 THEN 1 ELSE mem[j].attempts]
      BY <1>1, <2>2 DEF BeginAttempt, TypeOK
    <3>2. /\ mem'[j].status = "running" /\ mem'[j].cert = mem[j].cert
          /\ mem'[j].key = mem[j].key /\ mem'[j].order = mem[j].order
      BY <1>1, <3>1, RowKeeps
    <3> QED BY <1>1, <2>1, <3>1, <3>2 DEF RowWrite, OwnsRow, OrderSaved, Unsaved
  <2>3. CASE Returned(j)
    <3>1. ScheduleRetry(j)
      BY <1>1, <2>3 DEF Returned, Finish
    <3>2. pc[j] = "returned" /\ mem'[j] = [mem[j] EXCEPT !.status = "retrying"]
      BY <1>1, <2>3, <3>1 DEF Returned, ScheduleRetry, TypeOK
    <3>3. /\ mem'[j].status = "retrying" /\ mem'[j].cert = mem[j].cert
          /\ mem'[j].key = mem[j].key /\ mem'[j].order = mem[j].order
      BY <1>1, <3>2, RowKeeps
    <3> QED BY <1>1, <2>1, <3>2, <3>3 DEF RowWrite, OwnsRow, OrderSaved
  <2>4. CASE SaveAndStop(j) \/ PersistOrder(j)
    <3>1. mem'[j] = mem[j] /\ pc[j] \in {"publish", "checkpoint", "persist"}
      BY <2>4 DEF SaveAndStop, PersistOrder
    <3> QED BY <1>1, <2>1, <3>1 DEF RowWrite, OwnsRow, OrderSaved, Unfinished, Finished
  <2>5. CASE AskOperator(j) \/ CheckDNS(j) \/ ConfirmDNS(j)
    <3>1. /\ pc[j] \in {"ask", "check", "confirm"}
          /\ \/ mem'[j] = [mem[j] EXCEPT !.status = "waiting"]
             \/ mem'[j] = [mem[j] EXCEPT !.status = "running"]
             \/ mem'[j] = [mem[j] EXCEPT !.status = "running", !.confirmed = TRUE]
      BY <1>1, <2>5 DEF AskOperator, CheckDNS, ConfirmDNS, TypeOK
    <3>2. /\ mem'[j].status \in {"running", "waiting"} /\ mem'[j].cert = mem[j].cert
          /\ mem'[j].key = mem[j].key /\ mem'[j].order = mem[j].order
      <4>1. CASE mem'[j] = [mem[j] EXCEPT !.status = "waiting"]
        BY <1>1, <4>1, RowKeeps
      <4>2. CASE mem'[j] = [mem[j] EXCEPT !.status = "running"]
        BY <1>1, <4>2, RowKeeps
      <4>3. CASE mem'[j] = [mem[j] EXCEPT !.status = "running", !.confirmed = TRUE]
        BY <1>1, <4>3, RowKeeps
      <4> QED BY <3>1, <4>1, <4>2, <4>3
    <3> QED BY <1>1, <2>1, <3>1, <3>2 DEF RowWrite, OwnsRow, OrderSaved, Unsaved
  <2>6. ~Moves(j) /\ ~TimerFires(j) /\ ~Exit(j) /\ ~CreateOrder(j)
    BY DEF Moves, TimerFires, Exit, CreateOrder, storeVars
  <2> QED
    BY <1>1, <1>2, <2>1, <2>2, <2>3, <2>4, <2>5, <2>6, StepMoves DEF Writes
<1>3. CASE NewService
  <2>1. row[j].status \in Unfinished /\ row'[j] = [row[j] EXCEPT !.status = "failed"]
    BY <1>1, <1>3 DEF NewService
  <2>2. /\ row'[j].status = "failed" /\ row'[j].cert = row[j].cert
        /\ row'[j].key = row[j].key /\ row'[j].order = row[j].order
    BY <1>1, <2>1, RowKeeps
  <2> QED BY <2>1, <2>2 DEF RowWrite, Unfinished
<1>4. ASSUME NEW i \in Id, NEW force \in BOOLEAN, ContinueIssuance(i, force)  PROVE FALSE
  BY <1>4 DEF ContinueIssuance, storeVars
<1>5. CASE Crash \/ Quiet
  BY <1>5 DEF Crash, Quiet, storeVars
<1> QED
  BY <1>2, <1>3, <1>4, <1>5, NextCases

\* A key is submitted to an order by the worker whose row holds it.
LEMMA SubmissionStep ==
  ASSUME IInv, [Next]_vars, NEW o \in Orders
  PROVE  /\ \A k \in Submitted(o)' : k \in Submitted(o) \/ \E i \in Id : Submits(i, o, k)
         /\ ~LateRequests /\ order'[o].csr # order[o].csr
              => \E i \in Id : Submits(i, o, order'[o].csr)
<1>1. OrderMove(o) /\ (order[o].late # NoKey => LateRequests)
  BY OrderMoves DEF IInv, FinalizedOrders
<1>2. CASE order'[o].csr = order[o].csr /\ order'[o].late \in {order[o].late, NoKey}
  BY <1>2 DEF Submitted
<1>3. ASSUME NEW i \in Id, Submits(i, o, row[i].key),
             order'[o].csr \in {order[o].csr, row[i].key},
             order'[o].late \in {order[o].late, row[i].key},
             ~LateRequests => order'[o].csr = row[i].key
      PROVE  /\ \A k \in Submitted(o)' : k \in Submitted(o) \/ \E j \in Id : Submits(j, o, k)
             /\ ~LateRequests /\ order'[o].csr # order[o].csr
                  => \E j \in Id : Submits(j, o, order'[o].csr)
  BY <1>3 DEF Submitted
<1>4. CASE LateRequests /\ order'[o].csr = order[o].late /\ order'[o].late = NoKey
  BY <1>4 DEF Submitted
<1> QED BY <1>1, <1>2, <1>3, <1>4 DEF OrderMove, Takes

LEMMA CertificateFields ==
  ASSUME NEW r \in CertificateRow
  PROVE  /\ r.key \in Id \cup {NoKey} /\ r.pem \in Id \cup {NoKey}
         /\ LET s == [r EXCEPT !.status = "failed"]
            IN  s.status = "failed" /\ s.key = r.key /\ s.pem = r.pem
  BY DEF CertificateRow

\* A certificate row changes when a pending one fails, or when a worker installs
\* what the CA issued for the key in its row.
LEMMA CertificateStep ==
  ASSUME IInv, [Next]_vars, NEW c \in Cert, certificate'[c] # certificate[c]
  PROVE  \/ /\ certificate[c].status = "pending" /\ certificate'[c].status = "failed"
            /\ certificate'[c].key = certificate[c].key
            /\ certificate'[c].pem = certificate[c].pem
         \/ \E i \in Id :
              /\ row[i].status \in Unfinished /\ row[i].cert = c /\ row[i].key # NoKey
              /\ \A d \in Cert \ {c} : certificate'[d] = certificate[d]
              /\ row[i].order \in Orders
              /\ order[row[i].order].status = "valid"
              /\ order[row[i].order].csr = row[i].key
              /\ order[row[i].order].names = Names[c]
              /\ certificate'[c].status = "active"
              /\ certificate'[c].key = row[i].key /\ certificate'[c].pem = row[i].key
              /\ UNCHANGED <<row, order>>
<1>1. certificate \in [Cert -> CertificateRow] /\ certificate[c] \in CertificateRow
  BY DEF IInv, TypeOK
<1>2. ASSUME NEW i \in Id, Install(i)
      PROVE   /\ row[i].status \in Unfinished /\ row[i].cert = c /\ row[i].key # NoKey
              /\ \A d \in Cert \ {c} : certificate'[d] = certificate[d]
              /\ row[i].order \in Orders
              /\ order[row[i].order].status = "valid"
              /\ order[row[i].order].csr = row[i].key
              /\ order[row[i].order].names = Names[c]
              /\ certificate'[c].status = "active"
              /\ certificate'[c].key = row[i].key /\ certificate'[c].pem = row[i].key
              /\ UNCHANGED <<row, order>>
  <2>1. /\ pc[i] = "install" /\ c = mem[i].cert /\ UNCHANGED <<row, order>>
        /\ \A d \in Cert \ {c} : certificate'[d] = certificate[d]
        /\ certificate'[c] = [status |-> "active", key |-> mem[i].key,
                              pem |-> order[mem[i].order].csr]
    BY <1>1, <1>2 DEF Install
  <2>2. OwnsRow(i) /\ OrderSaved(i) /\ NamesOrder(i) /\ mem[i].order \in Orders
    BY <2>1, WorkerOrder DEF IInv, WorkerInv, Recorded
  <2>3. /\ row[i].status \in Unfinished /\ row[i].cert = mem[i].cert
        /\ row[i].key = mem[i].key /\ row[i].key # NoKey
    BY <2>1, <2>2 DEF OwnsRow
  <2>4. row[i].order = mem[i].order /\ row[i].order # NoOrder
    BY <2>1, <2>2 DEF OrderSaved, Unsaved, Recorded
  <2>5. /\ order[mem[i].order].status = "valid" /\ order[mem[i].order].csr = mem[i].key
        /\ order[mem[i].order].names = Names[mem[i].cert]
    BY <2>1, <2>2, <2>4 DEF NamesOrder
  <2> QED BY <2>1, <2>2, <2>3, <2>4, <2>5
<1>3. ASSUME NEW i \in Id, Returned(i)
      PROVE  /\ certificate[c].status = "pending"
             /\ certificate'[c] = [certificate[c] EXCEPT !.status = "failed"]
  <2>1. PICK status, kind : Finish(i, status, kind)
    BY <1>3 DEF Returned, ScheduleRetry
  <2> QED BY <1>1, <2>1 DEF Finish
<1>4. ASSUME NewService
      PROVE  /\ certificate[c].status = "pending"
             /\ certificate'[c] = [certificate[c] EXCEPT !.status = "failed"]
  BY <1>1, <1>4 DEF NewService
<1>5. ASSUME NEW i \in Id, Step(i)  PROVE Install(i) \/ Returned(i)
  BY <1>5, StepFrame DEF StepFramed
<1>7. ASSUME NEW i \in Id, NEW force \in BOOLEAN, ContinueIssuance(i, force)  PROVE FALSE
  BY <1>7 DEF ContinueIssuance, storeVars
<1>8. ASSUME NEW q \in Request, CreateIssuance(q)  PROVE FALSE
  BY <1>8 DEF CreateIssuance
<1>9. ASSUME Crash \/ Quiet  PROVE FALSE
  BY <1>9 DEF Crash, Quiet, storeVars
<1>6. \/ \E i \in Id : Install(i) \/ Returned(i)
      \/ NewService
  BY <1>5, <1>7, <1>8, <1>9, NextCases
<1> QED
  BY <1>1, <1>2, <1>3, <1>4, <1>6, CertificateFields

-----------------------------------------------------------------------------
(* The invariants of rows, keys and certificates, for a step that writes     *)
(* rows and for one that starts an issuance.                                 *)

\* The newest unfinished issuance of a certificate is the only one.
LEMMA WritesKeepRows ==
  ASSUME IInv, \A j \in Id : RowWrite(j)
  PROVE  /\ RowsInOrder'
         /\ \A j \in Id : /\ row'[j].cert = row[j].cert
                          /\ row'[j].status = "absent" <=> row[j].status = "absent"
                          /\ row'[j].key \in {row[j].key, NoKey}
                          /\ row[j].order # NoOrder => row'[j].order = row[j].order
<1>1. RowsInOrder
  BY DEF IInv
<1>2. \A j \in Id : /\ row'[j].cert = row[j].cert
                    /\ row'[j].status = "absent" <=> row[j].status = "absent"
                    /\ row'[j].key \in {row[j].key, NoKey}
                    /\ row[j].order # NoOrder => row'[j].order = row[j].order
                    /\ row'[j] = row[j] \/ row[j].status \in Unfinished
                    /\ \/ row'[j] = row[j]
                       \/ row'[j].status \in Unfinished => row'[j].key # NoKey
  BY DEF RowWrite, Unfinished
<1>4. \A j \in Id : Superseded(j)' <=> Superseded(j)
  BY <1>2 DEF Superseded
<1>5. \A j \in Id : row'[j] # row[j] => row'[j].status # "absent" /\ row'[j] # Absent
  BY <1>2, AbsentFields DEF RowWrite, Unfinished
<1>3. RowsInOrder'
  BY <1>1, <1>2, <1>4, <1>5 DEF RowsInOrder, Unfinished
<1> QED BY <1>2, <1>3

\* The order a worker's memory names changes only when newOrder answers.
MemOrder(j) ==
    \/ mem'[j].order \in {mem[j].order, row[j].order, NoOrder}
    \/ mem'[j].order \in Orders /\ order'[mem'[j].order].csr = NoKey

LEMMA MemStep ==
  ASSUME IInv, [Next]_vars, NEW j \in Id, \A o \in Orders : OrderGrows(o),
         ~\E q \in Request : CreateIssuance(q)
  PROVE  MemOrder(j)
<1>1. /\ TypeOK /\ mem[j] \in Row /\ mem \in [Id -> Row] /\ pc \in [Id -> Label]
  BY DEF IInv, TypeOK
<1>2. CASE mem'[j] = mem[j] \/ mem'[j] = Absent \/ mem'[j] = row[j]
  BY <1>2, AbsentFields DEF MemOrder
<1>3. ASSUME NEW i \in Id, Step(i)  PROVE MemOrder(j)
  <2>1. CASE j # i \/ Moves(i) \/ SaveAndStop(i) \/ PersistOrder(i) \/ Exit(i)
    BY <1>1, <1>2, <1>3, <2>1, StepIsLocal DEF Moves, SaveAndStop, PersistOrder, Exit
  <2>2. CASE j = i /\ CreateOrder(i)
    <3>1. CASE UNCHANGED mem
      BY <1>2, <3>1
    <3>2. CASE ~UNCHANGED mem
      <4>1. PICK o \in Offered(i) :
              /\ order' = IF order[o].status = "none"
                          THEN [order EXCEPT ![o].status = "pending",
                                             ![o].names = Names[mem[i].cert]]
                          ELSE order
              /\ mem' = [mem EXCEPT ![i].order = o]
        BY <2>2, <3>2 DEF CreateOrder
      <4>2. /\ o \in Orders /\ order[o] \in Order /\ order \in [Orders -> Order]
            /\ order[o].csr = NoKey
        BY <4>1 DEF Offered, IInv, TypeOK, FinalizedOrders
      <4>3. mem'[j].order = o
        <5>1. mem'[j] = [mem[j] EXCEPT !.order = o]
          BY <1>1, <2>2, <4>1
        <5> QED BY <1>1, <5>1, RowKeeps
      <4>4. order'[o].csr = NoKey
        <5>1. CASE order[o].status # "none"
          BY <4>1, <4>2, <5>1
        <5>2. CASE order[o].status = "none"
          <6>1. order'[o] = [order[o] EXCEPT !.status = "pending", !.names = Names[mem[i].cert]]
            BY <4>1, <4>2, <5>2
          <6>2. Names[mem[i].cert] \in STRING
            BY <2>2, WorkerCert, ConstantsAssumption DEF CreateOrder
          <6> QED BY <4>2, <6>1, <6>2, OrderFields
        <5> QED BY <5>1, <5>2
      <4> QED BY <4>2, <4>3, <4>4 DEF MemOrder
    <3> QED BY <3>1, <3>2
  <2>3. CASE j = i /\ (TimerFires(i) \/ BeginAttempt(i) \/ Returned(i) \/ AskOperator(i)
                        \/ CheckDNS(i) \/ ConfirmDNS(i))
    <3>1. mem'[j].order = mem[j].order
      <4>1. CASE TimerFires(j)
        BY <1>1, <4>1, RowKeeps DEF TimerFires
      <4>2. CASE BeginAttempt(j)
        BY <1>1, <4>2, RowKeeps DEF BeginAttempt
      <4>3. CASE Returned(j)
        <5>1. CASE UNCHANGED mem
          BY <5>1
        <5>2. CASE ScheduleRetry(j)
          BY <1>1, <5>2, RowKeeps DEF ScheduleRetry
        <5>3. ASSUME NEW status, NEW kind, Finish(j, status, kind)
              PROVE  mem'[j].order = mem[j].order
          BY <1>1, <5>3, RowKeeps DEF Finish
        <5> QED BY <4>3, <5>1, <5>2, <5>3 DEF Returned
      <4>4. CASE AskOperator(j)
        BY <1>1, <4>4, RowKeeps DEF AskOperator
      <4>5. CASE CheckDNS(j)
        BY <1>1, <4>5, RowKeeps DEF CheckDNS
      <4>6. CASE ConfirmDNS(j)
        BY <1>1, <4>6, RowKeeps DEF ConfirmDNS
      <4> QED BY <2>3, <4>1, <4>2, <4>3, <4>4, <4>5, <4>6
    <3> QED BY <3>1 DEF MemOrder
  <2> QED BY <1>1, <1>3, <2>1, <2>2, <2>3, StepMoves DEF Writes
<1>4. CASE Crash \/ NewService
  BY <1>2, <1>4 DEF Crash, NewService
<1>5. CASE UNCHANGED mem
  BY <1>2, <1>5
<1>6. ASSUME NEW i \in Id, NEW force \in BOOLEAN, ContinueIssuance(i, force)  PROVE UNCHANGED mem
  BY <1>6 DEF ContinueIssuance
<1> QED
  BY <1>3, <1>4, <1>5, <1>6, NextCases DEF Quiet

LEMMA SubmittedKeys ==
  ASSUME IInv, NEW o \in Orders
  PROVE  Submitted(o) \subseteq Id
<1>1. order[o] \in Order
  BY DEF IInv, TypeOK
<1> QED BY <1>1, OrderUpdates DEF Submitted

LEMMA WritesKeepKeys ==
  ASSUME IInv, [Next]_vars, \A j \in Id : RowWrite(j) /\ MemOrder(j),
         \A o \in Orders : OrderGrows(o)
  PROVE  /\ KeysInOrder' /\ InstalledKeyMatches'
         /\ OneCallPerCertificate => NewestKnowsOrder' /\ OwnOrder' /\ OneOrderPerSubmission'
<1> DEFINE Same(j) == /\ row'[j].cert = row[j].cert
                      /\ row'[j].status = "absent" <=> row[j].status = "absent"
                      /\ row'[j].key \in {row[j].key, NoKey}
                      /\ row[j].order # NoOrder => row'[j].order = row[j].order
<1>1. \A j \in Id : Same(j)
  BY WritesKeepRows
<1>2. /\ RowsInOrder /\ KeysInOrder /\ InstalledKeyMatches
      /\ OneCallPerCertificate => NewestKnowsOrder /\ OneOrderPerSubmission
      /\ \A j \in Id : row[j].key \in Id \cup {NoKey} /\ row[j].cert \in Cert \cup {NoCert}
      /\ \A o \in Orders : Submitted(o) \subseteq Id
      /\ \A c \in Cert : certificate[c].pem \in Id \cup {NoKey}
  <2>1. \A o \in Orders : Submitted(o) \subseteq Id
    BY SubmittedKeys
  <2> QED BY <2>1, RowFields, CertificateFields DEF IInv, OrderInv, TypeOK
\* What is submitted now was before, or is by the worker of an unfinished issuance.
<1>3. ASSUME NEW o \in Orders, NEW k \in Submitted(o)'
      PROVE  /\ k \in Id /\ k # NoKey
             /\ \/ k \in Submitted(o)
                \/ \E i \in Id : Submits(i, o, k) /\ row[k].cert = row[i].cert
  <2>1. k \in Submitted(o) \/ \E i \in Id : Submits(i, o, k)
    BY SubmissionStep
  <2>2. k # NoKey
    BY DEF Submitted
  <2> QED BY <1>2, <2>1, <2>2 DEF Submits, KeysInOrder
<1>4. \A c \in Cert : certificate'[c].pem # certificate[c].pem =>
        \E i \in Id : /\ row[i].status \in Unfinished /\ row[i].cert = c /\ row[i].key # NoKey
                      /\ certificate'[c].pem = row[i].key
  BY CertificateStep
<1>5. \A i \in Id : row[i].status \in Unfinished => ~Superseded(i) /\ row[i].cert # NoCert
  BY <1>2 DEF RowsInOrder, Unfinished
<1>6. KeysInOrder'
  <2>1. \A i \in Id : row'[i].key # NoKey =>
          /\ row'[i].key <= i
          /\ row'[row'[i].key].status # "absent" /\ row'[row'[i].key].cert = row'[i].cert
    BY <1>1, <1>2 DEF KeysInOrder
  <2>2. \A i, j \in Id : row'[i].key # NoKey /\ row'[j].key = row'[i].key =>
          row'[j].cert = row'[i].cert
    BY <1>1, <1>2 DEF KeysInOrder
  <2>3. ASSUME NEW o \in Orders, NEW k \in Submitted(o)'
        PROVE  row'[k].status # "absent" /\ order'[o].names = Names[row'[k].cert]
    <3>1. k \in Id /\ Same(k)
      BY <1>1, <1>3
    <3>2. CASE k \in Submitted(o)
      <4>1. row[k].status # "absent" /\ order[o].names = Names[row[k].cert]
        BY <1>2, <3>2 DEF KeysInOrder
      <4>2. order[o].status # "none"
        BY <3>2 DEF IInv, FinalizedOrders, Submitted
      <4> QED BY <3>1, <4>1, <4>2 DEF OrderGrows
    <3>3. ASSUME NEW i \in Id, Submits(i, o, k), row[k].cert = row[i].cert
          PROVE  row'[k].status # "absent" /\ order'[o].names = Names[row'[k].cert]
      <4>1. row[k].status # "absent"
        BY <1>2, <3>3 DEF KeysInOrder, Submits
      <4>2. row[i].order = o /\ o # NoOrder
        BY <3>3 DEF Submits, Orders, NoOrder
      <4>3. order'[o].names = Names[row[i].cert]
        BY <4>2, NamesGrow
      <4> QED BY <3>1, <3>3, <4>1, <4>3
    <3> QED BY <1>3, <3>2, <3>3
  <2>4. \A c \in Cert : certificate'[c].pem # NoKey => row'[certificate'[c].pem].status # "absent"
    BY <1>1, <1>2, <1>4 DEF KeysInOrder
  <2> QED BY <2>1, <2>2, <2>3, <2>4 DEF KeysInOrder
<1>7. ASSUME OneCallPerCertificate  PROVE NewestKnowsOrder'
  <2> SUFFICES ASSUME NEW j \in Id, row'[j].key # NoKey, row'[j].cert # NoCert, ~Superseded(j)'
               PROVE  /\ \A o \in Orders : row'[j].key \in Submitted(o)' => row'[j].order = o
                      /\ \A o \in Orders : \A k \in Submitted(o)' :
                           row'[k].cert = row'[j].cert => k <= row'[j].key
                      /\ row'[j].key >= certificate'[row'[j].cert].pem
    BY DEF NewestKnowsOrder
  <2>1. /\ row[j].key = row'[j].key /\ row[j].cert = row'[j].cert /\ ~Superseded(j)
        /\ row[j].key \in Id
    BY <1>1, <1>2 DEF Superseded
  <2>2. /\ \A o \in Orders : row[j].key \in Submitted(o) => row[j].order = o
        /\ \A o \in Orders : \A k \in Submitted(o) : row[k].cert = row[j].cert => k <= row[j].key
        /\ row[j].key >= certificate[row[j].cert].pem /\ row[j].cert \in Cert
    BY <1>2, <1>7, <2>1 DEF NewestKnowsOrder
  <2>3. ASSUME NEW i \in Id, row[i].status \in Unfinished, row[i].cert = row[j].cert
        PROVE  i = j
    BY <1>5, <2>1, <2>3, IdOrder DEF Superseded
  <2>4. ASSUME NEW o \in Orders, NEW k \in Submitted(o)', row[k].cert = row[j].cert
        PROVE  (k = row[j].key => row[j].order = o) /\ k <= row[j].key
    <3>1. CASE k \in Submitted(o)
      BY <2>2, <2>4, <3>1
    <3>2. ASSUME NEW i \in Id, Submits(i, o, k), row[k].cert = row[i].cert
          PROVE  row[j].order = o /\ k = row[j].key
      BY <2>3, <2>4, <3>2 DEF Submits
    <3>3. k \in Id /\ row[j].key \in Id
      BY <1>3, <2>1
    <3> QED BY <1>3, <3>1, <3>2, <3>3, IdOrder
  <2>5. row'[j].key >= certificate'[row'[j].cert].pem
    <3>1. CASE certificate'[row[j].cert].pem = certificate[row[j].cert].pem
      BY <2>1, <2>2, <3>1
    <3>2. CASE certificate'[row[j].cert].pem # certificate[row[j].cert].pem
      <4>1. certificate'[row[j].cert].pem = row[j].key
        BY <1>4, <2>2, <2>3, <3>2
      <4> QED BY <1>2, <2>1, <4>1, IdOrder
    <3> QED BY <3>1, <3>2
  <2>6. ASSUME NEW o \in Orders, row'[j].key \in Submitted(o)'
        PROVE  row'[j].order = o
    <3>1. row[row[j].key].cert = row[j].cert
      BY <1>2, <2>1 DEF KeysInOrder
    <3>2. row[j].order = o
      BY <2>1, <2>4, <2>6, <3>1
    <3> QED BY <1>1, <3>2 DEF Orders, NoOrder
  <2>7. ASSUME NEW o \in Orders, NEW k \in Submitted(o)', row'[k].cert = row'[j].cert
        PROVE  k <= row'[j].key
    <3>1. row[k].cert = row[j].cert
      BY <1>1, <1>3, <2>1, <2>7
    <3> QED BY <2>1, <2>4, <3>1
  <2> QED BY <2>5, <2>6, <2>7
<1>8. ASSUME OneCallPerCertificate  PROVE OneOrderPerSubmission'
  <2> SUFFICES ASSUME NEW o \in Orders, NEW p \in Orders, o # p,
                      NEW k \in Submitted(o)', k \in Submitted(p)'
               PROVE  FALSE
    BY DEF OneOrderPerSubmission
  <2>1. ASSUME NEW a \in Orders, NEW b \in Orders, a # b, NEW i \in Id, Submits(i, a, k),
               k \in Submitted(b)'
        PROVE  FALSE
    <3>1. ~Superseded(i) /\ row[i].cert # NoCert /\ row[i].key = k /\ k # NoKey /\ row[i].order = a
      BY <1>5, <2>1 DEF Submits
    <3>2. k \notin Submitted(b)
      BY <1>2, <1>8, <2>1, <3>1 DEF NewestKnowsOrder
    <3>3. PICK j \in Id : Submits(j, b, k)
      BY <1>3, <2>1, <3>2
    <3>4. row[j].cert = row[i].cert /\ ~Superseded(j)
      BY <1>2, <1>5, <3>1, <3>3 DEF KeysInOrder, Submits
    <3>5. j = i
      BY <3>1, <3>4, IdOrder DEF Superseded
    <3> QED BY <2>1, <3>1, <3>3, <3>5 DEF Submits
  <2>2. CASE k \in Submitted(o) /\ k \in Submitted(p)
    BY <1>2, <1>8, <2>2 DEF OneOrderPerSubmission
  <2>3. CASE k \notin Submitted(o)
    BY <1>3, <2>1, <2>3
  <2>4. CASE k \notin Submitted(p)
    BY <1>3, <2>1, <2>4
  <2> QED BY <2>2, <2>3, <2>4
<1>9. InstalledKeyMatches'
  <2> SUFFICES ASSUME NEW c \in Cert
               PROVE  /\ certificate'[c].key = certificate'[c].pem
                      /\ (certificate'[c].status = "active") <=> (certificate'[c].pem # NoKey)
                      /\ certificate'[c].pem # NoKey =>
                           \E o \in Orders : /\ order'[o].csr = certificate'[c].pem
                                             /\ order'[o].status = "valid"
                                             /\ order'[o].names = Names[c]
    BY DEF InstalledKeyMatches
  <2>1. ASSUME NEW o \in Orders, order[o].csr # NoKey, order[o].status = "valid"
        PROVE  /\ order'[o].csr = order[o].csr /\ order'[o].status = "valid"
               /\ order'[o].names = order[o].names
    BY <2>1 DEF OrderGrows
  <2>2. CASE /\ certificate'[c].key = certificate[c].key
             /\ certificate'[c].pem = certificate[c].pem
             /\ (certificate'[c].status = "active") <=> (certificate[c].status = "active")
    BY <1>2, <2>1, <2>2 DEF InstalledKeyMatches
  <2>3. CASE \E i \in Id :
              /\ row[i].status \in Unfinished /\ row[i].cert = c /\ row[i].key # NoKey
              /\ row[i].order \in Orders
              /\ order[row[i].order].status = "valid"
              /\ order[row[i].order].csr = row[i].key
              /\ order[row[i].order].names = Names[c]
              /\ certificate'[c].status = "active"
              /\ certificate'[c].key = row[i].key /\ certificate'[c].pem = row[i].key
              /\ UNCHANGED <<row, order>>
    BY <2>3
  <2> QED BY <2>2, <2>3, CertificateStep
<1>10. ASSUME OneCallPerCertificate  PROVE OwnOrder'
  <2> SUFFICES ASSUME NEW j \in Id, row'[j].key # NoKey, row'[j].cert # NoCert, ~Superseded(j)',
                      Exclusive(row'[j].cert),
                      NEW o \in {row'[j].order, mem'[j].order}, o # NoOrder,
                      order'[o].csr # NoKey, ~LateRequests
               PROVE  order'[o].csr = row'[j].key
    BY DEF OwnOrder, Exclusive
  <2>1. row[j].key = row'[j].key /\ row[j].cert = row'[j].cert /\ ~Superseded(j)
    BY <1>1 DEF Superseded
  <2>2. /\ OwnOrder /\ OwnsRow(j) /\ NamesOrder(j)
        /\ mem[j].order \in Orders \cup {NoOrder} /\ row[j].order \in Orders \cup {NoOrder}
    BY <1>10, RowFields DEF IInv, OrderInv, WorkerInv, TypeOK
  <2>3. o \in {row[j].order, mem[j].order}
    BY <2>2 DEF RowWrite, MemOrder
  <2>4. o \in Orders /\ order[o].csr \in {NoKey, row[j].key}
    BY <2>1, <2>2, <2>3 DEF OwnOrder
  <2>5. CASE order'[o].csr = order[o].csr
    BY <2>1, <2>4, <2>5
  <2>6. CASE order'[o].csr # order[o].csr
    <3>1. PICK i \in Id : /\ row[i].status \in Unfinished /\ row[i].order = o
                          /\ order'[o].csr = row[i].key /\ row[i].key # NoKey
      BY <2>4, <2>6, SubmissionStep DEF Submits
    <3>2. order[o].names = Names[row[i].cert] /\ ~Superseded(i) /\ row[i].cert \in Cert
      BY <1>2, <1>5, <3>1 DEF IInv, WorkerInv, NamesOrder
    <3>3. order[o].names = Names[row[j].cert]
      <4>1. CASE o = row[j].order
        BY <2>2, <4>1 DEF NamesOrder
      <4>2. CASE o = mem[j].order
        <5>1. order[o].names = Names[mem[j].cert]
          BY <2>2, <4>2 DEF NamesOrder
        <5>2. mem[j].cert = row[j].cert
          BY <2>2, <4>2, AbsentFields DEF OwnsRow
        <5> QED BY <5>1, <5>2
      <4> QED BY <2>3, <4>1, <4>2
    <3>4. row[i].cert = row[j].cert
      BY <1>2, <2>1, <3>2, <3>3 DEF Exclusive
    <3> QED BY <2>1, <3>1, <3>2, <3>4, IdOrder DEF Superseded
  <2> QED BY <2>5, <2>6
<1> QED BY <1>6, <1>7, <1>8, <1>9, <1>10


\* A step that writes rows of workers, or none, keeps what the starting calls
\* continue.
LEMMA StartingStep ==
  ASSUME IInv, [Next]_vars, \A j \in Id : RowWrite(j), NEW q \in Request,
         ~\E p \in Request : CreateIssuance(p)
  PROVE  StartsFromRow(q)' /\ (OneCallPerCertificate => StartsFromNewest(q)')
<1>1. /\ starting \in [Request -> Row] /\ row \in [Id -> Row]
      /\ StartsFromRow(q) /\ (OneCallPerCertificate => StartsFromNewest(q))
  BY DEF IInv, OrderInv, TypeOK
<1>2. \A j \in Id : /\ row[j].status \in Finished => row'[j] = row[j]
                    /\ Superseded(j)' => Superseded(j)
  <2>1. \A j \in Id : row'[j].cert = row[j].cert
    BY WritesKeepRows
  <2> QED BY <2>1 DEF RowWrite, Superseded, Unfinished, Finished
<1>3. CASE starting'[q] = starting[q]
  <2>1. \A last \in Id : Continues(q, last) => Continues(q, last)'
    BY <1>2, <1>3 DEF Continues
  <2> QED BY <1>1, <1>2, <1>3, <2>1 DEF StartsFromRow, StartsFromNewest
<1>4. CASE starting'[q] = Absent
  BY <1>4 DEF StartsFromRow, StartsFromNewest
<1>5. ASSUME NEW p \in Request, NEW same \in BOOLEAN, ListPrevious(p, same)
      PROVE  StartsFromRow(q)' /\ (OneCallPerCertificate => StartsFromNewest(q)')
  <2> DEFINE last == Newest(Target[p])
             fresh == [Absent EXCEPT !.cert = Target[p], !.status = "running"]
             inherited == [fresh EXCEPT !.key = row[last].key,
                                        !.order = row[last].order,
                                        !.confirmed = row[last].confirmed]
  <2>1. /\ starting[p] = Absent
        /\ \/ starting' = [starting EXCEPT ![p] = fresh]
           \/ /\ last # 0 /\ row[last].status = "failed" /\ row[last].key # NoKey
              /\ starting' = [starting EXCEPT ![p] = inherited]
        /\ row' = row
    BY <1>5 DEF ListPrevious, storeVars
  <2>2. CASE q # p
    <3>1. starting'[q] = starting[q]
      BY <1>1, <2>1, <2>2
    <3> HIDE DEF last, fresh, inherited
    <3>2. \A k \in Id : Continues(q, k) => Continues(q, k)'
      BY <2>1, <3>1 DEF Continues
    <3>3. \A k \in Id : ~Superseded(k) => ~Superseded(k)'
      BY <2>1 DEF Superseded
    <3> QED BY <1>1, <1>3, <3>1, <3>2, <3>3 DEF StartsFromRow, StartsFromNewest
  <2>3. CASE q = p /\ starting'[q] = fresh
    <3>1. /\ fresh.cert = Target[p] /\ fresh.status = "running" /\ fresh.attempts = 0
          /\ fresh.key = NoKey /\ fresh.order = NoOrder
      BY DEF Absent
    <3> QED BY <2>3, <3>1 DEF StartsFromRow, StartsFromNewest
  <2>4. CASE /\ q = p /\ last # 0 /\ row[last].status = "failed" /\ row[last].key # NoKey
             /\ starting'[q] = inherited
    <3>1. PICK k \in Id : k = last /\ row[k].cert = Target[p] /\ ~Superseded(k)
      BY <2>4, NewestIsLast
    <3> HIDE DEF last
    <3>2. /\ inherited.cert = Target[p] /\ inherited.status = "running" /\ inherited.attempts = 0
          /\ inherited.key = row[k].key /\ inherited.order = row[k].order
      BY <3>1 DEF Absent
    <3> HIDE DEF fresh, inherited
    <3>3. Continues(q, k)' /\ ~Superseded(k)'
      BY <2>1, <2>4, <3>1, <3>2 DEF Continues, Superseded, Finished
    <3> QED BY <2>4, <3>1, <3>2, <3>3 DEF StartsFromRow, StartsFromNewest
  <2> QED BY <1>1, <2>1, <2>2, <2>3, <2>4
<1>6. ASSUME NEW p \in Request, StartFails(p)
      PROVE  starting'[q] = starting[q] \/ starting'[q] = Absent
  BY <1>1, <1>6 DEF StartFails
<1>7. CASE Crash
  BY <1>4, <1>7 DEF Crash
<1>8. ASSUME NEW i \in Id, Step(i)  PROVE starting' = starting
  BY <1>8, StepFrame DEF StepFramed
<1>9. CASE UNCHANGED starting
  BY <1>3, <1>9
<1> QED
  BY <1>3, <1>4, <1>5, <1>6, <1>7, <1>8, <1>9 DEF Next, vars, CancelIssuance, ContinueIssuance,
     Close, Closed, NewService, CAValidates, CAAdvances, DeliverLate

\* What CreateIssuance writes, and where.
Inserted(c, i) ==
    /\ row[i] = Absent
    /\ \A j \in Id : (j < i <=> row[j].status # "absent")
    /\ \A j \in Id : row[j].cert = c => row[j].status \notin Unfinished
    /\ \A j \in Id \ {i} : row'[j] = row[j] /\ mem'[j] = mem[j] /\ pc'[j] = pc[j]
    /\ mem'[i] = row'[i] /\ pc'[i] = "begin"
    /\ row'[i].cert = c /\ row'[i].status = "running" /\ row'[i].attempts = 0
    /\ \/ row'[i].key = i /\ row'[i].order = NoOrder
       \/ \E last \in Id :
            /\ row[last].cert = c
            /\ OneCallPerCertificate => ~Superseded(last)
            /\ row[last].key # NoKey
            /\ row'[i].key = row[last].key /\ row'[i].order = row[last].order
    /\ UNCHANGED <<certificate, order>>

LEMMA StartRow ==
  ASSUME IInv, NEW q \in Request, CreateIssuance(q)
  PROVE  \E i \in Id : Inserted(Target[q], i)
<1>1. /\ RowsInOrder /\ StartsFromRow(q) /\ (OneCallPerCertificate => StartsFromNewest(q))
      /\ row \in [Id -> Row] /\ mem \in [Id -> Row] /\ pc \in [Id -> Label]
      /\ starting[q] \in Row /\ starting[q] # Absent
  BY DEF IInv, OrderInv, TypeOK, CreateIssuance
<1> DEFINE new(i) == [starting[q] EXCEPT !.key = IF starting[q].key = NoKey THEN i
                                                ELSE starting[q].key]
<1>10. PICK i \in Id :
        /\ row[i] = Absent
        /\ \A j \in Id : j < i => row[j] # Absent
        /\ SaveRow(i, new(i)) /\ mem' = [mem EXCEPT ![i] = new(i)] /\ Goto(i, "begin")
  BY DEF CreateIssuance
<1>2. PICK r :
        /\ row[i] = Absent
        /\ \A j \in Id : j < i => row[j] # Absent
        /\ r = new(i)
        /\ SaveRow(i, r) /\ mem' = [mem EXCEPT ![i] = r] /\ Goto(i, "begin")
  BY <1>10
<1>3. /\ r.cert = Target[q] /\ r.status = "running" /\ r.attempts = 0
      /\ r.order = starting[q].order
      /\ r.key = IF starting[q].key = NoKey THEN i ELSE starting[q].key
  BY <1>1, <1>2 DEF StartsFromRow, Row
<1>4. \/ r.key = i /\ r.order = NoOrder
      \/ \E last \in Id :
           /\ row[last].cert = Target[q]
           /\ OneCallPerCertificate => ~Superseded(last)
           /\ row[last].key # NoKey
           /\ r.key = row[last].key /\ r.order = row[last].order
  <2>1. CASE starting[q].key = NoKey
    BY <1>1, <1>3, <2>1 DEF StartsFromRow
  <2>2. CASE starting[q].key # NoKey /\ OneCallPerCertificate
    BY <1>1, <1>3, <2>2 DEF StartsFromNewest, Continues
  <2>3. CASE starting[q].key # NoKey /\ ~OneCallPerCertificate
    BY <1>1, <1>3, <2>3 DEF StartsFromRow, Continues
  <2> QED BY <2>1, <2>2, <2>3
<1>5. \A j \in Id : (j < i <=> row[j].status # "absent")
  <2>1. row[i].status = "absent"
    BY <1>2, AbsentFields
  <2>2. \A j \in Id : row[j].status = "absent" => row[j] = Absent
    BY <1>1 DEF RowsInOrder
  <2>3. \A j \in Id : row[j].status # "absent" /\ i < j => FALSE
    BY <1>1, <2>1 DEF RowsInOrder
  <2> QED BY <1>2, <2>1, <2>2, <2>3, IdOrder
<1>6. \A j \in Id : row[j].cert = Target[q] => row[j].status \notin Unfinished
  BY <1>1 DEF CreateIssuance, UnfinishedOf, StartsFromRow
<1>7. /\ row'[i] = r /\ mem'[i] = r /\ pc'[i] = "begin"
      /\ \A j \in Id \ {i} : row'[j] = row[j] /\ mem'[j] = mem[j] /\ pc'[j] = pc[j]
  BY <1>1, <1>2 DEF SaveRow, Goto
<1>8. UNCHANGED <<certificate, order>>
  BY DEF CreateIssuance
<1>9. /\ row'[i].cert = Target[q] /\ row'[i].status = "running" /\ row'[i].attempts = 0
      /\ \/ row'[i].key = i /\ row'[i].order = NoOrder
         \/ \E last \in Id :
              /\ row[last].cert = Target[q]
              /\ OneCallPerCertificate => ~Superseded(last)
              /\ row[last].key # NoKey
              /\ row'[i].key = row[last].key /\ row'[i].order = row[last].order
      /\ mem'[i] = row'[i] /\ pc'[i] = "begin"
  BY <1>3, <1>4, <1>7
<1> QED
  BY <1>2, <1>5, <1>6, <1>7, <1>8, <1>9 DEF Inserted

LEMMA StartKeeps ==
  ASSUME IInv, NEW q \in Request, CreateIssuance(q), \A o \in Orders : OrderGrows(o)
  PROVE  /\ RowsInOrder' /\ KeysInOrder' /\ InstalledKeyMatches'
         /\ \A i \in Id : WorkerInv(i)'
         /\ \A p \in Request : StartsFromRow(p)'
         /\ OneCallPerCertificate => OrderInv'
<1> DEFINE c == Target[q]
<1> c \in Cert
  BY ConstantsAssumption
<1> HIDE DEF c
<1>0. PICK i \in Id : Inserted(c, i)
  BY StartRow DEF c
<1>1. /\ row[i] = Absent
      /\ \A j \in Id : (j < i <=> row[j].status # "absent")
      /\ \A j \in Id : row[j].cert = c => row[j].status \notin Unfinished
      /\ \A j \in Id \ {i} : row'[j] = row[j] /\ mem'[j] = mem[j] /\ pc'[j] = pc[j]
      /\ mem'[i] = row'[i] /\ pc'[i] = "begin"
      /\ row'[i].cert = c /\ row'[i].status = "running" /\ row'[i].attempts = 0
      /\ \/ row'[i].key = i /\ row'[i].order = NoOrder
         \/ \E last \in Id :
              /\ row[last].cert = c
              /\ OneCallPerCertificate => ~Superseded(last)
              /\ row[last].key # NoKey
              /\ row'[i].key = row[last].key /\ row'[i].order = row[last].order
      /\ UNCHANGED <<certificate, order>>
  BY <1>0 DEF Inserted
<1>2. /\ RowsInOrder /\ KeysInOrder /\ InstalledKeyMatches
      /\ OneCallPerCertificate => NewestKnowsOrder /\ OwnOrder /\ OneOrderPerSubmission
      /\ \A j \in Id : row[j].key \in Id \cup {NoKey} /\ row[j].order \in Orders \cup {NoOrder}
      /\ \A j \in Id : row[j].cert \in Cert \cup {NoCert}
      /\ \A o \in Orders : Submitted(o) \subseteq Id
      /\ \A d \in Cert : certificate[d].pem \in Id \cup {NoKey}
      /\ c # NoCert /\ MaxAttempts \in Nat \ {0}
  <2>1. \A o \in Orders : Submitted(o) \subseteq Id
    BY SubmittedKeys
  <2> QED BY <2>1, RowFields, CertificateFields, ConstantsAssumption DEF IInv, OrderInv, TypeOK
<1>3. /\ row[i].status = "absent" /\ row[i].cert = NoCert /\ row[i].key = NoKey
      /\ \A j \in Id : i < j => row[j].status = "absent"
      /\ \A j \in Id : row[j].cert # NoCert => j < i
  BY <1>1, <1>2, AbsentFields, IdOrder DEF RowsInOrder
<1>4. \A j \in Id \ {i} : Superseded(j) /\ row[j].cert # NoCert => Superseded(j)'
  BY <1>1, <1>3 DEF Superseded
<1>5. RowsInOrder'
  <2>1. \A j \in Id \ {i} : row'[j].status \in Unfinished => ~Superseded(j)'
    <3> SUFFICES ASSUME NEW j \in Id \ {i}, row[j].status \in Unfinished, Superseded(j)'
                 PROVE  FALSE
      BY <1>1
    <3>1. PICK k \in Id : k > j /\ row'[k].cert = row[j].cert
      BY <1>1 DEF Superseded
    <3>2. k = i
      BY <1>1, <1>2, <3>1 DEF RowsInOrder, Superseded
    <3> QED BY <1>1, <3>1, <3>2
  <2>2. ~Superseded(i)'
    BY <1>1, <1>2, <1>3, IdOrder DEF Superseded, RowsInOrder
  <2>3. \A j \in Id : j # i => j < i \/ i < j
    BY IdOrder
  <2>4. \A j \in Id : j < i => row'[j].status # "absent"
    BY <1>1, IdOrder
  <2>5. \A j \in Id : i < j => row'[j].status = "absent"
    BY <1>1, <1>3, IdOrder
  <2>6. row'[i].key # NoKey
    BY <1>1, IdOrder
  <2> QED BY <1>1, <1>2, <2>1, <2>2, <2>3, <2>4, <2>5, <2>6, IdOrder DEF RowsInOrder
\* No step refers to the new issuance before there is one.
<1>12. /\ \A o \in Orders : Submitted(o)' = Submitted(o)
       /\ \A o \in Orders : \A k \in Submitted(o) :
            k \in Id /\ k < i /\ row'[k] = row[k] /\ row[k].status # "absent"
  <2>1. \A o \in Orders : Submitted(o)' = Submitted(o)
    BY <1>1 DEF Submitted
  <2>2. ASSUME NEW o \in Orders, NEW k \in Submitted(o)
        PROVE  k \in Id /\ row[k].status # "absent"
    BY <1>2 DEF KeysInOrder
  <2> QED BY <1>1, <1>3, <2>1, <2>2
<1>6. KeysInOrder'
  <2>1. /\ row'[i].key # NoKey /\ row'[i].key <= i
        /\ row'[row'[i].key].status # "absent" /\ row'[row'[i].key].cert = c
        /\ row'[i].key \in Id
        /\ \A j \in Id \ {i} : row[j].key = row'[i].key => row[j].cert = c
    <3>1. CASE row'[i].key = i
      <4>1. \A j \in Id : row[j].key # i
        BY <1>2, <1>3, IdOrder DEF KeysInOrder
      <4> QED BY <1>1, <3>1, <4>1, IdOrder
    <3>2. ASSUME NEW last \in Id, row[last].cert = c, row[last].key # NoKey,
                 row'[i].key = row[last].key
          PROVE  /\ row'[i].key # NoKey /\ row'[i].key <= i
                 /\ row'[row'[i].key].status # "absent" /\ row'[row'[i].key].cert = c
                 /\ row'[i].key \in Id
                 /\ \A j \in Id \ {i} : row[j].key = row'[i].key => row[j].cert = c
      <4>1. row[last].key \in Id /\ row[last].key <= last /\ last < i
        BY <1>2, <1>3, <3>2 DEF KeysInOrder
      <4>2. row[last].key < i
        BY <4>1, IdOrder
      <4>3. \A j \in Id : row[j].key = row[last].key => row[j].cert = c
        BY <1>2, <3>2 DEF KeysInOrder
      <4>4. row[row[last].key].status # "absent" /\ row[row[last].key].cert = c
        BY <1>2, <3>2 DEF KeysInOrder
      <4>5. row'[row[last].key] = row[row[last].key]
        BY <1>1, <4>1, <4>2, IdOrder
      <4> QED BY <3>2, <4>1, <4>2, <4>3, <4>4, <4>5, IdOrder
    <3> QED BY <1>1, <3>1, <3>2
  <2>2. \A j \in Id \ {i} : row'[j].key # NoKey =>
          /\ row'[j].key <= j
          /\ row'[row'[j].key].status # "absent" /\ row'[row'[j].key].cert = row'[j].cert
    <3>1. \A k \in Id : row[k].status # "absent" => row'[k] = row[k]
      BY <1>1, <1>3
    <3> QED BY <1>1, <1>2, <3>1 DEF KeysInOrder
  <2>3. \A o \in Orders : \A k \in Submitted(o)' :
          row'[k].status # "absent" /\ order'[o].names = Names[row'[k].cert]
    BY <1>1, <1>2, <1>12 DEF KeysInOrder
  <2>4. \A d \in Cert : certificate'[d].pem # NoKey => row'[certificate'[d].pem].status # "absent"
    BY <1>1, <1>2, <1>3 DEF KeysInOrder
  <2>5. \A j, k \in Id : row'[j].key # NoKey /\ row'[k].key = row'[j].key =>
          row'[k].cert = row'[j].cert
    BY <1>1, <1>2, <2>1 DEF KeysInOrder
  <2> QED BY <1>1, <2>1, <2>2, <2>3, <2>4, <2>5 DEF KeysInOrder
<1>7. ASSUME OneCallPerCertificate  PROVE NewestKnowsOrder'
  <2>1. ASSUME NEW j \in Id \ {i}, row'[j].key # NoKey, row'[j].cert # NoCert, ~Superseded(j)'
        PROVE  /\ \A o \in Orders : row'[j].key \in Submitted(o)' => row'[j].order = o
               /\ \A o \in Orders : \A k \in Submitted(o)' :
                    row'[k].cert = row'[j].cert => k <= row'[j].key
               /\ row'[j].key >= certificate'[row'[j].cert].pem
    BY <1>1, <1>2, <1>4, <1>7, <1>12, <2>1 DEF NewestKnowsOrder
  <2>2. /\ \A o \in Orders : row'[i].key \in Submitted(o)' => row'[i].order = o
        /\ \A o \in Orders : \A k \in Submitted(o)' : row'[k].cert = c => k <= row'[i].key
        /\ row'[i].key >= certificate'[c].pem
    <3>1. CASE row'[i].key = i
      <4>1. \A o \in Orders : i \notin Submitted(o) /\ \A k \in Submitted(o) : k <= i
        BY <1>12, IdOrder
      <4>2. certificate[c].pem # NoKey => certificate[c].pem < i
        BY <1>1, <1>2 DEF KeysInOrder
      <4>3. i >= certificate[c].pem
        BY <1>2, <4>2, IdOrder DEF NoKey
      <4> QED BY <1>1, <1>12, <3>1, <4>1, <4>3
    <3>2. ASSUME NEW last \in Id, row[last].cert = c, ~Superseded(last), row[last].key # NoKey,
                 row'[i].key = row[last].key, row'[i].order = row[last].order
          PROVE  /\ \A o \in Orders : row'[i].key \in Submitted(o)' => row'[i].order = o
                 /\ \A o \in Orders : \A k \in Submitted(o)' : row'[k].cert = c => k <= row'[i].key
                 /\ row'[i].key >= certificate'[c].pem
      BY <1>1, <1>2, <1>7, <1>12, <3>2 DEF NewestKnowsOrder
    <3> QED BY <1>1, <1>7, <3>1, <3>2
  <2> QED BY <1>1, <2>1, <2>2 DEF NewestKnowsOrder
<1>8. (OneCallPerCertificate => OneOrderPerSubmission') /\ InstalledKeyMatches'
  BY <1>1, <1>2, <1>12 DEF OneOrderPerSubmission, InstalledKeyMatches
<1>9. ASSUME NEW j \in Id  PROVE WorkerInv(j)'
  <2>1. CASE j # i
    BY <1>1, <2>1, WorkerFrame
  <2>2. CASE j = i
    <3>1. row'[i].key # NoKey
      BY <1>1, IdOrder
    <3>2. row'[i].order # NoOrder =>
            /\ order'[row'[i].order].names = Names[c]
            /\ order'[row'[i].order].status # "none"
      BY <1>1, <1>2, NamesGrow
    <3>3. OwnsRow(i)' /\ OrderSaved(i)' /\ NamesOrder(i)'
      BY <1>1, <3>1, <3>2 DEF OwnsRow, OrderSaved, NamesOrder, Unfinished, Recorded
    <3>4. RetryLeft(i)'
      BY <1>1, <1>2 DEF RetryLeft
    <3> QED BY <2>2, <3>3, <3>4 DEF WorkerInv
  <2> QED BY <2>1, <2>2
<1>10. ASSUME OneCallPerCertificate  PROVE OwnOrder'
  <2> SUFFICES ASSUME NEW j \in Id, row'[j].key # NoKey, row'[j].cert # NoCert, ~Superseded(j)',
                      Exclusive(row'[j].cert),
                      NEW o \in {row'[j].order, mem'[j].order}, o # NoOrder, ~LateRequests
               PROVE  order'[o].csr \in {NoKey, row'[j].key}
    BY DEF OwnOrder, Exclusive
  <2>1. OwnOrder
    BY <1>2, <1>10
  <2>2. CASE j # i
    BY <1>1, <1>4, <2>1, <2>2 DEF OwnOrder
  <2>3. CASE j = i
    <3>1. PICK last \in Id :
                   /\ row[last].cert = c /\ ~Superseded(last)
                   /\ row[last].key # NoKey
                   /\ row'[i].key = row[last].key /\ row'[i].order = row[last].order
      BY <1>1, <1>10, <2>3
    <3>2. o = row[last].order /\ Exclusive(row[last].cert) /\ row[last].cert # NoCert
      BY <1>1, <1>2, <2>3, <3>1
    <3>3. order[o].csr \in {NoKey, row[last].key}
      BY <2>1, <3>1, <3>2 DEF OwnOrder
    <3> QED BY <1>1, <2>3, <3>1, <3>3
  <2> QED BY <2>2, <2>3
<1>11. ASSUME NEW p \in Request
       PROVE  StartsFromRow(p)' /\ (OneCallPerCertificate => StartsFromNewest(p)')
  <2>1. /\ starting' = [starting EXCEPT ![q] = Absent] /\ starting \in [Request -> Row]
        /\ StartsFromRow(p) /\ (OneCallPerCertificate => StartsFromNewest(p))
    BY DEF CreateIssuance, IInv, OrderInv, TypeOK
  <2>2. CASE p = q
    BY <2>1, <2>2 DEF StartsFromRow, StartsFromNewest
  <2>3. CASE p # q
    <3>1. starting'[p] = starting[p]
      BY <2>1, <2>3
    <3>2. \A k \in Id : Continues(p, k) => k # i /\ Continues(p, k)'
      BY <1>1, <1>3, <3>1 DEF Continues, Finished
    <3>3. ASSUME OneCallPerCertificate, NEW k \in Id, Continues(p, k), ~Superseded(k)
          PROVE  ~Superseded(k)'
      <4>1. row'[i].cert # row[k].cert
        BY <1>1, <2>3, <3>3 DEF OneCallPerCertificate, Continues, c
      <4> QED BY <1>1, <3>2, <3>3, <4>1 DEF Superseded
    <3> QED BY <2>1, <3>1, <3>2, <3>3 DEF StartsFromRow, StartsFromNewest
  <2> QED BY <2>2, <2>3
<1> QED BY <1>5, <1>6, <1>7, <1>8, <1>9, <1>10, <1>11 DEF OrderInv

-----------------------------------------------------------------------------
(* The invariant holds initially and is kept by every step. *)

LEMMA WorkersStep ==
  ASSUME IInv, [Next]_vars, \A o \in Orders : OrderGrows(o), NEW j \in Id,
         ~\E q \in Request : CreateIssuance(q)
  PROVE  WorkerInv(j)'
<1>1. TypeOK /\ WorkerInv(j)
  BY DEF IInv
<1>2. ASSUME NEW i \in Id, Step(i)  PROVE WorkerInv(j)'
  <2>1. CASE j = i
    BY <1>1, <1>2, <2>1, StepMoves, WorkerMoves, WorkerWrites
  <2>2. CASE j # i
    BY <1>1, <1>2, <2>2, StepIsLocal, WorkerFrame
  <2> QED BY <2>1, <2>2
<1>3. CASE Quiet
  BY <1>3, WorkerFrame DEF Quiet
<1>4. ASSUME NEW i \in Id, NEW force \in BOOLEAN, ContinueIssuance(i, force)  PROVE WorkerInv(j)'
  <2>1. row' = row /\ mem' = mem
    BY <1>4 DEF ContinueIssuance, storeVars
  <2>2. CASE pc'[j] = pc[j]
    BY <2>1, <2>2, WorkerFrame
  <2>3. CASE pc'[j] # pc[j]
    <3>1. pc[j] = "await" /\ pc'[j] \in {"check", "confirm"}
      BY <1>1, <1>4, <2>3 DEF ContinueIssuance, Goto, TypeOK
    <3>2. OwnsRow(j)' /\ OrderSaved(j)' /\ RetryLeft(j)'
      BY <1>1, <2>1, <3>1 DEF WorkerInv, OwnsRow, OrderSaved, RetryLeft, Recorded, Unsaved
    <3>3. NamesOrder(j)'
      BY <2>1, <3>1, NamesGrow DEF NamesOrder
    <3> QED BY <3>2, <3>3 DEF WorkerInv
  <2> QED BY <2>2, <2>3
<1>5. CASE Crash
  <2>1. row'[j] = row[j] /\ mem'[j] = Absent /\ pc'[j] = "idle"
    BY <1>5 DEF Crash, storeVars
  <2>2. row[j].attempts <= MaxAttempts /\ 0 <= MaxAttempts
         /\ (row[j].status = "retrying" => row[j].attempts < MaxAttempts)
    BY <1>1, ConstantsAssumption DEF WorkerInv, RetryLeft
  <2>3. OwnsRow(j)' /\ OrderSaved(j)' /\ RetryLeft(j)'
    BY <2>1, <2>2, AbsentFields DEF OwnsRow, OrderSaved, RetryLeft
  <2>4. NamesOrder(j)'
    BY <2>1, AbsentFields, NamesGrow DEF NamesOrder
  <2> QED BY <2>3, <2>4 DEF WorkerInv
<1>6. CASE NewService
  <2>1. /\ row[j].attempts <= MaxAttempts /\ 0 <= MaxAttempts
        /\ (row[j].status = "retrying" => row[j].attempts < MaxAttempts)
        /\ row[j] \in Row /\ row \in [Id -> Row]
    BY <1>1, ConstantsAssumption DEF WorkerInv, RetryLeft, TypeOK
  <2>2. CASE row[j].status \in Unfinished /\ row[j].key # NoKey
    <3>1. /\ row'[j] = row[j] /\ mem'[j] = row[j]
          /\ pc'[j] = IF row[j].status = "retrying" THEN "timer" ELSE "begin"
      BY <1>6, <2>1, <2>2 DEF NewService
    <3>2. OwnsRow(j)' /\ OrderSaved(j)'
      BY <2>2, <3>1 DEF OwnsRow, OrderSaved, Recorded, Unfinished
    <3>3. RetryLeft(j)'
      BY <2>1, <3>1 DEF RetryLeft
    <3>4. NamesOrder(j)'
      BY <3>1, NamesGrow DEF NamesOrder
    <3> QED BY <3>2, <3>3, <3>4 DEF WorkerInv
  <2>3. CASE ~(row[j].status \in Unfinished /\ row[j].key # NoKey)
    <3>1. mem'[j] = Absent /\ pc'[j] = "idle"
      BY <1>6, <2>3 DEF NewService
    <3>2. \/ row'[j] = row[j]
          \/ row'[j] = [row[j] EXCEPT !.status = "failed"]
      BY <1>6, <2>1 DEF NewService
    <3>3. /\ row'[j].attempts = row[j].attempts /\ row'[j].cert = row[j].cert
          /\ row'[j].order = row[j].order
          /\ row'[j].status \in {row[j].status, "failed"}
      <4>1. CASE row'[j] = row[j]
        BY <4>1
      <4>2. CASE row'[j] = [row[j] EXCEPT !.status = "failed"]
        BY <2>1, <4>2, RowKeeps
      <4> QED BY <3>2, <4>1, <4>2
    <3>4. OwnsRow(j)' /\ OrderSaved(j)' /\ RetryLeft(j)'
      BY <2>1, <3>1, <3>3, AbsentFields DEF OwnsRow, OrderSaved, RetryLeft
    <3>5. NamesOrder(j)'
      BY <3>1, <3>3, AbsentFields, NamesGrow DEF NamesOrder
    <3> QED BY <3>4, <3>5 DEF WorkerInv
  <2> QED BY <2>2, <2>3
<1> QED
  BY <1>2, <1>3, <1>4, <1>5, <1>6, NextCases

LEMMA InitInvariant ==
  Init => IInv
<1> SUFFICES ASSUME Init  PROVE IInv
  OBVIOUS
<1> USE ConstantsAssumption
<1>1. /\ \A i \in Id : mem[i] = Absent /\ pc[i] = "idle"
      /\ \A o \in Orders : order[o] = NoSuchOrder
      /\ \A c \in Cert : certificate[c].key = NoKey /\ certificate[c].pem = NoKey
                         /\ certificate[c].status = "pending"
  BY DEF Init
<1>2. \A i \in Id : \/ row[i] = Absent
                    \/ /\ i = 1 /\ row[i].cert \in Cert /\ row[i].status = "running"
                       /\ row[i].key = NoKey /\ row[i].order = NoOrder /\ row[i].attempts = 0
  <2>1. CASE row = [i \in Id |-> Absent]
    BY <2>1
  <2>2. ASSUME NEW c \in Cert, row = [[i \in Id |-> Absent] EXCEPT
                     ![1] = [Absent EXCEPT !.cert = c, !.status = "running"]]
        PROVE  \A i \in Id : \/ row[i] = Absent
                    \/ /\ i = 1 /\ row[i].cert \in Cert /\ row[i].status = "running"
                       /\ row[i].key = NoKey /\ row[i].order = NoOrder /\ row[i].attempts = 0
    <3>1. LET r == [Absent EXCEPT !.cert = c, !.status = "running"]
          IN  /\ r.cert = c /\ r.status = "running" /\ r.key = NoKey
              /\ r.order = NoOrder /\ r.attempts = 0
      BY DEF Absent
    <3>2. \A i \in Id : \/ row[i] = Absent
                        \/ i = 1 /\ row[i] = [Absent EXCEPT !.cert = c, !.status = "running"]
      BY <2>2
    <3> QED BY <3>1, <3>2
  <2> QED BY <2>1, <2>2 DEF Init
<1>3. /\ NoSuchOrder.status = "none" /\ NoSuchOrder.csr = NoKey /\ NoSuchOrder.late = NoKey
      /\ NoSuchOrder \in Order
  BY DEF NoSuchOrder, Order, OrderStatus
<1>4. TypeOK
  <2>1. row \in [Id -> Row]
    <3>1. Absent \in Row
      BY AbsentType
    <3>2. \A c \in Cert : [Absent EXCEPT !.cert = c, !.status = "running"] \in Row
      BY DEF Absent, Row, Unfinished
    <3> QED BY <3>1, <3>2 DEF Init
  <2>2. certificate \in [Cert -> CertificateRow] /\ record \in [Orders -> OrderRow]
    BY DEF Init, CertificateRow, OrderRow, OrderStatus
  <2>3. order \in [Orders -> Order] /\ mem \in [Id -> Row]
    BY <1>3, AbsentType DEF Init
  <2> QED BY <2>1, <2>2, <2>3, AbsentType DEF TypeOK, Init, Label, OrderStatus, Error
<1>5. RowsInOrder
  BY <1>2, AbsentFields, IdOrder DEF RowsInOrder, Superseded, Unfinished, Id
<1>6. \A i \in Id : WorkerInv(i)
  BY <1>1, <1>2, AbsentFields DEF WorkerInv, OwnsRow, OrderSaved, NamesOrder, RetryLeft
<1>10. \A o \in Orders : Submitted(o) = {}
  BY <1>1, <1>3 DEF Submitted
<1>7. FinalizedOrders /\ OneOrderPerSubmission
  BY <1>1, <1>3, <1>10 DEF FinalizedOrders, OneOrderPerSubmission
<1>8. KeysInOrder /\ NewestKnowsOrder /\ OwnOrder /\ InstalledKeyMatches
  BY <1>1, <1>2, <1>3, <1>10, AbsentFields DEF KeysInOrder, NewestKnowsOrder, OwnOrder,
     InstalledKeyMatches
<1>9. \A q \in Request : StartsFromRow(q) /\ StartsFromNewest(q)
  BY DEF Init, StartsFromRow, StartsFromNewest
<1> QED
  BY <1>4, <1>5, <1>6, <1>7, <1>8, <1>9 DEF IInv, OrderInv

LEMMA NextInvariant ==
  IInv /\ [Next]_vars => IInv'
<1> SUFFICES ASSUME IInv, [Next]_vars  PROVE IInv'
  OBVIOUS
<1>1. TypeOK'
  BY TypeStep
<1>2. FinalizedOrders' /\ \A o \in Orders : OrderGrows(o)
  BY OrderStep
<1>3. CASE \E q \in Request : CreateIssuance(q)
  BY <1>1, <1>2, <1>3, StartKeeps DEF IInv
<1>4. CASE ~\E q \in Request : CreateIssuance(q)
  <2>1. \A j \in Id : WorkerInv(j)'
    BY <1>2, <1>4, WorkersStep
  <2>2. \A j \in Id : RowWrite(j)
    BY <1>1, <1>4, <2>1, RowStep
  <2>3. \A j \in Id : MemOrder(j)
    BY <1>2, <1>4, MemStep
  <2>4. \A q \in Request : StartsFromRow(q)' /\ (OneCallPerCertificate => StartsFromNewest(q)')
    BY <1>4, <2>2, StartingStep
  <2>5. OneCallPerCertificate => OrderInv'
    BY <1>2, <2>2, <2>3, <2>4, WritesKeepKeys DEF OrderInv
  <2> QED BY <1>1, <1>2, <2>1, <2>2, <2>3, <2>4, <2>5, WritesKeepRows, WritesKeepKeys DEF IInv
<1> QED BY <1>3, <1>4


-----------------------------------------------------------------------------
(* The theorems. *)

\* The inductive invariant holds in every reachable state.
THEOREM Invariance == Spec => []IInv
<1> QED BY InitInvariant, NextInvariant, PTL DEF Spec

\* Every variable keeps its type.
THEOREM TypeCorrect == Spec => []TypeOK
<1>1. IInv => TypeOK
  BY DEF IInv
<1> QED BY <1>1, Invariance, PTL

\* No issuance starts more than MaxAttempts attempts, whatever number of
\* retries, shutdowns and crashes interrupt it (run, saveProgress, NewService).
THEOREM BudgetIsKept == Spec => []AttemptsWithinBudget
<1>1. IInv => AttemptsWithinBudget
  BY DEF IInv, WorkerInv, RetryLeft, AttemptsWithinBudget
<1> QED BY <1>1, Invariance, PTL

\* What a certificate row holds was issued by the CA for the row's key and for
\* its domains (issue: VerifyIssuedCertificate before UpdateCertificate).
THEOREM KeysMatch == Spec => []InstalledKeyMatches
<1>1. IInv => InstalledKeyMatches
  BY DEF IInv
<1> QED BY <1>1, Invariance, PTL

LEMMA SubmittedOnce ==
  ASSUME OneOrderPerSubmission
  PROVE  OneOrderPerKey
<1> SUFFICES ASSUME NEW o \in Orders, NEW p \in Orders, o # p, order[o].csr # NoKey,
                    order[o].csr = order[p].csr
             PROVE  FALSE
  BY DEF OneOrderPerKey
<1>1. order[o].csr \in Submitted(o) /\ order[o].csr \in Submitted(p)
  BY DEF Submitted
<1> QED BY <1>1 DEF OneOrderPerSubmission

\* No key is submitted to two orders (issue: an issuance with an order reads it
\* again instead of creating another).
THEOREM NoSecondOrder ==
  ASSUME OneCallPerCertificate
  PROVE  Spec => []OneOrderPerKey
<1>1. IInv => OneOrderPerKey
  BY OneCallPerCertificate, SubmittedOnce DEF IInv, OrderInv
<1> QED BY <1>1, Invariance, PTL

\* Whenever the process dies, the store still leads an unfinished issuance to the
\* order its key was submitted to, and to no order of another key, submissions of
\* an earlier issuance of the certificate aside.
THEOREM CrashRecoverable ==
  ASSUME OneCallPerCertificate
  PROVE  Spec => []Recoverable
<1>1. IInv => Recoverable
  <2> SUFFICES ASSUME IInv, NEW i \in Id, NEW o \in Orders,
                      row[i].status \in Unfinished, order[o].csr # NoKey
               PROVE  /\ order[o].csr = row[i].key => row[i].order = o
                      /\ row[i].order = o /\ Exclusive(row[i].cert) =>
                           \/ order[o].csr = row[i].key
                           \/ LateRequests /\ order[o].csr < row[i].key
    BY DEF Recoverable
  <2>1. /\ ~Superseded(i) /\ row[i].cert # NoCert /\ (row[i].key = NoKey => row[i].order = NoOrder)
        /\ row[i].key \in Id \cup {NoKey} /\ row[i].cert \in Cert
        /\ order[o].csr \in Submitted(o) /\ order[o].csr \in Id
    BY RowFields, SubmittedKeys DEF IInv, TypeOK, RowsInOrder, Unfinished, Submitted
  <2>2. order[o].csr = row[i].key => row[i].order = o
    BY <2>1 DEF IInv, OrderInv, NewestKnowsOrder
  <2>3. ASSUME row[i].order = o, Exclusive(row[i].cert)
        PROVE  \/ order[o].csr = row[i].key
               \/ LateRequests /\ order[o].csr < row[i].key
    <3>1. o # NoOrder /\ row[i].key # NoKey
      BY <2>1, <2>3 DEF Orders, NoOrder
    <3>2. CASE ~LateRequests
      BY <2>1, <2>3, <3>1, <3>2 DEF IInv, OrderInv, OwnOrder
    <3>3. CASE LateRequests
      <4> DEFINE k == order[o].csr
      <4>1. k \in Id /\ k \in Submitted(o) /\ row[k].cert \in Cert
        BY <2>1, RowFields DEF IInv, TypeOK, KeysInOrder, RowsInOrder
      <4>2. Names[row[k].cert] = Names[row[i].cert]
        BY <2>3, <3>1, <4>1 DEF IInv, WorkerInv, NamesOrder, KeysInOrder
      <4>3. row[k].cert = row[i].cert
        BY <2>3, <4>1, <4>2 DEF Exclusive
      <4>4. k <= row[i].key
        BY <2>1, <3>1, <4>1, <4>3 DEF IInv, OrderInv, NewestKnowsOrder
      <4> QED BY <2>1, <3>1, <3>3, <4>4, IdOrder
    <3> QED BY <3>2, <3>3
  <2> QED BY <2>2, <2>3
<1> QED BY <1>1, Invariance, PTL

\* A finished issuance is never written again, by its worker, by another one, or
\* by a restart.
THEOREM FinishedIsFinal == Spec => TerminalIsFinal
<1>1. ASSUME IInv, IInv', [Next]_vars, NEW i \in Id, row[i].status \in Finished
      PROVE  row'[i] = row[i]
  <2>1. CASE \E q \in Request : CreateIssuance(q)
    BY <1>1, <2>1, StartRow, AbsentFields DEF Finished, Inserted
  <2>2. CASE ~\E q \in Request : CreateIssuance(q)
    <3>1. RowWrite(i)
      BY <1>1, <2>2, RowStep DEF IInv
    <3> QED BY <1>1, <3>1 DEF RowWrite, Finished, Unfinished
  <2> QED BY <2>1, <2>2
<1>2. IInv /\ IInv' /\ [Next]_vars
        => [\A i \in Id : row[i].status \in Finished => row'[i] = row[i]]_vars
  BY <1>1
<1> QED BY <1>2, Invariance, PTL DEF Spec, TerminalIsFinal

\* An active certificate stays active and is only replaced by one for a key that
\* is not older (finish touches pending certificates only; issue installs last).
THEOREM CertificateIsKept ==
  ASSUME OneCallPerCertificate
  PROVE  Spec => RenewalKeepsCertificate
<1>1. ASSUME IInv, [Next]_vars, NEW c \in Cert, certificate[c].pem # NoKey
      PROVE  certificate'[c].status = "active" /\ certificate'[c].pem >= certificate[c].pem
  <2>1. /\ certificate[c].status = "active" /\ certificate[c].pem \in Id
        /\ certificate[c] \in CertificateRow
    BY <1>1, CertificateFields DEF IInv, TypeOK, InstalledKeyMatches
  <2>2. CASE certificate'[c] = certificate[c]
    BY <2>1, <2>2, IdOrder
  <2>3. ASSUME NEW i \in Id, row[i].status \in Unfinished, row[i].cert = c, row[i].key # NoKey,
               certificate'[c].status = "active", certificate'[c].pem = row[i].key
        PROVE  certificate'[c].status = "active" /\ certificate'[c].pem >= certificate[c].pem
    <3>1. ~Superseded(i) /\ row[i].cert # NoCert
      BY <1>1, <2>3 DEF IInv, RowsInOrder, Unfinished
    <3> QED BY <1>1, <2>3, <3>1 DEF IInv, OrderInv, NewestKnowsOrder
  <2> QED BY <1>1, <2>1, <2>2, <2>3, CertificateStep
<1>2. IInv /\ [Next]_vars
        => [\A c \in Cert : certificate[c].pem # NoKey =>
              certificate'[c].status = "active" /\ certificate'[c].pem >= certificate[c].pem]_vars
  BY <1>1
<1> QED BY <1>2, Invariance, PTL DEF Spec, RenewalKeepsCertificate

-----------------------------------------------------------------------------
(* Issuance implements Renewal. *)

LEMMA RenewalInit ==
  Init => Promise!Init
<1> SUFFICES ASSUME Init  PROVE Promise!Init
  OBVIOUS
<1>1. Busy \in SUBSET Cert
  BY DEF Busy
<1>2. CertifiedKeys = {}
  BY DEF Init, CertifiedKeys, NoSuchOrder
<1>3. InstalledKeys = [c \in Cert |-> 0]
  BY DEF Init, InstalledKeys, NoKey
<1> QED BY <1>1, <1>2, <1>3 DEF Promise!Init

\* The orders that are valid after a step: one more at most.
LEMMA ValidStep ==
  ASSUME IInv, [Next]_vars, NEW o \in Orders,
         order[o].status # "valid", order'[o].status = "valid"
  PROVE  order'[o].csr # NoKey /\ Alone(o)
<1>1. FinalizedOrders'
  BY OrderStep
<1> QED BY <1>1, OrderMoves DEF FinalizedOrders

LEMMA RenewalStep ==
  ASSUME OneCallPerCertificate, IInv, IInv', [Next]_vars
  PROVE  [Promise!Next]_(Promise!vars)
<1>1. /\ RowsInOrder /\ NewestKnowsOrder /\ FinalizedOrders
      /\ \A j \in Id : row[j].key \in Id \cup {NoKey} /\ row[j].cert \in Cert \cup {NoCert}
      /\ \A o \in Orders : order[o].csr \in Id \cup {NoKey}
      /\ \A c \in Cert : certificate[c].pem \in Id \cup {NoKey}
  BY RowFields, OrderUpdates, CertificateFields DEF IInv, OrderInv, TypeOK
<1>2. \A o \in Orders : OrderGrows(o)
  BY OrderStep
<1>3. ASSUME NEW q \in Request, CreateIssuance(q)
      PROVE  Promise!Next
  <2> DEFINE c == Target[q]
  <2> c \in Cert
    BY ConstantsAssumption
  <2>1. PICK i \in Id :
           /\ row[i] = Absent
           /\ \A j \in Id : row[j].cert = c => row[j].status \notin Unfinished
           /\ \A j \in Id \ {i} : row'[j] = row[j]
           /\ row'[i].cert = c /\ row'[i].status = "running"
           /\ UNCHANGED <<certificate, order>>
    BY <1>3, StartRow DEF Inserted
  <2> HIDE DEF c
  <2>2. c \notin Busy
    BY <2>1 DEF Busy, UnfinishedOf
  <2>3. Busy' = Busy \cup {c}
    <3>1. row[i].cert = NoCert /\ NoCert \notin Cert
      BY <2>1, AbsentFields, ConstantsAssumption
    <3> QED BY <2>1, <3>1 DEF Busy, UnfinishedOf, Unfinished
  <2>4. UNCHANGED <<CertifiedKeys, InstalledKeys>>
    BY <2>1 DEF CertifiedKeys, InstalledKeys
  <2> QED BY <2>2, <2>3, <2>4 DEF Promise!Next, Promise!Start
<1>4. CASE ~\E q \in Request : CreateIssuance(q)
  <2>1. \A j \in Id : RowWrite(j)
    BY <1>4, RowStep DEF IInv
  <2>2. CASE \E o \in Orders : order[o].status # "valid" /\ order'[o].status = "valid"
    <3>1. PICK o \in Orders : order[o].status # "valid" /\ order'[o].status = "valid"
      BY <2>2
    <3>2. /\ order'[o].csr # NoKey
          /\ \A p \in Orders \ {o} : order'[p] = order[p]
          /\ UNCHANGED <<row, certificate>>
      BY <3>1, ValidStep DEF Alone
    <3>3. order'[o].csr \in Id /\ order'[o].csr \notin CertifiedKeys
      <4>1. order'[o].csr \in Id
        BY <3>2, OrderUpdates DEF IInv, TypeOK
      <4>2. OneOrderPerKey'
        BY SubmittedOnce, PTL DEF IInv, OrderInv
      <4> QED BY <3>1, <3>2, <4>1, <4>2 DEF CertifiedKeys, OneOrderPerKey
    <3>4. CertifiedKeys' = CertifiedKeys \cup {order'[o].csr}
      BY <3>1, <3>2 DEF CertifiedKeys
    <3>5. UNCHANGED <<Busy, InstalledKeys>>
      BY <3>2 DEF Busy, UnfinishedOf, InstalledKeys
    <3> QED BY <3>3, <3>4, <3>5 DEF Promise!Next, Promise!Certify
  <2>3. CASE ~\E o \in Orders : order[o].status # "valid" /\ order'[o].status = "valid"
    <3>1. CertifiedKeys' = CertifiedKeys
      <4>1. \A o \in Orders : order[o].status = "valid" <=> order'[o].status = "valid"
        BY <1>2, <2>3 DEF OrderGrows
      <4>2. \A o \in Orders : order[o].status = "valid" => order'[o].csr = order[o].csr
        BY <1>1, <1>2 DEF OrderGrows, FinalizedOrders
      <4> QED BY <4>1, <4>2 DEF CertifiedKeys
    <3>2. CASE \E c \in Cert : certificate'[c].pem # certificate[c].pem
      <4>1. PICK c \in Cert, i \in Id :
              /\ certificate'[c].pem # certificate[c].pem
              /\ row[i].status \in Unfinished /\ row[i].cert = c /\ row[i].key # NoKey
              /\ \A d \in Cert \ {c} : certificate'[d] = certificate[d]
              /\ row[i].order \in Orders
              /\ order[row[i].order].status = "valid"
              /\ order[row[i].order].csr = row[i].key
              /\ certificate'[c].pem = row[i].key
              /\ UNCHANGED <<row, order>>
        BY <3>2, CertificateStep
      <4>2. c \in Busy /\ UNCHANGED Busy
        BY <4>1 DEF Busy, UnfinishedOf
      <4>3. row[i].key \in Id /\ row[i].key \in CertifiedKeys
        BY <1>1, <4>1 DEF CertifiedKeys
      <4>4. row[i].key > InstalledKeys[c]
        <5>1. ~Superseded(i) /\ row[i].cert # NoCert
          BY <1>1, <4>1 DEF RowsInOrder, Unfinished
        <5>2. row[i].key >= certificate[c].pem
          BY <1>1, <4>1, <5>1 DEF NewestKnowsOrder
        <5>3. InstalledKeys[c] = certificate[c].pem
          BY DEF InstalledKeys
        <5> QED BY <1>1, <4>1, <5>2, <5>3, ConstantsAssumption DEF Id, NoKey
      <4>5. InstalledKeys' = [InstalledKeys EXCEPT ![c] = row[i].key]
        BY <4>1 DEF InstalledKeys
      <4> QED BY <3>1, <4>2, <4>3, <4>4, <4>5 DEF Promise!Next, Promise!Install
    <3>3. CASE ~\E c \in Cert : certificate'[c].pem # certificate[c].pem
      <4>1. InstalledKeys' = InstalledKeys
        BY <3>3 DEF InstalledKeys
      <4>2. Busy' \subseteq Busy /\ Busy \subseteq Cert
        BY <2>1 DEF Busy, UnfinishedOf, RowWrite
      <4> DEFINE ended == Busy \ Busy'
      <4>3. Busy' = Busy \/ (ended # {} /\ ended \subseteq Busy /\ Busy' = Busy \ ended)
        BY <4>2
      <4>4. ended \in SUBSET Cert
        BY <4>2
      <4> HIDE DEF ended
      <4>5. CASE Busy' = Busy
        BY <3>1, <4>1, <4>5 DEF Promise!Next, Promise!Finish, Promise!vars
      <4>6. CASE ended # {} /\ ended \subseteq Busy /\ Busy' = Busy \ ended
        BY <3>1, <4>1, <4>4, <4>6 DEF Promise!Next, Promise!Finish
      <4> QED BY <4>3, <4>5, <4>6
    <3> QED BY <3>2, <3>3
  <2> QED BY <2>2, <2>3
<1> QED BY <1>3, <1>4

\* The worker, its store and its restarts implement the abstract specification:
\* one issuance at a time, every key certified once, only newer keys installed.
THEOREM ImplementsRenewal ==
  ASSUME OneCallPerCertificate
  PROVE  Spec => KeepsPromise
<1>1. IInv /\ IInv' /\ [Next]_vars => [Promise!Next]_(Promise!vars)
  BY RenewalStep
<1> QED BY <1>1, RenewalInit, Invariance, PTL DEF Spec, KeepsPromise, Promise!Spec
=============================================================================
