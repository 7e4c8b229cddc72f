------------------------------ MODULE Issuance ------------------------------
(***************************************************************************)
(* The issuance worker of api.Service: the goroutine that takes one        *)
(* issuance from "queued" to "succeeded" or "failed" (api/issuance.go), the *)
(* rows it keeps in the store, the ACME orders the certificate authority   *)
(* holds for it, and what cancels, closes, kills and restarts it.          *)
(*                                                                         *)
(* A key pair and the CSR made from it are created, stored and cleared     *)
(* together, so one value stands for both: key k is the pair generated for *)
(* issuance k.  An order has one authorization, standing for all of its    *)
(* authorizations; `step', `error' and the retry time are display data.    *)
(***************************************************************************)
EXTENDS Integers, FiniteSets

CONSTANTS
    Cert,            \* certificates under management
    Names,           \* [Cert -> name sets]: the domains each one covers
    MaxIssuance,     \* bound: issuances ever created
    MaxOrder,        \* bound: orders the CA ever creates
    MaxAttempts,     \* Options.IssuanceRetry.Attempts()
    Solver,          \* how challenges are made answerable, see Solvers
    Request,         \* callers that may ask for issuances at the same time
    Target,          \* [Request -> Cert]: the certificate each caller asks for
    StoreMayFail,    \* whether a store write may fail with its context live
    LateRequests     \* whether a submission may reach the CA after it was given up

Id == 1..MaxIssuance
Orders == 1..MaxOrder
NoKey == 0
NoOrder == 0
NoCert == "no certificate"
Solvers == {"http-01", "provider", "manual"}

ASSUME ConstantsAssumption ==
    /\ NoCert \notin Cert
    /\ Names \in [Cert -> STRING]
    /\ MaxIssuance \in Nat \ {0}
    /\ MaxOrder \in Nat
    /\ MaxAttempts \in Nat \ {0}
    /\ Solver \in Solvers
    /\ Target \in [Request -> Cert]
    /\ StoreMayFail \in BOOLEAN
    /\ LateRequests \in BOOLEAN

VARIABLES
    row,          \* [Id -> issuance rows]         (store)
    certificate,  \* [Cert -> certificate rows]       (store)
    record,       \* [Orders -> order rows]           (store)
    pc,           \* where the worker of an issuance is
    mem,          \* the worker's own copy of the row
    seen,         \* Status of the worker's order record
    err,          \* what issue() returned
    canceled,     \* the job's own context is canceled
    cleanups,     \* job.cleanups is not empty
    served,       \* orders whose challenge answer is published
    order,        \* the CA's orders
    service,      \* the process: "up", "closing" or "down"
    starting      \* [Request -> the row a call of startIssuance is about to insert]

storeVars == <<row, certificate, record>>
jobVars == <<pc, mem, seen, err, canceled, cleanups>>
vars == <<storeVars, jobVars, served, order, service, starting>>

Unfinished == {"running", "waiting", "retrying"}
Finished == {"succeeded", "failed"}
OrderStatus == {"none", "pending", "ready", "processing", "valid", "invalid"}
Label == {"idle", "timer", "begin", "create", "persist", "get", "record",
          "authorize", "present", "ask", "await", "check", "confirm",
          "answer", "validate", "finalize", "download", "install",
          "returned", "publish", "checkpoint", "exit"}

Row == [cert : Cert \cup {NoCert},
        status : Unfinished \cup Finished \cup {"absent"},
        key : Id \cup {NoKey},
        order : Orders \cup {NoOrder},
        attempts : Nat,
        confirmed : BOOLEAN]

Absent == [cert |-> NoCert, status |-> "absent", key |-> NoKey,
           order |-> NoOrder, attempts |-> 0, confirmed |-> FALSE]

CertificateRow == [status : {"pending", "active", "failed"},
                   key : Id \cup {NoKey}, pem : Id \cup {NoKey}]

OrderRow == [issuance : Id \cup {0}, status : OrderStatus]

Error == {"nil", "transient", "permanent"}

\* `csr' is what the CA accepted, `late' a submission still on its way to the CA.
Order == [status : OrderStatus, names : STRING \cup {NoCert},
          authz : {"pending", "valid", "invalid"}, answered : BOOLEAN,
          csr : Id \cup {NoKey}, late : Id \cup {NoKey}]

NoSuchOrder == [status |-> "none", names |-> NoCert, authz |-> "pending",
                answered |-> FALSE, csr |-> NoKey, late |-> NoKey]

TypeOK ==
    /\ row \in [Id -> Row]
    /\ certificate \in [Cert -> CertificateRow]
    /\ record \in [Orders -> OrderRow]
    /\ pc \in [Id -> Label]
    /\ mem \in [Id -> Row]
    /\ seen \in [Id -> OrderStatus]
    /\ err \in [Id -> Error]
    /\ canceled \in [Id -> BOOLEAN]
    /\ cleanups \in [Id -> BOOLEAN]
    /\ served \in SUBSET Orders
    /\ order \in [Orders -> Order]
    /\ service \in {"up", "closing", "down"}
    /\ starting \in [Request -> Row]

-----------------------------------------------------------------------------
(* Helpers. *)

\* The job context is derived from the service's: either cancels it.
CtxDone(i) == canceled[i] \/ service = "closing"

Goto(i, label) == pc' = [pc EXCEPT ![i] = label]

SaveRow(i, r) == row' = [row EXCEPT ![i] = r]

\* A write under its own context (saveProgress, finish): only the store itself
\* can make it fail.
MaySaveRow(i, r) == SaveRow(i, r) \/ (StoreMayFail /\ UNCHANGED row)

\* The labels of issue() after store.CreateOrder, where the deferred
\* UpdateOrderStatus is registered.
Recorded == {"authorize", "present", "ask", "await", "check", "confirm",
             "answer", "validate", "finalize", "download", "install"}

\* Mutant: issue() has no deferred UpdateOrderStatus.
ReturnUnrecorded(i, kind) ==
    Goto(i, "returned") /\ err' = [err EXCEPT ![i] = kind] /\ UNCHANGED record

\* Mutant: a canceled worker leaves without going through run().
ReturnAbandons(i, kind) ==
    /\ Goto(i, IF CtxDone(i) THEN "exit" ELSE "returned")
    /\ err' = [err EXCEPT ![i] = kind]
    /\ UNCHANGED record

\* issue() returns: the deferred UpdateOrderStatus runs, its error ignored.
Return(i, kind) ==
    /\ Goto(i, "returned")
    /\ err' = [err EXCEPT ![i] = kind]
    /\ IF pc[i] \in Recorded
       THEN \/ record' = [record EXCEPT ![mem[i].order].status = seen[i]]
            \/ StoreMayFail /\ UNCHANGED record
       ELSE UNCHANGED record

\* job.cleanup: every registered cleanup withdraws its challenge answers.
Cleanup(i) ==
    /\ served' = IF cleanups[i] THEN served \ {mem[i].order} ELSE served
    /\ cleanups' = [cleanups EXCEPT ![i] = FALSE]

UnfinishedOf(c) == {i \in Id : row[i].cert = c /\ row[i].status \in Unfinished}

-----------------------------------------------------------------------------
(* What the store, the CA and the process start from. *)

\* CreateCertificate has recorded every certificate and no service runs yet.
\* A database written by an old version may hold an unfinished issuance that
\* has no key material.
Init ==
    /\ \/ row = [i \in Id |-> Absent]
       \/ \E c \in Cert :
            row = [[i \in Id |-> Absent] EXCEPT
                     ![1] = [Absent EXCEPT !.cert = c, !.status = "running"]]
    /\ certificate = [c \in Cert |-> [status |-> "pending", key |-> NoKey, pem |-> NoKey]]
    /\ record = [o \in Orders |-> [issuance |-> 0, status |-> "none"]]
    /\ pc = [i \in Id |-> "idle"]
    /\ mem = [i \in Id |-> Absent]
    /\ seen = [i \in Id |-> "none"]
    /\ err = [i \in Id |-> "nil"]
    /\ canceled = [i \in Id |-> FALSE]
    /\ cleanups = [i \in Id |-> FALSE]
    /\ served = {}
    /\ order = [o \in Orders |-> NoSuchOrder]
    /\ service = "down"
    /\ starting = [q \in Request |-> Absent]

-----------------------------------------------------------------------------
(* run: the attempts of one job. *)

\* The retry timer of a retrying issuance fires.
TimerFires(i) ==
    /\ pc[i] = "timer"
    /\ mem' = [mem EXCEPT ![i].attempts = @ + 1]
    /\ Goto(i, "begin")
    /\ UNCHANGED <<storeVars, seen, err, canceled, cleanups, served, order, service, starting>>

\* Mutant: attempts are counted down.
BeginCountsDown(i) ==
    LET r == [mem[i] EXCEPT !.status = "running", !.attempts = @ - 1]
    IN  /\ pc[i] = "begin"
        /\ mem' = [mem EXCEPT ![i] = r]
        /\ SaveRow(i, r)
        /\ Goto(i, IF r.order = NoOrder THEN "create" ELSE "get")
        /\ UNCHANGED <<certificate, record, seen, err, canceled, cleanups, served, order, service,
                       starting>>

\* Mutant: every attempt creates an order.
BeginCreates(i) ==
    LET r == [mem[i] EXCEPT !.status = "running", !.attempts = IF @ = 0 THEN 1 ELSE @]
    IN  /\ pc[i] = "begin"
        /\ mem' = [mem EXCEPT ![i] = r]
        /\ SaveRow(i, r)
        /\ Goto(i, "create")
        /\ UNCHANGED <<certificate, record, seen, err, canceled, cleanups, served, order, service,
                       starting>>

\* An attempt starts: it is counted and saved before anything else happens.
BeginAttempt(i) ==
    LET r == [mem[i] EXCEPT !.status = "running",
                            !.attempts = IF @ = 0 THEN 1 ELSE @]
    IN  /\ pc[i] = "begin"
        /\ mem' = [mem EXCEPT ![i] = r]
        /\ \/ /\ ~CtxDone(i)
              /\ SaveRow(i, r)
              /\ Goto(i, IF r.order = NoOrder THEN "create" ELSE "get")
              /\ UNCHANGED <<record, err>>
           \/ /\ CtxDone(i) \/ StoreMayFail
              /\ Return(i, "permanent")
              /\ UNCHANGED row
        /\ UNCHANGED <<certificate, seen, canceled, cleanups, served, order, service, starting>>

\* Mutant: waiting for the CA's validation has no timeout.
NoValidationTimeout == {"create", "get", "authorize", "present", "answer",
                        "finalize", "download"}

\* The steps of issue() that talk to the CA, and those that only use the store.
NetworkSteps == {"create", "get", "authorize", "present", "answer", "validate",
                 "finalize", "download"}
StoreSteps == {"record", "ask", "check", "confirm"}

\* Mutant: a worker that waits does not listen to its context.
StepFailsDeaf(i) ==
    /\ \/ /\ pc[i] \in NetworkSteps
          /\ \E kind \in {"transient", "permanent"} : Return(i, kind)
       \/ /\ pc[i] \in StoreSteps
          /\ CtxDone(i) \/ StoreMayFail
          /\ Return(i, "permanent")
    /\ UNCHANGED <<row, certificate, mem, seen, canceled, cleanups, served, order, service,
                   starting>>

\* A step fails: the request or its answer is lost, the CA refuses, a stage
\* times out, the context is done or the store refuses the write.
StepFails(i) ==
    /\ \/ /\ pc[i] \in NetworkSteps
          /\ \E kind \in {"transient", "permanent"} : Return(i, kind)
       \/ /\ pc[i] \in StoreSteps
          /\ CtxDone(i) \/ StoreMayFail
          /\ Return(i, "permanent")
       \/ /\ pc[i] \in {"timer", "await"}
          /\ CtxDone(i)
          /\ Return(i, "permanent")
    /\ UNCHANGED <<row, certificate, mem, seen, canceled, cleanups, served, order, service,
                   starting>>

\* Mutant: cleanup is left to the worker's exit.
FinishKeepsChallenge(i, status, kind) ==
    /\ mem' = [mem EXCEPT ![i].status = status,
                          ![i].key = IF kind = "transient" THEN @ ELSE NoKey]
    /\ Goto(i, "publish")
    /\ UNCHANGED <<row, certificate, served, cleanups>>

\* Mutant: a failed issuance leaves its certificate as it is.
FinishForgetsCertificate(i, status, kind) ==
    /\ Cleanup(i)
    /\ mem' = [mem EXCEPT ![i].status = status,
                          ![i].key = IF kind = "transient" THEN @ ELSE NoKey]
    /\ Goto(i, "publish")
    /\ UNCHANGED <<row, certificate>>

\* Mutant: a failed issuance fails its certificate even if that is active.
FinishFailsActive(i, status, kind) ==
    /\ Cleanup(i)
    /\ mem' = [mem EXCEPT ![i].status = status,
                          ![i].key = IF kind = "transient" THEN @ ELSE NoKey]
    /\ certificate' = IF status = "failed"
                      THEN [certificate EXCEPT ![mem[i].cert].status = "failed"]
                      ELSE certificate
    /\ Goto(i, "publish")
    /\ UNCHANGED row

\* finish: clean up, clear the key unless a manual retry may still need it, and
\* fail a certificate that never became active.
Finish(i, status, kind) ==
    LET c == mem[i].cert IN
    /\ Cleanup(i)
    /\ mem' = [mem EXCEPT ![i].status = status,
                          ![i].key = IF kind = "transient" THEN @ ELSE NoKey]
    /\ IF status = "failed" /\ certificate[c].status = "pending"
       THEN \/ certificate' = [certificate EXCEPT ![c].status = "failed"]
            \/ StoreMayFail /\ UNCHANGED certificate
       ELSE UNCHANGED certificate
    /\ Goto(i, "publish")
    /\ UNCHANGED row

\* Mutant: the budget is checked off by one.
AttemptsLeftOffByOne(i) == mem[i].attempts <= MaxAttempts

\* RetryPolicy: another attempt is in the budget.
AttemptsLeft(i) == mem[i].attempts < MaxAttempts

\* Schedule the next attempt of this issuance; without a saved row the job ends.
ScheduleRetry(i) ==
    LET r == [mem[i] EXCEPT !.status = "retrying"] IN
    /\ mem' = [mem EXCEPT ![i] = r]
    /\ \/ SaveRow(i, r) /\ Goto(i, "timer")
       \/ StoreMayFail /\ UNCHANGED row /\ Goto(i, "exit")
    /\ UNCHANGED <<certificate, cleanups, served>>

\* What run() makes of the value issue() returned.
Returned(i) ==
    /\ pc[i] = "returned"
    /\ \/ /\ err[i] = "nil"
          /\ Finish(i, "succeeded", "nil")
       \/ /\ err[i] # "nil"
          /\ service = "closing"
          /\ Goto(i, "checkpoint")
          /\ UNCHANGED <<row, certificate, mem, cleanups, served>>
       \/ /\ err[i] # "nil"
          /\ service # "closing"
          /\ canceled[i]
          /\ Finish(i, "failed", "permanent")
       \/ /\ err[i] # "nil"
          /\ service # "closing"
          /\ ~canceled[i]
          /\ err[i] = "permanent" \/ ~AttemptsLeft(i)
          /\ Finish(i, "failed", err[i])
       \/ /\ err[i] = "transient"
          /\ service # "closing"
          /\ ~canceled[i]
          /\ AttemptsLeft(i)
          /\ ScheduleRetry(i)
    /\ UNCHANGED <<record, seen, err, canceled, order, service, starting>>

\* The terminal status, or the state a shutdown interrupted, is saved last.
SaveAndStop(i) ==
    /\ pc[i] \in {"publish", "checkpoint"}
    /\ MaySaveRow(i, mem[i])
    /\ Goto(i, "exit")
    /\ UNCHANGED <<certificate, record, mem, seen, err, canceled, cleanups, served,
                   order, service, starting>>

\* The worker's deferred function: clean up and leave the job table.
Exit(i) ==
    /\ pc[i] = "exit"
    /\ Cleanup(i)
    /\ Goto(i, "idle")
    /\ mem' = [mem EXCEPT ![i] = Absent]
    /\ seen' = [seen EXCEPT ![i] = "none"]
    /\ err' = [err EXCEPT ![i] = "nil"]
    /\ canceled' = [canceled EXCEPT ![i] = FALSE]
    /\ UNCHANGED <<storeVars, order, service, starting>>

-----------------------------------------------------------------------------
(* issue: one attempt, step by step. *)

\* The orders newOrder may answer with for issuance i: the next new one, or one
\* the CA already holds for the same names and has not finalized.
Offered(i) ==
    LET unused == {o \in Orders : order[o].status = "none"} IN
    {o \in unused : \A p \in unused : o <= p}
        \cup {o \in Orders : /\ order[o].status \in {"pending", "ready"}
                             /\ order[o].names = Names[mem[i].cert]}

\* newOrder: the order exists at the CA; its answer arrives or is lost.
CreateOrder(i) ==
    /\ pc[i] = "create"
    /\ ~CtxDone(i)
    /\ \E o \in Offered(i) :
         /\ order' = IF order[o].status = "none"
                     THEN [order EXCEPT ![o].status = "pending",
                                        ![o].names = Names[mem[i].cert]]
                     ELSE order
         /\ \/ /\ mem' = [mem EXCEPT ![i].order = o]
               /\ seen' = [seen EXCEPT ![i] = order'[o].status]
               /\ Goto(i, "persist")
               /\ UNCHANGED <<err, record>>
            \/ Return(i, "transient") /\ UNCHANGED <<mem, seen>>
    /\ UNCHANGED <<row, certificate, canceled, cleanups, served, service, starting>>

\* Mutant: the order URL is saved with the next write only.
PersistNothing(i) ==
    /\ pc[i] = "persist"
    /\ Goto(i, "record")
    /\ UNCHANGED <<storeVars, mem, seen, err, canceled, cleanups, served, order, service, starting>>

\* The order URL is saved before any further network operation, or the
\* issuance gives up.
PersistOrder(i) ==
    /\ pc[i] = "persist"
    /\ \/ SaveRow(i, mem[i]) /\ Goto(i, "record") /\ UNCHANGED <<err, record>>
       \/ StoreMayFail /\ Return(i, "permanent") /\ UNCHANGED row
    /\ UNCHANGED <<certificate, mem, seen, canceled, cleanups, served, order, service, starting>>

\* A later attempt, or a resumed job, reads the order it already has.
GetOrder(i) ==
    /\ pc[i] = "get"
    /\ ~CtxDone(i)
    /\ seen' = [seen EXCEPT ![i] = order[mem[i].order].status]
    /\ Goto(i, "record")
    /\ UNCHANGED <<storeVars, mem, err, canceled, cleanups, served, order, service, starting>>

\* store.CreateOrder inserts the order's row or takes it over.  Only a pending
\* order still has authorizations to fulfil.
RecordOrder(i) ==
    /\ pc[i] = "record"
    /\ ~CtxDone(i)
    /\ record' = [record EXCEPT ![mem[i].order] = [issuance |-> i, status |-> seen[i]]]
    /\ Goto(i, IF seen[i] = "pending" THEN "authorize" ELSE "finalize")
    /\ UNCHANGED <<row, certificate, mem, seen, err, canceled, cleanups, served, order, service,
                   starting>>

\* A valid authorization needs no challenge.
GetAuthorization(i) ==
    /\ pc[i] = "authorize"
    /\ ~CtxDone(i)
    /\ Goto(i, IF order[mem[i].order].authz = "valid" THEN "finalize" ELSE "present")
    /\ UNCHANGED <<storeVars, mem, seen, err, canceled, cleanups, served, order, service, starting>>

\* Mutant: the challenge is answered before the operator has confirmed.
PresentUnconfirmed(i) ==
    /\ pc[i] = "present"
    /\ Goto(i, "answer")
    /\ UNCHANGED <<storeVars, mem, seen, err, canceled, cleanups, served, order, service, starting>>

\* present: serve the HTTP-01 token, publish through the DNS provider, or rely
\* on the operator, who is asked unless the records were confirmed before.
Present(i) ==
    /\ pc[i] = "present"
    /\ Solver = "provider" => ~CtxDone(i)
    /\ IF Solver = "manual"
       THEN /\ Goto(i, IF mem[i].confirmed THEN "answer" ELSE "ask")
            /\ UNCHANGED <<served, cleanups>>
       ELSE /\ served' = served \cup {mem[i].order}
            /\ cleanups' = [cleanups EXCEPT ![i] = TRUE]
            /\ Goto(i, "answer")
    /\ UNCHANGED <<storeVars, mem, seen, err, canceled, order, service, starting>>

\* The issuance is marked waiting and the worker listens for ContinueIssuance.
AskOperator(i) ==
    LET r == [mem[i] EXCEPT !.status = "waiting"] IN
    /\ pc[i] = "ask"
    /\ ~CtxDone(i)
    /\ mem' = [mem EXCEPT ![i] = r]
    /\ SaveRow(i, r)
    /\ Goto(i, "await")
    /\ UNCHANGED <<certificate, record, seen, err, canceled, cleanups, served, order, service,
                   starting>>

\* ContinueIssuance hands its force flag to a worker that is listening.
ContinueIssuance(i, force) ==
    /\ row[i].status = "waiting"
    /\ pc[i] = "await"
    /\ Goto(i, IF force THEN "confirm" ELSE "check")
    /\ UNCHANGED <<storeVars, mem, seen, err, canceled, cleanups, served, order, service, starting>>

\* checkDNS: the records are visible, or the operator is asked again.
CheckDNS(i) ==
    LET r == [mem[i] EXCEPT !.status = "running"] IN
    /\ pc[i] = "check"
    /\ ~CtxDone(i)
    /\ mem' = [mem EXCEPT ![i] = r]
    /\ SaveRow(i, r)
    /\ Goto(i, "confirm") \/ Goto(i, "ask")
    /\ UNCHANGED <<certificate, record, seen, err, canceled, cleanups, served, order, service,
                   starting>>

\* The confirmation is saved, so that a later attempt does not ask again.
ConfirmDNS(i) ==
    LET r == [mem[i] EXCEPT !.status = "running", !.confirmed = TRUE] IN
    /\ pc[i] = "confirm"
    /\ ~CtxDone(i)
    /\ mem' = [mem EXCEPT ![i] = r]
    /\ SaveRow(i, r)
    /\ Goto(i, "answer")
    /\ UNCHANGED <<certificate, record, seen, err, canceled, cleanups, served, order, service,
                   starting>>

\* CompleteChallenge: the CA is asked to validate; its reply may be lost.
CompleteChallenge(i) ==
    /\ pc[i] = "answer"
    /\ ~CtxDone(i)
    /\ order[mem[i].order].status = "pending"
    /\ order' = [order EXCEPT ![mem[i].order].answered = TRUE]
    /\ \/ Goto(i, "validate") /\ UNCHANGED <<err, record>>
       \/ Return(i, "transient")
    /\ UNCHANGED <<row, certificate, mem, seen, canceled, cleanups, served, service, starting>>

\* Mutant: the token is withdrawn as soon as the authorization is valid.
WaitAuthorizationWithdraws(i) ==
    /\ pc[i] = "validate"
    /\ order[mem[i].order].authz = "valid"
    /\ served' = served \ {mem[i].order}
    /\ Goto(i, "finalize")
    /\ UNCHANGED <<storeVars, mem, seen, err, canceled, cleanups, order, service, starting>>

\* WaitAuthorization: polls until the authorization is no longer pending.
WaitAuthorization(i) ==
    /\ pc[i] = "validate"
    /\ \/ /\ ~CtxDone(i)
          /\ order[mem[i].order].authz = "valid"
          /\ Goto(i, "finalize")
          /\ UNCHANGED <<err, record>>
       \/ /\ order[mem[i].order].authz = "invalid"
          /\ Return(i, "permanent")
    /\ UNCHANGED <<row, certificate, mem, seen, canceled, cleanups, served, order, service,
                   starting>>

\* The CA accepts a CSR while the order is ready, and may issue at once.
Accept(o, key) ==
    /\ order[o].status = "ready"
    /\ \E status \in {"processing", "valid"} :
         order' = [order EXCEPT ![o] = [@ EXCEPT !.status = status, !.csr = key]]

\* FinalizeAndWait submits the CSR to an order it has seen ready: the CA accepts it
\* now, or later than the client waits for it.  The answer may say that the order is
\* valid; without one the call goes on, or gives up ...
SubmitCSR(i) ==
    LET o == mem[i].order IN
    /\ pc[i] = "finalize"
    /\ ~CtxDone(i)
    /\ \/ Accept(o, mem[i].key)
       \/ /\ LateRequests
          /\ order[o].status = "ready" /\ order[o].late = NoKey
          /\ order' = [order EXCEPT ![o].late = mem[i].key]
    /\ \/ UNCHANGED <<pc, seen, err, record>>
       \/ /\ order'[o].status = "valid"
          /\ seen' = [seen EXCEPT ![i] = "valid"]
          /\ Goto(i, "download")
          /\ UNCHANGED <<err, record>>
       \/ Return(i, "transient") /\ UNCHANGED seen
    /\ UNCHANGED <<row, certificate, mem, canceled, cleanups, served, service, starting>>

\* Mutant: the certificate is taken from an order that is still processing.
WaitOrderEarly(i) ==
    /\ pc[i] = "finalize"
    /\ order[mem[i].order].status \in {"processing", "valid"}
    /\ Goto(i, "download")
    /\ UNCHANGED <<storeVars, mem, seen, err, canceled, cleanups, served, order, service, starting>>

\* ... and polls until the order is valid or invalid.
WaitOrder(i) ==
    LET status == order[mem[i].order].status IN
    /\ pc[i] = "finalize"
    /\ \/ /\ ~CtxDone(i)
          /\ status = "valid"
          /\ seen' = [seen EXCEPT ![i] = status]
          /\ Goto(i, "download")
          /\ UNCHANGED <<err, record>>
       \/ /\ status = "invalid"
          /\ Return(i, "permanent")
          /\ UNCHANGED seen
    /\ UNCHANGED <<row, certificate, mem, canceled, cleanups, served, order, service, starting>>

\* Mutant: the certificate is not verified against the key.
DownloadUnverified(i) ==
    /\ pc[i] = "download"
    /\ ~CtxDone(i)
    /\ Goto(i, "install")
    /\ UNCHANGED <<storeVars, mem, seen, err, canceled, cleanups, served, order, service, starting>>

\* GetCertificatePEM, then VerifyIssuedCertificate: the certificate must be for
\* the key of this issuance.
Download(i) ==
    /\ pc[i] = "download"
    /\ ~CtxDone(i)
    /\ IF order[mem[i].order].csr = mem[i].key
       THEN Goto(i, "install") /\ UNCHANGED <<err, record>>
       ELSE Return(i, "permanent")
    /\ UNCHANGED <<row, certificate, mem, seen, canceled, cleanups, served, order, service,
                   starting>>

\* The certificate is saved even if the job was canceled in the meantime.
Install(i) ==
    /\ pc[i] = "install"
    /\ \/ /\ certificate' = [certificate EXCEPT ![mem[i].cert] =
                [status |-> "active", key |-> mem[i].key, pem |-> order[mem[i].order].csr]]
          /\ Return(i, "nil")
       \/ /\ StoreMayFail
          /\ Return(i, "permanent")
          /\ UNCHANGED certificate
    /\ UNCHANGED <<row, mem, seen, canceled, cleanups, served, order, service, starting>>

-----------------------------------------------------------------------------
(* The service's operations, the process and the CA. *)

\* The newest issuance of certificate c, 0 if there is none.
Newest(c) ==
    LET of == {i \in Id : row[i].cert = c} IN
    IF of = {} THEN 0 ELSE CHOOSE i \in of : \A j \in of : j <= i

\* Mutant: the inherited key comes without its order.
ListPreviousForgetsOrder(q, sameSettings) ==
    LET last == Newest(Target[q])
        fresh == [Absent EXCEPT !.cert = Target[q], !.status = "running"]
    IN  /\ service = "up"
        /\ starting[q] = Absent
        /\ \E i \in Id : row[i] = Absent
        /\ starting' = [starting EXCEPT ![q] =
                IF last # 0 /\ row[last].status = "failed" /\ sameSettings
                THEN [fresh EXCEPT !.key = row[last].key] ELSE fresh]
        /\ UNCHANGED <<storeVars, jobVars, served, order, service>>

\* startIssuance, called to issue, renew or retry a certificate, reserves a place
\* among the workers Close waits for and reads the earlier issuances.  A failed
\* predecessor with the same settings passes on its key, order and confirmation.
ListPrevious(q, sameSettings) ==
    LET c == Target[q]
        last == Newest(c)
        inherits == /\ last # 0
                    /\ row[last].status = "failed"
                    /\ row[last].key # NoKey
                    /\ sameSettings
        fresh == [Absent EXCEPT !.cert = c, !.status = "running"]
    IN  /\ service = "up"
        /\ starting[q] = Absent
        /\ \E i \in Id : row[i] = Absent   \* bound: MaxIssuance
        /\ starting' = [starting EXCEPT ![q] =
                IF inherits THEN [fresh EXCEPT !.key = row[last].key,
                                               !.order = row[last].order,
                                               !.confirmed = row[last].confirmed]
                            ELSE fresh]
        /\ UNCHANGED <<storeVars, jobVars, served, order, service>>

\* ... and inserts its row, unless the store holds an unfinished issuance of the
\* certificate, and launches the worker.
CreateIssuance(q) ==
    /\ starting[q] # Absent
    /\ UnfinishedOf(starting[q].cert) = {}
    /\ \E i \in Id :
         /\ row[i] = Absent
         /\ \A j \in Id : j < i => row[j] # Absent
         /\ LET r == [starting[q] EXCEPT !.key = IF @ = NoKey THEN i ELSE @]
            IN  /\ SaveRow(i, r)
                /\ mem' = [mem EXCEPT ![i] = r]
                /\ Goto(i, "begin")
    /\ starting' = [starting EXCEPT ![q] = Absent]
    /\ UNCHANGED <<certificate, record, seen, err, canceled, cleanups, served, order, service>>

\* The insert is refused, fails, or its caller gives up.
StartFails(q) ==
    /\ starting[q] # Absent
    /\ starting' = [starting EXCEPT ![q] = Absent]
    /\ UNCHANGED <<storeVars, jobVars, served, order, service>>

\* Mutant: CancelIssuance writes the terminal status while the worker still runs.
CancelWritesRow(i) ==
    /\ service # "down"
    /\ pc[i] # "idle"
    /\ canceled' = [canceled EXCEPT ![i] = TRUE]
    /\ SaveRow(i, [row[i] EXCEPT !.status = "failed"])
    /\ UNCHANGED <<certificate, record, pc, mem, seen, err, cleanups, served, order, service,
                   starting>>

\* CancelIssuance cancels the job found in the job table.
CancelIssuance(i) ==
    /\ service # "down"
    /\ pc[i] # "idle"
    /\ canceled' = [canceled EXCEPT ![i] = TRUE]
    /\ UNCHANGED <<storeVars, pc, mem, seen, err, cleanups, served, order, service, starting>>

\* Close cancels the context every job derives from, and waits for the workers.
Close ==
    /\ service = "up"
    /\ service' = "closing"
    /\ UNCHANGED <<storeVars, jobVars, served, order, starting>>

Closed ==
    /\ service = "closing"
    /\ \A i \in Id : pc[i] = "idle"
    /\ \A q \in Request : starting[q] = Absent
    /\ service' = "down"
    /\ UNCHANGED <<storeVars, jobVars, served, order, starting>>

\* The process dies: memory is lost, and with it the tokens it served.  What a
\* DNS provider published stays published.
Crash ==
    /\ service # "down"
    /\ service' = "down"
    /\ pc' = [i \in Id |-> "idle"]
    /\ mem' = [i \in Id |-> Absent]
    /\ seen' = [i \in Id |-> "none"]
    /\ err' = [i \in Id |-> "nil"]
    /\ canceled' = [i \in Id |-> FALSE]
    /\ cleanups' = [i \in Id |-> FALSE]
    /\ served' = IF Solver = "provider" THEN served ELSE {}
    /\ starting' = [q \in Request |-> Absent]
    /\ UNCHANGED <<storeVars, order>>

\* NewService resumes every unfinished issuance that still has its key and
\* finishes the others as failed.
NewService ==
    LET unfinished == {i \in Id : row[i].status \in Unfinished}
        resumed == {i \in unfinished : row[i].key # NoKey}
        hopeless == unfinished \ resumed
    IN  /\ service = "down"
        /\ service' = "up"
        /\ pc' = [i \in Id |-> IF i \notin resumed THEN "idle"
                               ELSE IF row[i].status = "retrying" THEN "timer" ELSE "begin"]
        /\ mem' = [i \in Id |-> IF i \in resumed THEN row[i] ELSE Absent]
        /\ \/ row' = [i \in Id |-> IF i \in hopeless
                                   THEN [row[i] EXCEPT !.status = "failed"] ELSE row[i]]
           \/ StoreMayFail /\ UNCHANGED row
        /\ \/ certificate' = [c \in Cert |->
                 IF certificate[c].status = "pending" /\ \E i \in hopeless : row[i].cert = c
                 THEN [certificate[c] EXCEPT !.status = "failed"] ELSE certificate[c]]
           \/ StoreMayFail /\ UNCHANGED certificate
        /\ UNCHANGED <<record, seen, err, canceled, cleanups, served, order, starting>>

\* The CA validates an answered challenge, makes an authorized order ready,
\* issues or refuses what was finalized, and lets unfinished orders expire.
CAValidates(o) ==
    /\ order[o].status = "pending" /\ order[o].authz = "pending" /\ order[o].answered
    /\ \/ order' = [order EXCEPT ![o].authz = "valid"]
       \/ order' = [order EXCEPT ![o].authz = "invalid", ![o].status = "invalid"]
    /\ UNCHANGED <<storeVars, jobVars, served, service, starting>>

CAAdvances(o) ==
    /\ \/ /\ order[o].status = "pending" /\ order[o].authz = "valid"
          /\ order' = [order EXCEPT ![o].status = "ready"]
       \/ /\ order[o].status = "processing"
          /\ order' = [order EXCEPT ![o].status = "valid"]
       \/ /\ order[o].status \in {"pending", "ready", "processing"}
          /\ order' = [order EXCEPT ![o].status = "invalid"]
    /\ UNCHANGED <<storeVars, jobVars, served, service, starting>>

\* A submission reaches the CA after the client gave up on it.
DeliverLate(o) ==
    /\ order[o].late # NoKey
    /\ IF order[o].status = "ready"
       THEN \E status \in {"processing", "valid"} :
              order' = [order EXCEPT ![o] = [@ EXCEPT !.status = status, !.csr = order[o].late,
                                                     !.late = NoKey]]
       ELSE order' = [order EXCEPT ![o].late = NoKey]
    /\ UNCHANGED <<storeVars, jobVars, served, service, starting>>

-----------------------------------------------------------------------------
(* The specification. *)

Step(i) ==
    \/ TimerFires(i) \/ BeginAttempt(i) \/ StepFails(i) \/ Returned(i)
    \/ SaveAndStop(i) \/ Exit(i) \/ CreateOrder(i) \/ PersistOrder(i)
    \/ GetOrder(i) \/ RecordOrder(i) \/ GetAuthorization(i) \/ Present(i)
    \/ AskOperator(i) \/ CheckDNS(i) \/ ConfirmDNS(i) \/ CompleteChallenge(i)
    \/ WaitAuthorization(i) \/ SubmitCSR(i) \/ WaitOrder(i) \/ Download(i)
    \/ Install(i)

Next ==
    \/ \E i \in Id : Step(i) \/ CancelIssuance(i)
    \/ \E i \in Id, force \in BOOLEAN : ContinueIssuance(i, force)
    \/ \E q \in Request, same \in BOOLEAN : ListPrevious(q, same)
    \/ \E q \in Request : CreateIssuance(q) \/ StartFails(q)
    \/ Close \/ Closed \/ Crash \/ NewService
    \/ \E o \in Orders : CAValidates(o) \/ CAAdvances(o) \/ DeliverLate(o)

Spec == Init /\ [][Next]_vars

\* Goroutines are scheduled and every network stage has a timeout, so a worker
\* with a step to take takes one, and so does a call that is about to insert a
\* row; Close's wait ends once they are gone.
Fairness ==
    /\ WF_vars(Closed)
    /\ \A i \in Id : WF_vars(Step(i))
    /\ \A q \in Request : WF_vars(CreateIssuance(q) \/ StartFails(q))

FairSpec == Spec /\ Fairness

-----------------------------------------------------------------------------
(* Safety. *)

\* The automatic budget is kept across retries, shutdowns and crashes: no
\* issuance starts more than MaxAttempts attempts.
AttemptsWithinBudget ==
    \A i \in Id : row[i].attempts <= MaxAttempts /\ mem[i].attempts <= MaxAttempts

\* A certificate row never pairs a key with a certificate issued for another
\* key, even when two certificates were given the same order; it is active
\* exactly when it holds a certificate the CA issued for its names.
InstalledKeyMatches ==
    \A c \in Cert :
        /\ certificate[c].key = certificate[c].pem
        /\ (certificate[c].status = "active") <=> (certificate[c].pem # NoKey)
        /\ certificate[c].pem # NoKey =>
             \E o \in Orders : /\ order[o].csr = certificate[c].pem
                               /\ order[o].status = "valid"
                               /\ order[o].names = Names[c]

Exclusive(c) == \A d \in Cert \ {c} : Names[d] # Names[c]

\* Whatever happens next, an unfinished issuance can still collect what the CA
\* issues: an order finalized with its key is the order its row names, and an
\* order its row names was finalized, if at all, with the key its row holds.
\* (The second half is for a certificate whose names no other certificate has; a
\* submission that an earlier issuance of it gave up on may still overtake it.)
Recoverable ==
    \A i \in Id, o \in Orders :
        row[i].status \in Unfinished /\ order[o].csr # NoKey =>
            /\ order[o].csr = row[i].key => row[i].order = o
            /\ row[i].order = o /\ Exclusive(row[i].cert) =>
                 order[o].csr = row[i].key \/ (LateRequests /\ order[o].csr < row[i].key)

\* Every key is certified by at most one order: retries, restarts and manual
\* retries never have the CA issue twice for one key.
OneOrderPerKey ==
    \A o, p \in Orders : o # p /\ order[o].csr # NoKey => order[o].csr # order[p].csr

\* While the service is up an unfinished issuance has a worker that can be
\* canceled or continued: Service.jobs holds the unfinished issuances.
UnfinishedHasWorker ==
    service = "up" =>
        \A i \in Id : row[i].status \in Unfinished /\ row[i].key # NoKey
            => pc[i] \notin {"idle", "exit"}

\* From the moment the CA is asked to validate a challenge until it has, the
\* answer is published, or the operator's confirmation is on record.
AnswerAvailable ==
    \A i \in Id : pc[i] \in {"answer", "validate"} =>
        \/ mem[i].order \in served
        \/ Solver = "manual" /\ row[i].confirmed

\* job.cleanups keep a job's challenges available until the job stops.
ServedUntilStop ==
    \A i \in Id : cleanups[i] => mem[i].order \in served

\* No challenge answer outlives its job, and a terminal status is published
\* only after the cleanup.
NoStaleChallenge ==
    \A o \in served :
        \E i \in Id : cleanups[i] /\ mem[i].order = o /\ row[i].status \in Unfinished

\* The terminal status and the certificate agree: a succeeded issuance left the
\* certificate active, and a failed one did not leave it pending.
TerminalTellsTruth ==
    \A i \in Id :
        /\ row[i].status = "succeeded" => certificate[row[i].cert].status = "active"
        /\ row[i].status = "failed" => certificate[row[i].cert].status # "pending"

\* The order row of a succeeded issuance is its own and says valid.
SucceededOrderRecorded ==
    \A i \in Id : row[i].status = "succeeded" =>
        record[row[i].order] = [issuance |-> i, status |-> "valid"]

\* A manual retry that goes on with the key of an earlier issuance also goes on
\* with its order, so that it can recover what was issued.
RetryRecoversOrder ==
    \A i, j \in Id :
        i < j /\ row[i].key # NoKey /\ row[j].key = row[i].key /\ row[i].order # NoOrder
            => row[j].order # NoOrder

\* A finished issuance never changes again.
TerminalIsFinal ==
    [][\A i \in Id : row[i].status \in Finished => row'[i] = row[i]]_vars

\* A failed renewal leaves the current certificate in place: what is active
\* stays active and is only ever replaced by a certificate for a newer key.
RenewalKeepsCertificate ==
    [][\A c \in Cert : certificate[c].pem # NoKey =>
          certificate'[c].status = "active" /\ certificate'[c].pem >= certificate[c].pem]_vars

\* An explicit cancellation is terminal: the job of a canceled issuance stops
\* only with the issuance finished.
CancelIsTerminal ==
    [][\A i \in Id : canceled[i] /\ pc[i] = "exit" /\ pc'[i] = "idle" /\ service' # "down"
          => row[i].status \in Finished]_vars

\* How far a worker at a label is from leaving: what it still may go through.
Remaining(l) ==
    CASE l = "idle" -> 0      [] l = "exit" -> 1       [] l = "publish" -> 2
      [] l = "checkpoint" -> 2 [] l = "returned" -> 3  [] l = "install" -> 4
      [] l = "download" -> 5  [] l = "finalize" -> 6   [] l = "validate" -> 7
      [] l = "answer" -> 8    [] l = "confirm" -> 9    [] l = "check" -> 10
      [] l = "await" -> 11    [] l = "ask" -> 12       [] l = "present" -> 13
      [] l = "authorize" -> 14 [] l = "record" -> 15   [] l = "persist" -> 16
      [] l = "get" -> 16      [] l = "create" -> 17    [] l = "begin" -> 18
      [] l = "timer" -> 19

\* A worker goes back to retry while the budget lasts, to ask the operator again, or
\* to look again at an order it has just submitted its CSR to; once it is canceled or
\* the service closes, to nothing at all.
GoesBack(i) ==
    /\ ~CtxDone(i)
    /\ \/ pc[i] = "returned" /\ pc'[i] = "timer" /\ mem'[i].attempts < MaxAttempts
       \/ pc[i] = "check" /\ pc'[i] = "ask"
       \/ /\ pc[i] = "finalize" /\ pc'[i] = "finalize"
          /\ order[mem[i].order].status = "ready" /\ order' # order

\* A worker repeats nothing without end.
GoesForward ==
    [][\A i \in Id : Step(i) => Remaining(pc'[i]) < Remaining(pc[i]) \/ GoesBack(i)]_vars

-----------------------------------------------------------------------------
(* Liveness. *)

\* Every unfinished issuance of a running service finishes or waits for the
\* operator, unless the service stops first.
Finishes ==
    \A i \in Id : service = "up" /\ row[i].status \in Unfinished
        ~> service # "up" \/ row[i].status \in Finished \cup {"waiting"}

\* A canceled issuance finishes even while it waits for the operator, unless
\* the service stops first.
CancelFinishes ==
    \A i \in Id : canceled[i] /\ row[i].status \in Unfinished
        ~> service # "up" \/ row[i].status \in Finished

\* Close returns: every worker checkpoints or finishes and leaves.
CloseReturns == service = "closing" ~> service = "down"

-----------------------------------------------------------------------------
(* The abstract specification this one implements. *)

Busy == {c \in Cert : UnfinishedOf(c) # {}}
CertifiedKeys == {order[o].csr : o \in {p \in Orders : order[p].status = "valid"}}
InstalledKeys == [c \in Cert |-> certificate[c].pem]

Promise == INSTANCE Renewal WITH Key <- Id, busy <- Busy,
                                 certified <- CertifiedKeys, installed <- InstalledKeys

\* The worker, its store and its restarts implement the promise of Renewal.
KeepsPromise == Promise!Spec
=============================================================================
