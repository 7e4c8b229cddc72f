---------------------------- MODULE IssuanceInv ----------------------------
(***************************************************************************)
(* The inductive invariants of Issuance, from which Issuance_proofs and    *)
(* IssuanceJobs_proofs derive their theorems.  IInv says how the worker's  *)
(* memory, its row, the rows before it and the CA's orders hang together   *)
(* at every step; the others rest on it.                                   *)
(***************************************************************************)
EXTENDS Issuance

\* An issuance is superseded once its certificate has a newer one.
Superseded(i) == \E j \in Id : j > i /\ row[j].cert = row[i].cert

\* Rows are created in order; only an absent row names no certificate; only the
\* newest issuance of a certificate can be unfinished; an unfinished issuance
\* without key material never had a worker and has no order.
RowsInOrder ==
    \A i \in Id :
        /\ (row[i].cert = NoCert) <=> (row[i].status = "absent")
        /\ row[i].status = "absent" => row[i] = Absent
        /\ row[i].status # "absent" => \A j \in Id : j < i => row[j].status # "absent"
        /\ row[i].status \in Unfinished => ~Superseded(i)
        /\ row[i].status \in Unfinished /\ row[i].key = NoKey => row[i].order = NoOrder

\* A worker's issuance is unfinished in the store until its terminal status is
\* published, and until then row and worker agree on certificate and key.
OwnsRow(i) ==
    /\ pc[i] = "idle" => mem[i] = Absent
    /\ pc[i] # "idle" =>
        /\ mem[i].cert = row[i].cert
        /\ row[i].status # "absent"
        /\ pc[i] # "exit" => row[i].status \in Unfinished
        /\ pc[i] \notin {"publish", "exit"} =>
             mem[i].status \in Unfinished /\ mem[i].key = row[i].key /\ row[i].key # NoKey
        /\ pc[i] = "publish" =>
             mem[i].status \in Finished /\ mem[i].key \in {NoKey, row[i].key}

\* Before any step that depends on the order, its URL is in the store.
Unsaved == {"persist", "returned", "publish", "checkpoint"}
OrderSaved(i) ==
    pc[i] \notin {"idle", "exit"} =>
        /\ row[i].order = mem[i].order \/ (pc[i] \in Unsaved /\ row[i].order = NoOrder)
        /\ pc[i] \in Recorded \cup {"record", "persist", "get"} => mem[i].order # NoOrder
        /\ pc[i] = "create" => mem[i].order = NoOrder

\* An order a row or a worker names covers the certificate's domains; what is
\* downloaded comes from a valid order, what is installed was issued for its key.
NamesOrder(i) ==
    /\ row[i].order # NoOrder =>
         /\ order[row[i].order].names = Names[row[i].cert]
         /\ order[row[i].order].status # "none"
    /\ mem[i].order # NoOrder =>
         /\ order[mem[i].order].names = Names[mem[i].cert]
         /\ order[mem[i].order].status # "none"
    /\ pc[i] \in {"download", "install"} => order[mem[i].order].status = "valid"
    /\ pc[i] = "install" => order[mem[i].order].csr = mem[i].key

\* What is waiting for another attempt has one left.
RetryLeft(i) ==
    /\ row[i].attempts <= MaxAttempts /\ mem[i].attempts <= MaxAttempts
    /\ row[i].status = "retrying" => row[i].attempts < MaxAttempts
    /\ mem[i].status = "retrying" /\ pc[i] # "begin" => mem[i].attempts < MaxAttempts
    /\ pc[i] = "timer" => mem[i].status = "retrying"

WorkerInv(i) == OwnsRow(i) /\ OrderSaved(i) /\ NamesOrder(i) /\ RetryLeft(i)

\* The keys submitted to an order, the one still on its way to the CA included.
Submitted(o) == {order[o].csr, order[o].late} \ {NoKey}

\* An order has a CSR once it was finalized, and not before.
FinalizedOrders ==
    \A o \in Orders :
        /\ order[o].status \in {"none", "pending", "ready"} => order[o].csr = NoKey
        /\ order[o].status \in {"processing", "valid"} => order[o].csr # NoKey
        /\ order[o].late # NoKey => LateRequests /\ order[o].status # "none"

\* A key is created with the issuance of its number and is only ever passed on to
\* an issuance of the same certificate; no other key is installed, or submitted to
\* an order for the certificate's domains.
KeysInOrder ==
    /\ \A i \in Id : row[i].key # NoKey =>
          /\ row[i].key <= i
          /\ row[row[i].key].status # "absent" /\ row[row[i].key].cert = row[i].cert
    /\ \A i, j \in Id : row[i].key # NoKey /\ row[j].key = row[i].key =>
          row[j].cert = row[i].cert
    /\ \A o \in Orders : \A k \in Submitted(o) :
          row[k].status # "absent" /\ order[o].names = Names[row[k].cert]
    /\ \A c \in Cert : certificate[c].pem # NoKey => row[certificate[c].pem].status # "absent"

\* The newest issuance of a certificate still names the order its key was
\* submitted to, and no key submitted for the certificate or installed is newer.
NewestKnowsOrder ==
    \A i \in Id : row[i].key # NoKey /\ row[i].cert # NoCert /\ ~Superseded(i) =>
        /\ \A o \in Orders : row[i].key \in Submitted(o) => row[i].order = o
        /\ \A o \in Orders : \A k \in Submitted(o) :
             row[k].cert = row[i].cert => k <= row[i].key
        /\ row[i].key >= certificate[row[i].cert].pem

\* If no other certificate covers the same names, an order the newest issuance
\* names is finalized, if at all, with its own key: submissions that were given up
\* aside.
OwnOrder ==
    ~LateRequests =>
      \A i \in Id :
        row[i].key # NoKey /\ row[i].cert # NoCert /\ ~Superseded(i) /\ Exclusive(row[i].cert)
          => \A o \in {row[i].order, mem[i].order} \ {NoOrder} :
                 order[o].csr \in {NoKey, row[i].key}

\* No key is ever submitted to two orders.
OneOrderPerSubmission ==
    \A o, p \in Orders : o # p => Submitted(o) \cap Submitted(p) = {}

\* No two callers ask for the same certificate at the same time.  The code does
\* not make them wait for each other, see RetryRecoversOrder.
OneCallPerCertificate == \A p, q \in Request : Target[p] = Target[q] => p = q

\* What a call of startIssuance is about to insert belongs to its certificate and
\* continues a finished issuance, or starts afresh.
Continues(q, last) ==
    /\ row[last].cert = Target[q] /\ row[last].status \in Finished
    /\ row[last].key = starting[q].key /\ row[last].order = starting[q].order

StartsFromRow(q) ==
    starting[q] # Absent =>
        /\ starting[q].cert = Target[q] /\ starting[q].status = "running"
        /\ starting[q].attempts = 0
        /\ starting[q].key = NoKey => starting[q].order = NoOrder
        /\ starting[q].key # NoKey => \E last \in Id : Continues(q, last)

\* ... and that issuance is still the newest one when the row is inserted.
StartsFromNewest(q) ==
    starting[q] # Absent /\ starting[q].key # NoKey =>
        \E last \in Id : Continues(q, last) /\ ~Superseded(last)

\* What depends on retries of one certificate not racing each other.
OrderInv ==
    /\ NewestKnowsOrder
    /\ OwnOrder
    /\ OneOrderPerSubmission
    /\ \A q \in Request : StartsFromNewest(q)

IInv ==
    /\ TypeOK
    /\ RowsInOrder
    /\ \A i \in Id : WorkerInv(i)
    /\ FinalizedOrders
    /\ KeysInOrder
    /\ InstalledKeyMatches
    /\ \A q \in Request : StartsFromRow(q)
    /\ OneCallPerCertificate => OrderInv

-----------------------------------------------------------------------------
(* What the challenges, the jobs and the order rows add to IInv; each part is *)
(* inductive on top of it.                                                 *)

\* No two certificates cover the same domains.
ExclusiveNames == \A c \in Cert : Exclusive(c)

\* A job registers a cleanup for what it presents and runs it before its terminal
\* status is published; only the operator's challenges need a confirmation, and
\* worker and row agree on it.
Challenge(i) ==
    /\ service = "down" => pc[i] = "idle"
    /\ pc[i] \in {"ask", "await", "check", "confirm"} => Solver = "manual"
    /\ cleanups[i] =>
         /\ pc[i] \notin {"idle", "publish"} /\ row[i].status \in Unfinished
         /\ mem[i].order # NoOrder
    /\ pc[i] # "idle" => mem[i].confirmed = row[i].confirmed
    /\ pc[i] \in {"answer", "validate"} =>
         IF Solver = "manual" THEN mem[i].confirmed ELSE cleanups[i]

ChallengeInv ==
    /\ service = "down" => \A q \in Request : starting[q] = Absent
    /\ \A i \in Id : Challenge(i)
    /\ ExclusiveNames => ServedUntilStop
    /\ Solver # "provider" => NoStaleChallenge

\* What a worker is about to publish is true of its certificate, and one that is
\* about to leave its issuance unfinished does so because the service closes.
Job(i) ==
    /\ pc[i] = "checkpoint" => service = "closing"
    /\ pc[i] = "returned" /\ err[i] = "nil" => certificate[mem[i].cert].status = "active"
    /\ pc[i] = "publish" =>
         certificate[mem[i].cert].status
           \in (IF mem[i].status = "succeeded" THEN {"active"} ELSE {"active", "failed"})

JobInv ==
    /\ \A i \in Id : Job(i)
    /\ UnfinishedHasWorker
    /\ TerminalTellsTruth

\* Order o is valid and its row says so, in the name of issuance i.
Ended(i, o) ==
    /\ o # NoOrder /\ order[o].status = "valid"
    /\ record[o] = [issuance |-> i, status |-> "valid"]

\* The worker that recorded an order still has its row, and what it is about to
\* publish as a success is what that row says.
Holding(i) ==
    /\ pc[i] \in Recorded => record[mem[i].order].issuance = i
    /\ pc[i] \in {"download", "install"} => seen[i] = "valid"
    /\ pc[i] = "returned" /\ err[i] = "nil" => Ended(i, mem[i].order)
    /\ pc[i] = "publish" /\ mem[i].status = "succeeded" =>
         Ended(i, mem[i].order) /\ mem[i].key = NoKey

\* Once it has succeeded, no later issuance of the certificate goes on with it.
Settled(i) ==
    row[i].status = "succeeded" =>
        /\ Ended(i, row[i].order) /\ row[i].key = NoKey
        /\ \A j \in Id : j > i /\ row[j].cert = row[i].cert =>
             row[i].order \notin {row[j].order, mem[j].order}

RecordInv == \A i \in Id : Holding(i) /\ Settled(i)
=============================================================================
