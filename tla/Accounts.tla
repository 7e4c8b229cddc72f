------------------------------ MODULE Accounts ------------------------------
(***************************************************************************)
(* The providers and accounts of api.Service (api/service.go) and what the  *)
(* certificates make of them: an account is registered at the CA of its     *)
(* provider, signs every request of the issuances it is used for, and may   *)
(* be deactivated or deleted, and a certificate be moved to another one,    *)
(* while calls, workers and the automatic renewal are under way.            *)
(*                                                                         *)
(* A call's reads, its request to the CA and its write are steps of their   *)
(* own; a worker's attempt is cut down to the steps that use the account.   *)
(* Certificates exist from the start (Certificates models their creation),  *)
(* the process does not restart (Issuance models that) and an issuance is   *)
(* known by its certificate: its row id is not given out again.             *)
(***************************************************************************)
EXTENDS Integers, Functions

CONSTANTS
    Caller,          \* concurrent calls of the API
    AutoRenewal,     \* the goroutine of RunAutoRenew
    Directory,       \* directory URLs, one per CA
    Operation,       \* the operations callers use, see Operations
    MaxProvider,     \* bound: row ids of providers
    MaxAccount,      \* bound: row ids of accounts
    MaxCertificate,  \* number of certificates
    MaxKey           \* bound: account keys ever registered

Operations == {"provider", "register", "deactivate", "deleteAccount", "update", "renew",
               "revoke", "delete"}
ProviderId == 1..MaxProvider
AccountId == 1..MaxAccount
CertificateId == 1..MaxCertificate
Key == 1..MaxKey      \* stands for the account at the CA too: one per key
None == 0
NoDirectory == "none"
Process == Caller \cup {AutoRenewal}

ASSUME AccountsAssumption ==
    /\ NoDirectory \notin Directory
    /\ AutoRenewal \notin Caller
    /\ Operation \subseteq Operations
    /\ {MaxProvider, MaxAccount, MaxKey} \subseteq Nat \ {0}
    /\ MaxCertificate \in Nat

VARIABLES
    provider,      \* [ProviderId -> directory URL]                  (store)
    account,       \* [AccountId -> account rows]                    (store)
    certificate,   \* [CertificateId -> certificate rows]            (store)
    issuance,      \* [CertificateId -> issuance rows]               (store)
    worker,        \* [CertificateId -> the job of its issuance]
    call,          \* [Process -> the operation in progress and what it has read]
    todo,          \* certificates RenewDue still has to renew
    ca             \* [Key -> the account at its CA]

vars == <<provider, account, certificate, issuance, worker, call, todo, ca>>

NoAccount == [provider |-> None, key |-> None, status |-> "absent"]

AccountRow == {NoAccount} \cup
    [provider : ProviderId, key : Key, status : {"valid", "deactivated"}]

\* `issuer' is the account the certificate was issued to, `due' whether it
\* expires within Options.RenewBefore.
NoCertificate ==
    [status |-> "absent", account |-> None, auto |-> FALSE, due |-> FALSE, issuer |-> None]

HeldCertificate ==
    [status : {"active", "revoked"}, account : AccountId, auto : BOOLEAN, due : BOOLEAN,
     issuer : Key]

CertificateRow == {NoCertificate} \cup HeldCertificate

\* The newest issuance of a certificate, and the accounts of the `past' ones.
\* `order' is the account holding the order a next attempt goes on with.
NoIssuance == [status |-> "absent", account |-> None, order |-> None, past |-> {}]

IssuanceRow == {NoIssuance} \cup
    [status : {"unfinished", "succeeded", "failed"}, account : AccountId,
     order : Key \cup {None}, past : SUBSET AccountId]

\* A client is bound to the account key and the directory of what was read.
NoClient == [key |-> None, directory |-> NoDirectory]
Client == [key : Key \cup {None}, directory : Directory \cup {NoDirectory}]

NoWorker == [pc |-> "idle", account |-> None, order |-> None, client |-> NoClient]

WorkerState == {NoWorker} \cup
    [pc : {"begin", "order", "work"}, account : AccountId, order : Key \cup {None},
     client : Client]

\* `id' is the row a call is about.
Idle == [at |-> "idle", id |-> None, client |-> NoClient, copy |-> NoCertificate]

Call == {Idle} \cup
    [at : {"register"}, id : ProviderId, client : [key : {None}, directory : Directory],
     copy : {NoCertificate}] \cup
    [at : {"insert"}, id : ProviderId, client : [key : Key, directory : Directory],
     copy : {NoCertificate}] \cup
    [at : {"deactivate", "mark"}, id : AccountId, client : Client, copy : {NoCertificate}] \cup
    [at : {"start"}, id : CertificateId, client : {NoClient},
     copy : {[NoCertificate EXCEPT !.account = a] : a \in AccountId}] \cup
    [at : {"save", "revoke"}, id : CertificateId, client : Client, copy : HeldCertificate] \cup
    [at : {"delete"}, id : CertificateId, client : {NoClient}, copy : {NoCertificate}]

TypeOK ==
    /\ provider \in [ProviderId -> Directory \cup {NoDirectory}]
    /\ account \in [AccountId -> AccountRow]
    /\ certificate \in [CertificateId -> CertificateRow]
    /\ issuance \in [CertificateId -> IssuanceRow]
    /\ worker \in [CertificateId -> WorkerState]
    /\ call \in [Process -> Call]
    /\ todo \in SUBSET CertificateId
    /\ ca \in [Key -> [directory : Directory \cup {NoDirectory},
                       status : {"unused", "valid", "deactivated"}]]

\* One account is registered, and has been issued every certificate.
Init ==
    /\ \E d \in Directory :
         /\ provider = [p \in ProviderId |-> IF p = 1 THEN d ELSE NoDirectory]
         /\ ca = [k \in Key |-> IF k = 1 THEN [directory |-> d, status |-> "valid"]
                                ELSE [directory |-> NoDirectory, status |-> "unused"]]
    /\ account = [a \in AccountId |->
                    IF a = 1 THEN [provider |-> 1, key |-> 1, status |-> "valid"] ELSE NoAccount]
    /\ certificate \in [CertificateId ->
                          {[status |-> "active", account |-> 1, auto |-> TRUE, due |-> FALSE,
                            issuer |-> 1]}]
    /\ issuance = [c \in CertificateId |->
                     [status |-> "succeeded", account |-> 1, order |-> None, past |-> {}]]
    /\ worker = [c \in CertificateId |-> NoWorker]
    /\ call = [q \in Process |-> Idle]
    /\ todo = {}

-----------------------------------------------------------------------------
(* The store and the CAs. *)

\* INTEGER PRIMARY KEY: a new row gets the largest id in the table plus one, so
\* the id of a deleted row may be given out again.
NextId(n, used) == n - 1 \in used \cup {0} /\ \A m \in used : m < n

Providers == {p \in ProviderId : provider[p] # NoDirectory}
Accounts == {a \in AccountId : account[a].status # "absent"}
Certificates == {c \in CertificateId : certificate[c].status # "absent"}

\* ON DELETE RESTRICT: the rows that keep an account, and a provider.
AccountInUse(a) ==
    \/ \E c \in Certificates : certificate[c].account = a
    \/ \E c \in CertificateId : issuance[c].account = a \/ a \in issuance[c].past

ProviderInUse(p) == \E a \in Accounts : account[a].provider = p

ClientOf(a) == [key |-> account[a].key, directory |-> provider[account[a].provider]]

\* A CA answers the accounts it knows and has not deactivated.
Accepts(client) ==
    /\ client.key # None
    /\ ca[client.key] = [directory |-> client.directory, status |-> "valid"]

Enter(q, at, id, client, copy) ==
    call' = [call EXCEPT ![q] = [at |-> at, id |-> id, client |-> client, copy |-> copy]]
Proceed(q, at) == call' = [call EXCEPT ![q].at = at]
Return(q) == call' = [call EXCEPT ![q] = Idle]

-----------------------------------------------------------------------------
(* Providers. *)

\* Directory URLs are unique.
CreateProvider(d) ==
    /\ "provider" \in Operation
    /\ d \notin Range(provider)
    /\ \E p \in ProviderId :   \* bound: MaxProvider
         NextId(p, Providers) /\ provider' = [provider EXCEPT ![p] = d]
    /\ UNCHANGED <<account, certificate, issuance, worker, call, todo, ca>>

\* Mutant: a provider goes, its accounts stay.
DeleteAnyProvider(p) ==
    /\ "provider" \in Operation
    /\ p \in Providers
    /\ provider' = [provider EXCEPT ![p] = NoDirectory]
    /\ UNCHANGED <<account, certificate, issuance, worker, call, todo, ca>>

DeleteProvider(p) ==
    /\ "provider" \in Operation
    /\ p \in Providers /\ ~ProviderInUse(p)
    /\ provider' = [provider EXCEPT ![p] = NoDirectory]
    /\ UNCHANGED <<account, certificate, issuance, worker, call, todo, ca>>

-----------------------------------------------------------------------------
(* Accounts. *)

\* RegisterAccount reads the provider and its directory ...
ReadProvider(q, p) ==
    /\ "register" \in Operation
    /\ call[q] = Idle
    /\ p \in Providers
    /\ Enter(q, "register", p, [key |-> None, directory |-> provider[p]], NoCertificate)
    /\ UNCHANGED <<provider, account, certificate, issuance, worker, todo, ca>>

\* ... registers a new key, the answer to which may be lost ...
Register(q) ==
    LET d == call[q].client.directory IN
    /\ call[q].at = "register"
    /\ \E k \in Key :   \* bound: MaxKey
         /\ NextId(k, {j \in Key : ca[j].status # "unused"})
         /\ ca' = [ca EXCEPT ![k] = [directory |-> d, status |-> "valid"]]
         /\ \/ Enter(q, "insert", call[q].id, [key |-> k, directory |-> d], NoCertificate)
            \/ Return(q)
    /\ UNCHANGED <<provider, account, certificate, issuance, worker, todo>>

\* ... and inserts the account, if a provider of that id is still there.
CreateAccount(q) ==
    LET p == call[q].id IN
    /\ call[q].at = "insert"
    /\ p \in Providers
    /\ \E a \in AccountId :   \* bound: MaxAccount
         /\ NextId(a, Accounts)
         /\ account' = [account EXCEPT ![a] =
               [provider |-> p, key |-> call[q].client.key, status |-> "valid"]]
    /\ Return(q)
    /\ UNCHANGED <<provider, certificate, issuance, worker, todo, ca>>

\* DeactivateAccount reads the account; one already deactivated is left alone ...
ReadAccount(q, a) ==
    /\ "deactivate" \in Operation
    /\ call[q] = Idle
    /\ account[a].status = "valid"
    /\ Enter(q, "deactivate", a, ClientOf(a), NoCertificate)
    /\ UNCHANGED <<provider, account, certificate, issuance, worker, todo, ca>>

\* ... has the CA deactivate it, which it does once, its answer may be lost ...
Deactivate(q) ==
    /\ call[q].at = "deactivate"
    /\ Accepts(call[q].client)
    /\ ca' = [ca EXCEPT ![call[q].client.key].status = "deactivated"]
    /\ Proceed(q, "mark") \/ Return(q)
    /\ UNCHANGED <<provider, account, certificate, issuance, worker, todo>>

\* Mutant: the update brings a deleted row back.
UpsertAccountStatus(q) ==
    /\ call[q].at = "mark"
    /\ account' = [account EXCEPT ![call[q].id].status = "deactivated"]
    /\ Return(q)
    /\ UNCHANGED <<provider, certificate, issuance, worker, todo, ca>>

\* ... and marks the row that has the id now.
UpdateAccountStatus(q) ==
    LET a == call[q].id IN
    /\ call[q].at = "mark"
    /\ IF a \in Accounts THEN account' = [account EXCEPT ![a].status = "deactivated"]
       ELSE UNCHANGED account
    /\ Return(q)
    /\ UNCHANGED <<provider, certificate, issuance, worker, todo, ca>>

\* Mutant: only the certificates keep their accounts.
DeleteUnassigned(a) ==
    /\ "deleteAccount" \in Operation
    /\ a \in Accounts /\ \A c \in Certificates : certificate[c].account # a
    /\ account' = [account EXCEPT ![a] = NoAccount]
    /\ UNCHANGED <<provider, certificate, issuance, worker, call, todo, ca>>

DeleteAccount(a) ==
    /\ "deleteAccount" \in Operation
    /\ a \in Accounts /\ ~AccountInUse(a)
    /\ account' = [account EXCEPT ![a] = NoAccount]
    /\ UNCHANGED <<provider, certificate, issuance, worker, call, todo, ca>>

-----------------------------------------------------------------------------
(* Certificates. *)

\* UpdateCertificate reads the row, changes the settings and validates them.
ReadSettings(q, c, a, b) ==
    /\ "update" \in Operation
    /\ call[q] = Idle
    /\ c \in Certificates
    /\ account[a].status = "valid"
    /\ Enter(q, "save", c, NoClient, [certificate[c] EXCEPT !.account = a, !.auto = b])
    /\ UNCHANGED <<provider, account, certificate, issuance, worker, todo, ca>>

\* RevokeCertificate reads an active certificate and its account ...
ReadActive(q, c) ==
    LET a == certificate[c].account IN
    /\ "revoke" \in Operation
    /\ call[q] = Idle
    /\ certificate[c].status = "active"
    /\ a \in Accounts
    /\ Enter(q, "revoke", c, ClientOf(a), certificate[c])
    /\ UNCHANGED <<provider, account, certificate, issuance, worker, todo, ca>>

\* ... and asks the CA, which revokes only what it has issued itself.
RevokeCert(q) ==
    /\ call[q].at = "revoke"
    /\ Accepts(call[q].client)
    /\ ca[call[q].copy.issuer].directory = call[q].client.directory
    /\ Enter(q, "save", call[q].id, NoClient,
             [call[q].copy EXCEPT !.status = "revoked", !.auto = FALSE])
    /\ UNCHANGED <<provider, account, certificate, issuance, worker, todo, ca>>

\* The row that was read is written back with the change, if the account it
\* names is there.
SaveCopy(q) ==
    /\ call[q].at = "save"
    /\ call[q].id \in Certificates
    /\ call[q].copy.account \in Accounts
    /\ certificate' = [certificate EXCEPT ![call[q].id] = call[q].copy]
    /\ Return(q)
    /\ UNCHANGED <<provider, account, issuance, worker, todo, ca>>

\* DeleteCertificate lists the issuances, refuses if one is unfinished ...
ListFinished(q, c) ==
    /\ "delete" \in Operation
    /\ call[q] = Idle
    /\ c \in Certificates
    /\ issuance[c].status # "unfinished"
    /\ Enter(q, "delete", c, NoClient, NoCertificate)
    /\ UNCHANGED <<provider, account, certificate, issuance, worker, todo, ca>>

\* ... and deletes, the issuances too.
Delete(q) ==
    /\ call[q].at = "delete"
    /\ certificate' = [certificate EXCEPT ![call[q].id] = NoCertificate]
    /\ issuance' = [issuance EXCEPT ![call[q].id] = NoIssuance]
    /\ Return(q)
    /\ UNCHANGED <<provider, account, worker, todo, ca>>

\* What RenewCertificate refuses when it reads.
Renewable(c) ==
    /\ certificate[c].status \notin {"absent", "revoked"}
    /\ account[certificate[c].account].status = "valid"

\* startIssuance uses the account of the row that was read.
RenewCertificate(q, c) ==
    Enter(q, "start", c, NoClient, [NoCertificate EXCEPT !.account = certificate[c].account])

Renew(q, c) ==
    /\ "renew" \in Operation
    /\ call[q] = Idle
    /\ Renewable(c)
    /\ RenewCertificate(q, c)
    /\ UNCHANGED <<provider, account, certificate, issuance, worker, todo, ca>>

\* Mutant: the order is taken over whichever account it was created with.
InheritsAny(c, a) == issuance[c].status = "failed"

\* A retry goes on with the order of a failed issuance if the account is the same.
Inherits(c, a) == issuance[c].status = "failed" /\ issuance[c].account = a

\* createIssuance: the foreign keys and the index of unfinished issuances may
\* refuse the new row; then nothing is started.
MayStart(c, a) ==
    /\ c \in Certificates
    /\ a \in Accounts
    /\ issuance[c].status # "unfinished"

StartIssuance(q) ==
    LET c == call[q].id
        a == call[q].copy.account
        last == issuance[c]
        o == IF Inherits(c, a) THEN last.order ELSE None
    IN  /\ call[q].at = "start"
        /\ IF MayStart(c, a)
           THEN /\ issuance' = [issuance EXCEPT ![c] =
                       [status |-> "unfinished", account |-> a, order |-> o,
                        past |-> last.past \cup {last.account}]]
                /\ worker' = [worker EXCEPT ![c] =
                       [pc |-> "begin", account |-> a, order |-> o, client |-> NoClient]]
           ELSE UNCHANGED <<issuance, worker>>
        /\ Return(q)
        /\ UNCHANGED <<provider, account, certificate, todo, ca>>

\* A call is refused, fails, or its request ends.
GiveUp(q) ==
    /\ call[q] # Idle
    /\ Return(q)
    /\ UNCHANGED <<provider, account, certificate, issuance, worker, todo, ca>>

-----------------------------------------------------------------------------
(* Automatic renewal. *)

\* Mutant: a certificate is not renewed again after a renewal failed.
ListDueUnfailed ==
    /\ call[AutoRenewal] = Idle /\ todo = {}
    /\ todo' = {c \in CertificateId : issuance[c].status # "failed" /\
                  certificate[c].status = "active" /\ certificate[c].auto /\ certificate[c].due}
    /\ UNCHANGED <<provider, account, certificate, issuance, worker, call, ca>>

\* RenewDue lists the certificates and renews those which were due, one by one.
ListDue ==
    /\ call[AutoRenewal] = Idle /\ todo = {}
    /\ todo' = {c \in CertificateId :
                  certificate[c].status = "active" /\ certificate[c].auto /\ certificate[c].due}
    /\ UNCHANGED <<provider, account, certificate, issuance, worker, call, ca>>

\* One that is refused is passed over.
RenewDue ==
    \E c \in todo :
      /\ call[AutoRenewal] = Idle
      /\ IF Renewable(c) THEN RenewCertificate(AutoRenewal, c) ELSE UNCHANGED call
      /\ todo' = todo \ {c}
      /\ UNCHANGED <<provider, account, certificate, issuance, worker, ca>>

RunAutoRenew == ListDue \/ RenewDue \/ StartIssuance(AutoRenewal)

\* Time passes, for the copies of the certificate too.
Expire(c) ==
    /\ certificate[c].status = "active" /\ ~certificate[c].due
    /\ certificate' = [certificate EXCEPT ![c].due = TRUE]
    /\ call' = [q \in Process |->
                  IF call[q].id = c /\ call[q].at \in {"save", "revoke"}
                  THEN [call[q] EXCEPT !.copy.due = TRUE] ELSE call[q]]
    /\ UNCHANGED <<provider, account, issuance, worker, todo, ca>>

-----------------------------------------------------------------------------
(* The workers. *)

\* UPDATE acme_issuances: writes nothing if the issuance was deleted.
SaveIssuance(c, status, o) ==
    issuance' = [issuance EXCEPT ![c] =
        IF @.status = "absent" THEN @ ELSE [@ EXCEPT !.status = status, !.order = o]]

\* An attempt is signed with the account of its issuance, as it is now.
BindAccount(c) ==
    LET a == worker[c].account IN
    /\ worker[c].pc = "begin"
    /\ issuance[c].status # "absent"
    /\ account[a].status = "valid"
    /\ worker' = [worker EXCEPT ![c].pc = "order", ![c].client = ClientOf(a)]
    /\ UNCHANGED <<provider, account, certificate, issuance, call, todo, ca>>

\* It creates an order, or gets the one it has, which the CA shows to the
\* account that created it, and saves it.
TakeOrder(c) ==
    LET k == worker[c].client.key IN
    /\ worker[c].pc = "order"
    /\ Accepts(worker[c].client)
    /\ issuance[c].status # "absent"
    /\ worker[c].order \in {None, k}
    /\ worker' = [worker EXCEPT ![c].pc = "work", ![c].order = k]
    /\ SaveIssuance(c, "unfinished", k)
    /\ UNCHANGED <<provider, account, certificate, call, todo, ca>>

\* It ends with a certificate, installed into the row that is there now.
Install(c) ==
    /\ worker[c].pc = "work"
    /\ Accepts(worker[c].client)
    /\ c \in Certificates
    /\ certificate' = [certificate EXCEPT ![c].status = "active", ![c].due = FALSE,
                                          ![c].issuer = worker[c].client.key]
    /\ SaveIssuance(c, "succeeded", None)
    /\ worker' = [worker EXCEPT ![c] = NoWorker]
    /\ UNCHANGED <<provider, account, call, todo, ca>>

\* A request fails for the moment: the attempt is repeated, with its order ...
Retry(c) ==
    /\ worker[c].pc \in {"order", "work"}
    /\ issuance[c].status # "absent"
    /\ worker' = [worker EXCEPT ![c].pc = "begin", ![c].client = NoClient]
    /\ UNCHANGED <<provider, account, certificate, issuance, call, todo, ca>>

\* ... or the budget is used up, and a manual retry may go on with it ...
Exhausted(c) ==
    /\ worker[c].pc \in {"order", "work"}
    /\ SaveIssuance(c, "failed", worker[c].order)
    /\ worker' = [worker EXCEPT ![c] = NoWorker]
    /\ UNCHANGED <<provider, account, certificate, call, todo, ca>>

\* ... or the attempt fails for good: key and order are given up.
Fails(c) ==
    /\ worker[c].pc # "idle"
    /\ SaveIssuance(c, "failed", None)
    /\ worker' = [worker EXCEPT ![c] = NoWorker]
    /\ UNCHANGED <<provider, account, certificate, call, todo, ca>>

-----------------------------------------------------------------------------

Work(c) == BindAccount(c) \/ TakeOrder(c) \/ Install(c) \/ Retry(c) \/ Exhausted(c) \/ Fails(c)

Serve(q) ==
    \/ \E p \in ProviderId : ReadProvider(q, p)
    \/ Register(q) \/ CreateAccount(q)
    \/ \E a \in AccountId : ReadAccount(q, a)
    \/ Deactivate(q) \/ UpdateAccountStatus(q)
    \/ \E c \in CertificateId, a \in AccountId, b \in BOOLEAN : ReadSettings(q, c, a, b)
    \/ \E c \in CertificateId : ReadActive(q, c) \/ ListFinished(q, c) \/ Renew(q, c)
    \/ RevokeCert(q) \/ SaveCopy(q) \/ Delete(q) \/ StartIssuance(q) \/ GiveUp(q)

Administer ==
    \/ \E d \in Directory : CreateProvider(d)
    \/ \E p \in ProviderId : DeleteProvider(p)
    \/ \E a \in AccountId : DeleteAccount(a)

Next ==
    \/ \E q \in Caller : Serve(q)
    \/ Administer
    \/ RunAutoRenew
    \/ \E c \in CertificateId : Work(c) \/ Expire(c)

Spec == Init /\ [][Next]_vars

\* The goroutine of the automatic renewal is scheduled; callers, workers and
\* CAs owe nothing.
FairSpec == Spec /\ WF_vars(RunAutoRenew)
-----------------------------------------------------------------------------
(* Safety. *)

\* An attempt signs with the account that holds its order, although accounts
\* are deleted, their ids reused and certificates moved between two attempts.
SignedByOwner ==
    \A c \in CertificateId :
        worker[c].client.key # None /\ worker[c].order # None /\ issuance[c].status # "absent" =>
            worker[c].client.key = worker[c].order

\* The account of an order that a retry or a renewal would go on with is never
\* deleted, although the certificate may have been moved to another account.
OrderKeepsAccount ==
    \A c \in CertificateId : issuance[c].order # None =>
        \E a \in Accounts : account[a].key = issuance[c].order

\* A revocation is sent to the CA that issued the certificate.
RevocationAtIssuer ==
    \A q \in Caller : call[q].at = "revoke" =>
        ca[call[q].copy.issuer].directory = call[q].client.directory
-----------------------------------------------------------------------------
(* Liveness. *)

Due(c) ==
    /\ certificate[c].status = "active" /\ certificate[c].auto /\ certificate[c].due
    /\ account[certificate[c].account].status = "valid"

\* A certificate that is due and may be renewed is renewed, whatever happens to
\* the others and whichever calls come in between.
DueIsRenewed ==
    \A c \in CertificateId : Due(c) ~> ~Due(c) \/ issuance[c].status = "unfinished"
-----------------------------------------------------------------------------
(* The inductive invariant behind SignedByOwner and OrderKeepsAccount: what   *)
(* the foreign keys keep together, and where an order and a client come from. *)

ReferencesInv ==
    /\ \A a \in Accounts : account[a].provider \in Providers
    /\ \A c \in Certificates : certificate[c].account \in Accounts
    /\ \A c \in CertificateId :
         issuance[c].status # "absent" => issuance[c].past \cup {issuance[c].account} \subseteq Accounts

IssuanceInv(c) ==
    /\ (issuance[c].status = "absent") <=> (certificate[c].status = "absent")
    /\ issuance[c].order # None => account[issuance[c].account].key = issuance[c].order

WorkerInv(c) ==
    worker[c].pc # "idle" /\ issuance[c].status # "absent" =>
        /\ worker[c].account = issuance[c].account
        /\ worker[c].order = issuance[c].order
        /\ worker[c].client.key \in {None, account[worker[c].account].key}

IInv ==
    /\ TypeOK
    /\ ReferencesInv
    /\ \A c \in CertificateId : IssuanceInv(c) /\ WorkerInv(c)
=============================================================================
