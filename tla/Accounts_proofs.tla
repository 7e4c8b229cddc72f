-------------------------- MODULE Accounts_proofs --------------------------
(***************************************************************************)
(* Proofs about Accounts, for any number of providers, accounts, keys,      *)
(* certificates and callers: whatever is registered, deactivated, deleted,  *)
(* moved or renewed in between, an attempt signs with the account that      *)
(* holds its order, and that account is never deleted while an order may    *)
(* still be gone on with.  The invariant says what the foreign keys keep    *)
(* together; the rest follows because a row's key never changes.           *)
(***************************************************************************)
EXTENDS Accounts, TLAPS

LEMMA Ids ==
  /\ 1 \in ProviderId /\ 1 \in AccountId /\ 1 \in Key
  /\ None \notin Key
BY AccountsAssumption DEF ProviderId, AccountId, Key, None

Rows == <<provider, account, certificate, issuance, worker>>

-----------------------------------------------------------------------------
(* The parts of what is there. *)

LEMMA CallParts ==
  ASSUME TypeOK, NEW q \in Process
  PROVE  /\ call[q].at = "register" =>
              call[q].id \in ProviderId /\ call[q].client.directory \in Directory
         /\ call[q].at = "insert" =>
              call[q].id \in ProviderId /\ call[q].client.key \in Key
         /\ call[q].at \in {"deactivate", "mark"} =>
              call[q].id \in AccountId /\ call[q].client \in Client
         /\ call[q].at \in {"save", "revoke"} =>
              call[q].id \in CertificateId /\ call[q].copy \in HeldCertificate
         /\ call[q].at = "delete" => call[q].id \in CertificateId
         /\ call[q].at = "start" =>
              call[q].id \in CertificateId /\ call[q].copy.account \in AccountId
BY DEF TypeOK, Call, Idle, NoCertificate

LEMMA RowParts ==
  ASSUME TypeOK
  PROVE  /\ \A a \in Accounts : a \in AccountId /\
              account[a] \in [provider : ProviderId, key : Key, status : {"valid", "deactivated"}]
         /\ \A c \in Certificates : c \in CertificateId /\ certificate[c] \in HeldCertificate
         /\ \A c \in CertificateId : issuance[c].status # "absent" => issuance[c] \in
              [status : {"unfinished", "succeeded", "failed"}, account : AccountId,
               order : Key \cup {None}, past : SUBSET AccountId]
         /\ \A c \in CertificateId : worker[c].pc # "idle" => worker[c] \in
              [pc : {"begin", "order", "work"}, account : AccountId, order : Key \cup {None},
               client : Client]
<1>1. \A a \in Accounts : a \in AccountId /\
        account[a] \in [provider : ProviderId, key : Key, status : {"valid", "deactivated"}]
  BY DEF TypeOK, Accounts, AccountRow, NoAccount
<1>2. \A c \in Certificates : c \in CertificateId /\ certificate[c] \in HeldCertificate
  BY DEF TypeOK, Certificates, CertificateRow, NoCertificate
<1>3. \A c \in CertificateId : issuance[c].status # "absent" => issuance[c] \in
        [status : {"unfinished", "succeeded", "failed"}, account : AccountId,
         order : Key \cup {None}, past : SUBSET AccountId]
  BY DEF TypeOK, IssuanceRow, NoIssuance
<1>4. \A c \in CertificateId : worker[c].pc # "idle" => worker[c] \in
        [pc : {"begin", "order", "work"}, account : AccountId, order : Key \cup {None},
         client : Client]
  BY DEF TypeOK, WorkerState, NoWorker
<1> QED BY <1>1, <1>2, <1>3, <1>4

\* The client of an account that is there.
LEMMA ClientType ==
  ASSUME TypeOK, NEW a \in Accounts
  PROVE  ClientOf(a) \in Client
<1>1. account[a].key \in Key /\ account[a].provider \in ProviderId
  BY RowParts
<1> QED BY <1>1 DEF ClientOf, Client, TypeOK

LEMMA Absences ==
  /\ NoAccount \in AccountRow /\ NoCertificate \in CertificateRow /\ NoIssuance \in IssuanceRow
  /\ NoWorker \in WorkerState /\ Idle \in Call /\ NoClient \in Client
BY DEF AccountRow, CertificateRow, IssuanceRow, WorkerState, Call, NoClient, Client

-----------------------------------------------------------------------------
(* Steps of calls that touch no row. *)

\* The invariant is about the rows and the workers, and typed by the rest.
LEMMA QuietStep ==
  ASSUME IInv, UNCHANGED Rows, call' \in [Process -> Call], todo' \in SUBSET CertificateId,
         ca' \in [Key -> [directory : Directory \cup {NoDirectory},
                          status : {"unused", "valid", "deactivated"}]]
  PROVE  IInv'
<1>1. TypeOK'
  BY DEF IInv, TypeOK, Rows
<1>2. ReferencesInv'
  BY DEF IInv, ReferencesInv, Rows, Accounts, Providers, Certificates
<1>3. \A c \in CertificateId : IssuanceInv(c)' /\ WorkerInv(c)'
  BY DEF IInv, IssuanceInv, WorkerInv, Rows
<1> QED BY <1>1, <1>2, <1>3 DEF IInv

\* A call that goes somewhere, and nothing else.
LEMMA CallStep ==
  ASSUME IInv, NEW q \in Process, NEW x \in Call, call' = [call EXCEPT ![q] = x],
         UNCHANGED <<provider, account, certificate, issuance, worker, todo, ca>>
  PROVE  IInv'
<1>1. call' \in [Process -> Call]
  BY DEF IInv, TypeOK
<1>2. todo' \in SUBSET CertificateId /\
      ca' \in [Key -> [directory : Directory \cup {NoDirectory},
                       status : {"unused", "valid", "deactivated"}]]
  BY DEF IInv, TypeOK
<1> QED BY <1>1, <1>2, QuietStep DEF Rows

LEMMA ReadProviderStep ==
  ASSUME IInv, NEW q \in Process, NEW p \in ProviderId, ReadProvider(q, p)  PROVE IInv'
<1> DEFINE x == [at |-> "register", id |-> p,
                 client |-> [key |-> None, directory |-> provider[p]], copy |-> NoCertificate]
<1>1. provider[p] \in Directory
  BY DEF IInv, TypeOK, ReadProvider, Providers
<1>2. x \in Call
  BY <1>1 DEF Call
<1> QED BY <1>2, CallStep DEF ReadProvider, Enter

LEMMA RegisterStep ==
  ASSUME IInv, NEW q \in Process, Register(q)  PROVE IInv'
<1> DEFINE d == call[q].client.directory
           new(k) == [at |-> "insert", id |-> call[q].id,
                      client |-> [key |-> k, directory |-> d], copy |-> NoCertificate]
<1>1. PICK k \in Key :
        /\ ca' = [ca EXCEPT ![k] = [directory |-> d, status |-> "valid"]]
        /\ call' = [call EXCEPT ![q] = new(k)] \/ call' = [call EXCEPT ![q] = Idle]
  BY DEF Register, Enter, Return
<1>2. d \in Directory /\ call[q].id \in ProviderId
  BY CallParts DEF IInv, Register
<1>3. new(k) \in Call
  BY <1>2 DEF Call
<1>4. call' \in [Process -> Call]
  BY <1>1, <1>3, Absences DEF IInv, TypeOK
<1>5. ca' \in [Key -> [directory : Directory \cup {NoDirectory},
                       status : {"unused", "valid", "deactivated"}]]
  BY <1>1, <1>2 DEF IInv, TypeOK
<1> QED BY <1>4, <1>5, QuietStep DEF Register, Rows, IInv, TypeOK

LEMMA ReadAccountStep ==
  ASSUME IInv, NEW q \in Process, NEW a \in AccountId, ReadAccount(q, a)  PROVE IInv'
<1> DEFINE x == [at |-> "deactivate", id |-> a, client |-> ClientOf(a), copy |-> NoCertificate]
<1>1. ClientOf(a) \in Client
  BY ClientType DEF IInv, ReadAccount, Accounts
<1>2. x \in Call
  BY <1>1 DEF Call
<1> QED BY <1>2, CallStep DEF ReadAccount, Enter

LEMMA DeactivateStep ==
  ASSUME IInv, NEW q \in Process, Deactivate(q)  PROVE IInv'
<1>1. call[q].id \in AccountId /\ call[q].client \in Client
  BY CallParts DEF IInv, Deactivate
<1>2. call[q].client.key \in Key
  BY <1>1 DEF Deactivate, Accepts, Client
<1>3. [call[q] EXCEPT !.at = "mark"] \in Call
  <2>1. call[q] \in [at : {"deactivate", "mark"}, id : AccountId, client : Client,
                     copy : {NoCertificate}]
    BY DEF IInv, TypeOK, Call, Idle, Deactivate
  <2> QED BY <2>1 DEF Call
<1>4. call' \in [Process -> Call]
  BY <1>3, Absences DEF IInv, TypeOK, Deactivate, Proceed, Return
<1>5. ca' \in [Key -> [directory : Directory \cup {NoDirectory},
                       status : {"unused", "valid", "deactivated"}]]
  BY <1>2 DEF IInv, TypeOK, Deactivate
<1> QED BY <1>4, <1>5, QuietStep DEF Deactivate, Rows, IInv, TypeOK

LEMMA ReadSettingsStep ==
  ASSUME IInv, NEW q \in Process, NEW c \in CertificateId, NEW a \in AccountId,
         NEW b \in BOOLEAN, ReadSettings(q, c, a, b)
  PROVE  IInv'
<1> DEFINE r == [certificate[c] EXCEPT !.account = a, !.auto = b]
           x == [at |-> "save", id |-> c, client |-> NoClient, copy |-> r]
<1>1. r \in HeldCertificate
  <2>1. certificate[c] \in HeldCertificate
    BY RowParts DEF IInv, ReadSettings
  <2> QED BY <2>1 DEF HeldCertificate
<1> HIDE DEF r
<1>2. x \in Call
  BY <1>1, Absences DEF Call
<1> QED BY <1>2, CallStep DEF ReadSettings, Enter, r

LEMMA ReadActiveStep ==
  ASSUME IInv, NEW q \in Process, NEW c \in CertificateId, ReadActive(q, c)  PROVE IInv'
<1> DEFINE a == certificate[c].account
           x == [at |-> "revoke", id |-> c, client |-> ClientOf(a), copy |-> certificate[c]]
<1>1. ClientOf(a) \in Client
  BY ClientType DEF IInv, ReadActive
<1>2. certificate[c] \in HeldCertificate
  BY RowParts DEF IInv, ReadActive, Certificates
<1>3. x \in Call
  BY <1>1, <1>2 DEF Call
<1> QED BY <1>3, CallStep DEF ReadActive, Enter

LEMMA RevokeCertStep ==
  ASSUME IInv, NEW q \in Process, RevokeCert(q)  PROVE IInv'
<1> DEFINE r == [call[q].copy EXCEPT !.status = "revoked", !.auto = FALSE]
           x == [at |-> "save", id |-> call[q].id, client |-> NoClient, copy |-> r]
<1>1. call[q].id \in CertificateId /\ call[q].copy \in HeldCertificate
  BY CallParts DEF IInv, RevokeCert
<1>2. r \in HeldCertificate
  BY <1>1 DEF HeldCertificate
<1> HIDE DEF r
<1>3. x \in Call
  BY <1>1, <1>2, Absences DEF Call
<1> QED BY <1>3, CallStep DEF RevokeCert, Enter, r

LEMMA ListFinishedStep ==
  ASSUME IInv, NEW q \in Process, NEW c \in CertificateId, ListFinished(q, c)  PROVE IInv'
<1> DEFINE x == [at |-> "delete", id |-> c, client |-> NoClient, copy |-> NoCertificate]
<1>1. x \in Call
  BY DEF Call
<1> QED BY <1>1, CallStep DEF ListFinished, Enter

\* What RenewCertificate hands on.
LEMMA RenewableType ==
  ASSUME TypeOK, NEW c \in CertificateId, Renewable(c)
  PROVE  [at |-> "start", id |-> c, client |-> NoClient,
          copy |-> [NoCertificate EXCEPT !.account = certificate[c].account]] \in Call
<1>1. certificate[c].account \in AccountId
  BY RowParts DEF Renewable, Certificates, HeldCertificate
<1> DEFINE r == [NoCertificate EXCEPT !.account = certificate[c].account]
<1>2. r \in {[NoCertificate EXCEPT !.account = a] : a \in AccountId}
  BY <1>1
<1> HIDE DEF r
<1>3. [at |-> "start", id |-> c, client |-> NoClient, copy |-> r] \in Call
  BY <1>2 DEF Call
<1> QED BY <1>3 DEF r

LEMMA RenewStep ==
  ASSUME IInv, NEW q \in Process, NEW c \in CertificateId, Renew(q, c)  PROVE IInv'
BY RenewableType, CallStep DEF IInv, Renew, RenewCertificate, Enter

LEMMA GiveUpStep ==
  ASSUME IInv, NEW q \in Process, GiveUp(q)  PROVE IInv'
BY Absences, CallStep DEF GiveUp, Return

LEMMA ListDueStep ==
  ASSUME IInv, ListDue  PROVE IInv'
<1>1. todo' \in SUBSET CertificateId
  BY DEF ListDue
<1> QED BY <1>1, QuietStep DEF ListDue, Rows, IInv, TypeOK

LEMMA RenewDueStep ==
  ASSUME IInv, RenewDue  PROVE IInv'
<1>1. PICK c \in todo :
        /\ IF Renewable(c) THEN RenewCertificate(AutoRenewal, c) ELSE UNCHANGED call
        /\ todo' = todo \ {c}
        /\ UNCHANGED <<provider, account, certificate, issuance, worker, ca>>
  BY DEF RenewDue
<1>2. c \in CertificateId /\ todo' \in SUBSET CertificateId
  BY <1>1 DEF IInv, TypeOK
<1>3. call' \in [Process -> Call]
  BY <1>1, <1>2, RenewableType DEF IInv, TypeOK, RenewCertificate, Enter
<1> QED BY <1>1, <1>2, <1>3, QuietStep DEF Rows, IInv, TypeOK

-----------------------------------------------------------------------------
(* Providers and accounts: the rows that refer to them stay as they are. *)

\* Accounts in use keep their place and key, and accounts their providers.
LEMMA AccountsStep ==
  ASSUME IInv, TypeOK', UNCHANGED <<certificate, issuance, worker>>,
         \A a \in Accounts : AccountInUse(a) => a \in Accounts' /\ account'[a].key = account[a].key,
         \A a \in Accounts' : account'[a].provider \in Providers'
  PROVE  IInv'
<1>1. \A c \in Certificates : certificate[c].account \in Accounts'
  BY DEF IInv, ReferencesInv, AccountInUse
<1>2. \A c \in CertificateId : issuance[c].status # "absent" =>
         issuance[c].past \cup {issuance[c].account} \subseteq Accounts'
  BY DEF IInv, ReferencesInv, AccountInUse
<1>3. ReferencesInv'
  BY <1>1, <1>2 DEF ReferencesInv, Certificates
<1>4. \A c \in CertificateId : issuance[c].status # "absent" =>
         account'[issuance[c].account].key = account[issuance[c].account].key
  BY DEF IInv, ReferencesInv, AccountInUse
<1>5. ASSUME NEW c \in CertificateId  PROVE IssuanceInv(c)'
  <2>1. IssuanceInv(c)
    BY DEF IInv
  <2>2. issuance[c].status = "absent" => issuance[c].order = None
    BY DEF IInv, TypeOK, IssuanceRow, NoIssuance
  <2> QED BY <1>4, <2>1, <2>2 DEF IssuanceInv
<1>6. ASSUME NEW c \in CertificateId  PROVE WorkerInv(c)'
  BY <1>4 DEF IInv, WorkerInv
<1> QED BY <1>3, <1>5, <1>6 DEF IInv

LEMMA CreateProviderStep ==
  ASSUME IInv, NEW d \in Directory, CreateProvider(d)  PROVE IInv'
<1>1. PICK p \in ProviderId : provider' = [provider EXCEPT ![p] = d]
  BY DEF CreateProvider
<1>2. TypeOK'
  BY <1>1 DEF IInv, TypeOK, CreateProvider
<1>3. d # NoDirectory
  BY AccountsAssumption
<1>4. Providers \subseteq Providers'
  BY <1>1, <1>3 DEF IInv, TypeOK, Providers
<1>5. Accounts' = Accounts /\ account' = account
  BY DEF CreateProvider, Accounts
<1> QED BY <1>2, <1>4, <1>5, AccountsStep DEF CreateProvider, IInv, ReferencesInv

LEMMA DeleteProviderStep ==
  ASSUME IInv, NEW p \in ProviderId, DeleteProvider(p)  PROVE IInv'
<1>1. TypeOK'
  BY DEF IInv, TypeOK, DeleteProvider
<1>2. Accounts' = Accounts /\ account' = account
  BY DEF DeleteProvider, Accounts
<1>3. Providers \ {p} \subseteq Providers'
  BY DEF DeleteProvider, IInv, TypeOK, Providers
<1>4. \A a \in Accounts : account[a].provider \in Providers \ {p}
  BY DEF DeleteProvider, ProviderInUse, IInv, ReferencesInv
<1> QED BY <1>1, <1>2, <1>3, <1>4, AccountsStep DEF DeleteProvider

\* A new account takes an id no account has.
LEMMA CreateAccountStep ==
  ASSUME IInv, NEW q \in Process, CreateAccount(q)  PROVE IInv'
<1> DEFINE p == call[q].id
           k == call[q].client.key
           row == [provider |-> p, key |-> k, status |-> "valid"]
<1>1. PICK a \in AccountId : NextId(a, Accounts) /\ account' = [account EXCEPT ![a] = row]
  BY DEF CreateAccount
<1>2. a \notin Accounts
  BY <1>1 DEF NextId, AccountId
<1>3. p \in ProviderId /\ p \in Providers /\ k \in Key
  BY CallParts DEF CreateAccount, IInv
<1>4. row \in AccountRow /\ row.status # "absent" /\ row.provider = p
  BY <1>3 DEF AccountRow
<1> HIDE DEF row
<1>5. TypeOK'
  BY <1>1, <1>4, Absences DEF CreateAccount, Return, IInv, TypeOK
<1>6. /\ Accounts' = Accounts \cup {a}
      /\ \A b \in Accounts : account'[b] = account[b]
      /\ account'[a] = row
  BY <1>1, <1>2, <1>4 DEF Accounts, IInv, TypeOK
<1> QED BY <1>3, <1>4, <1>5, <1>6, AccountsStep DEF CreateAccount, IInv, ReferencesInv, Providers

LEMMA UpdateAccountStatusStep ==
  ASSUME IInv, NEW q \in Process, UpdateAccountStatus(q)  PROVE IInv'
<1> DEFINE a == call[q].id
<1>1. a \in AccountId
  BY CallParts DEF IInv, UpdateAccountStatus
<1>2. CASE a \notin Accounts
  <2>1. account' = account
    BY <1>1, <1>2 DEF UpdateAccountStatus, IInv, TypeOK
  <2>2. TypeOK'
    BY <2>1, Absences DEF UpdateAccountStatus, Return, IInv, TypeOK
  <2> QED BY <2>1, <2>2, AccountsStep DEF UpdateAccountStatus, IInv, ReferencesInv, Accounts, Providers
<1>3. CASE a \in Accounts
  <2> DEFINE row == [account[a] EXCEPT !.status = "deactivated"]
  <2>1. account[a] \in [provider : ProviderId, key : Key, status : {"valid", "deactivated"}]
    BY <1>3, RowParts DEF IInv
  <2>2. /\ row \in AccountRow /\ row.status = "deactivated"
        /\ row.key = account[a].key /\ row.provider = account[a].provider
    BY <2>1 DEF AccountRow
  <2>3. account' = [account EXCEPT ![a] = row]
    BY <1>3 DEF UpdateAccountStatus
  <2> HIDE DEF row
  <2>4. TypeOK'
    BY <1>1, <2>2, <2>3, Absences DEF UpdateAccountStatus, Return, IInv, TypeOK
  <2>5. Accounts' = Accounts
    BY <1>1, <1>3, <2>2, <2>3 DEF Accounts, IInv, TypeOK
  <2>6. \A b \in Accounts : account'[b].key = account[b].key /\ account'[b].provider = account[b].provider
    BY <1>1, <2>2, <2>3 DEF Accounts, IInv, TypeOK
  <2> QED BY <2>4, <2>5, <2>6, AccountsStep DEF UpdateAccountStatus, IInv, ReferencesInv, Providers
<1> QED BY <1>2, <1>3

LEMMA DeleteAccountStep ==
  ASSUME IInv, NEW a \in AccountId, DeleteAccount(a)  PROVE IInv'
<1>1. TypeOK'
  BY Absences DEF IInv, TypeOK, DeleteAccount
<1>2. /\ Accounts' = Accounts \ {a}
      /\ \A b \in Accounts \ {a} : account'[b] = account[b]
  BY DEF DeleteAccount, Accounts, NoAccount, IInv, TypeOK
<1> QED BY <1>1, <1>2, AccountsStep DEF DeleteAccount, IInv, ReferencesInv, Providers

-----------------------------------------------------------------------------
(* Certificates, issuances and workers, one certificate at a time. *)

LEMMA OneCertificate ==
  ASSUME IInv, TypeOK', NEW c \in CertificateId, UNCHANGED <<provider, account>>,
         \A d \in CertificateId \ {c} : /\ certificate'[d] = certificate[d]
                                        /\ issuance'[d] = issuance[d]
                                        /\ worker'[d] = worker[d],
         certificate'[c].status # "absent" => certificate'[c].account \in Accounts,
         issuance'[c].status # "absent" =>
             issuance'[c].past \cup {issuance'[c].account} \subseteq Accounts,
         IssuanceInv(c)', WorkerInv(c)'
  PROVE  IInv'
<1>1. Accounts' = Accounts /\ Providers' = Providers
  BY DEF Accounts, Providers
<1>2. \A a \in Accounts' : account'[a].provider \in Providers'
  BY <1>1 DEF IInv, ReferencesInv
<1>3. \A d \in Certificates' : certificate'[d].account \in Accounts'
  BY <1>1 DEF IInv, ReferencesInv, Certificates
<1>4. \A d \in CertificateId : issuance'[d].status # "absent" =>
        issuance'[d].past \cup {issuance'[d].account} \subseteq Accounts'
  BY <1>1 DEF IInv, ReferencesInv
<1>5. ReferencesInv'
  BY <1>2, <1>3, <1>4 DEF ReferencesInv
<1>6. ASSUME NEW d \in CertificateId \ {c}  PROVE IssuanceInv(d)' /\ WorkerInv(d)'
  BY DEF IInv, IssuanceInv, WorkerInv
<1> QED BY <1>5, <1>6 DEF IInv

\* A certificate row is written, its issuance and worker are left alone.
LEMMA RowStep ==
  ASSUME IInv, NEW c \in Certificates, NEW r \in HeldCertificate, r.account \in Accounts,
         certificate' = [certificate EXCEPT ![c] = r], call' \in [Process -> Call],
         UNCHANGED <<provider, account, issuance, worker, todo, ca>>
  PROVE  IInv'
<1>1. c \in CertificateId /\ certificate[c].status # "absent" /\ r.status # "absent"
  BY DEF Certificates, HeldCertificate
<1>2. TypeOK'
  BY <1>1 DEF IInv, TypeOK, CertificateRow
<1>3. /\ certificate'[c] = r
      /\ \A d \in CertificateId \ {c} : certificate'[d] = certificate[d]
  BY <1>1 DEF IInv, TypeOK
<1>4. IssuanceInv(c)' /\ WorkerInv(c)'
  BY <1>1, <1>3 DEF IInv, IssuanceInv, WorkerInv
<1>5. issuance[c].status # "absent" => issuance[c].past \cup {issuance[c].account} \subseteq Accounts
  BY <1>1 DEF IInv, ReferencesInv
<1> QED BY <1>1, <1>2, <1>3, <1>4, <1>5, OneCertificate

LEMMA SaveCopyStep ==
  ASSUME IInv, NEW q \in Process, SaveCopy(q)  PROVE IInv'
<1>1. call[q].copy \in HeldCertificate
  BY CallParts DEF IInv, SaveCopy
<1>2. call' \in [Process -> Call]
  BY Absences DEF IInv, TypeOK, SaveCopy, Return
<1> QED BY <1>1, <1>2, RowStep DEF SaveCopy

LEMMA ExpireStep ==
  ASSUME IInv, NEW c \in CertificateId, Expire(c)  PROVE IInv'
<1> DEFINE r == [certificate[c] EXCEPT !.due = TRUE]
           aged(x) == [x EXCEPT !.copy.due = TRUE]
<1>1. c \in Certificates /\ certificate[c] \in HeldCertificate /\ certificate[c].account \in Accounts
  BY RowParts DEF Expire, Certificates, IInv, ReferencesInv
<1>2. r \in HeldCertificate /\ r.account = certificate[c].account
  BY <1>1 DEF HeldCertificate
<1>3. ASSUME NEW x \in Call, x.at \in {"save", "revoke"}  PROVE aged(x) \in Call
  <2>1. x \in [at : {"save", "revoke"}, id : CertificateId, client : Client, copy : HeldCertificate]
    BY <1>3 DEF Call, Idle
  <2>2. [x.copy EXCEPT !.due = TRUE] \in HeldCertificate
    BY <2>1 DEF HeldCertificate
  <2>3. aged(x) = [x EXCEPT !.copy = [x.copy EXCEPT !.due = TRUE]]
    BY <2>1
  <2> QED BY <2>1, <2>2, <2>3 DEF Call
<1>4. call' \in [Process -> Call]
  BY <1>3 DEF Expire, IInv, TypeOK
<1>5. certificate' = [certificate EXCEPT ![c] = r]
  BY DEF Expire
<1> HIDE DEF r
<1> QED BY <1>1, <1>2, <1>4, <1>5, RowStep DEF Expire

LEMMA DeleteStep ==
  ASSUME IInv, NEW q \in Process, Delete(q)  PROVE IInv'
<1>1. PICK c \in CertificateId : c = call[q].id
  BY CallParts DEF IInv, Delete
<1>2. TypeOK'
  BY <1>1, Absences DEF IInv, TypeOK, Delete, Return
<1>3. /\ certificate'[c] = NoCertificate /\ issuance'[c] = NoIssuance
      /\ \A d \in CertificateId \ {c} : certificate'[d] = certificate[d] /\ issuance'[d] = issuance[d]
  BY <1>1 DEF IInv, TypeOK, Delete
<1>4. IssuanceInv(c)' /\ WorkerInv(c)'
  BY <1>3 DEF IssuanceInv, WorkerInv, NoCertificate, NoIssuance
<1>5. certificate'[c].status = "absent" /\ issuance'[c].status = "absent"
  BY <1>3 DEF NoCertificate, NoIssuance
<1> QED BY <1>1, <1>2, <1>3, <1>4, <1>5, OneCertificate DEF Delete

LEMMA StartIssuanceStep ==
  ASSUME IInv, NEW q \in Process, StartIssuance(q)  PROVE IInv'
<1>1. PICK c \in CertificateId, a \in AccountId : c = call[q].id /\ a = call[q].copy.account
  BY CallParts DEF IInv, StartIssuance
<1> DEFINE last == issuance[c]
           o == IF Inherits(c, a) THEN last.order ELSE None
           row == [status |-> "unfinished", account |-> a, order |-> o,
                   past |-> last.past \cup {last.account}]
           job == [pc |-> "begin", account |-> a, order |-> o, client |-> NoClient]
<1>2. call' \in [Process -> Call]
  BY Absences DEF IInv, TypeOK, StartIssuance, Return
<1>3. CASE ~MayStart(c, a)
  BY <1>1, <1>2, <1>3, QuietStep DEF StartIssuance, Rows, IInv, TypeOK
<1>4. CASE MayStart(c, a)
  <2>1. last \in [status : {"unfinished", "succeeded", "failed"}, account : AccountId,
                  order : Key \cup {None}, past : SUBSET AccountId]
    BY <1>1, <1>4, RowParts DEF IInv, IssuanceInv, MayStart, Certificates
  <2>2. last.past \cup {last.account} \subseteq Accounts /\ a \in Accounts
    BY <1>1, <1>4, <2>1 DEF IInv, ReferencesInv, MayStart
  <2>3. o \in Key \cup {None} /\ (o # None => account[a].key = o)
    BY <1>1, <2>1 DEF IInv, IssuanceInv, Inherits
  <2> HIDE DEF o
  <2>4. row \in IssuanceRow /\ job \in WorkerState
    BY <1>1, <2>1, <2>3, Absences DEF IssuanceRow, WorkerState
  <2>5. issuance' = [issuance EXCEPT ![c] = row] /\ worker' = [worker EXCEPT ![c] = job]
    BY <1>1, <1>4 DEF StartIssuance, o
  <2>6. TypeOK'
    BY <1>1, <1>2, <2>4, <2>5 DEF IInv, TypeOK, StartIssuance
  <2>7. /\ issuance'[c] = row /\ worker'[c] = job
        /\ \A d \in CertificateId \ {c} : issuance'[d] = issuance[d] /\ worker'[d] = worker[d]
    BY <1>1, <2>5 DEF IInv, TypeOK
  <2>8. IssuanceInv(c)'
    BY <1>4, <2>3, <2>7 DEF IssuanceInv, MayStart, Certificates, StartIssuance
  <2>9. WorkerInv(c)'
    BY <2>7 DEF WorkerInv, NoClient
  <2>10. certificate'[c].status # "absent" => certificate'[c].account \in Accounts
    BY <1>1 DEF IInv, ReferencesInv, Certificates, StartIssuance
  <2>11. issuance'[c].past \cup {issuance'[c].account} \subseteq Accounts
    BY <2>2, <2>7
  <2>12. UNCHANGED <<provider, account, certificate>>
    BY DEF StartIssuance
  <2> QED BY <1>1, <2>6, <2>7, <2>8, <2>9, <2>10, <2>11, <2>12, OneCertificate
<1> QED BY <1>3, <1>4

-----------------------------------------------------------------------------
(* Workers. *)

\* What a worker saves: its row, if it is there.
LEMMA SaveIssuanceType ==
  ASSUME TypeOK, NEW c \in CertificateId, NEW s \in {"unfinished", "succeeded", "failed"},
         NEW o \in Key \cup {None}, SaveIssuance(c, s, o)
  PROVE  /\ issuance' \in [CertificateId -> IssuanceRow]
         /\ \A d \in CertificateId \ {c} : issuance'[d] = issuance[d]
         /\ issuance[c].status = "absent" => issuance'[c] = issuance[c]
         /\ issuance[c].status # "absent" =>
              /\ issuance'[c].status = s /\ issuance'[c].order = o
              /\ issuance'[c].account = issuance[c].account
              /\ issuance'[c].past = issuance[c].past
<1>1. CASE issuance[c].status = "absent"
  BY <1>1 DEF SaveIssuance, TypeOK
<1>2. CASE issuance[c].status # "absent"
  <2> DEFINE r == [issuance[c] EXCEPT !.status = s, !.order = o]
  <2>1. issuance[c] \in [status : {"unfinished", "succeeded", "failed"}, account : AccountId,
                         order : Key \cup {None}, past : SUBSET AccountId]
    BY <1>2, RowParts
  <2>2. /\ r \in IssuanceRow /\ r.status = s /\ r.order = o
        /\ r.account = issuance[c].account /\ r.past = issuance[c].past
    BY <2>1 DEF IssuanceRow
  <2>3. issuance' = [issuance EXCEPT ![c] = r]
    BY <1>2 DEF SaveIssuance
  <2> HIDE DEF r
  <2> QED BY <1>2, <2>2, <2>3 DEF TypeOK
<1> QED BY <1>1, <1>2

\* A worker moves and its row says so; the certificate, if it changes, stays.
LEMMA WorkStep ==
  ASSUME IInv, NEW c \in CertificateId, UNCHANGED <<provider, account, call, todo, ca>>,
         certificate' \in [CertificateId -> CertificateRow],
         \A d \in CertificateId \ {c} : certificate'[d] = certificate[d],
         certificate'[c].status # "absent" <=> certificate[c].status # "absent",
         certificate'[c].account = certificate[c].account,
         issuance' \in [CertificateId -> IssuanceRow],
         \A d \in CertificateId \ {c} : issuance'[d] = issuance[d],
         issuance[c].status = "absent" => issuance'[c] = issuance[c],
         issuance[c].status # "absent" =>
             /\ issuance'[c].status # "absent"
             /\ issuance'[c].account = issuance[c].account
             /\ issuance'[c].past = issuance[c].past
             /\ issuance'[c].order \in {None, account[issuance[c].account].key},
         NEW j \in WorkerState, worker' = [worker EXCEPT ![c] = j],
         j.pc # "idle" /\ issuance[c].status # "absent" =>
             /\ j.account = issuance[c].account
             /\ j.order = issuance'[c].order
             /\ j.client.key \in {None, account[j.account].key}
  PROVE  IInv'
<1>1. TypeOK'
  BY DEF IInv, TypeOK
<1>2. worker'[c] = j /\ \A d \in CertificateId \ {c} : worker'[d] = worker[d]
  BY DEF IInv, TypeOK
<1>3. IssuanceInv(c)'
  <2>1. IssuanceInv(c)
    BY DEF IInv
  <2> QED BY <2>1 DEF IssuanceInv
<1>4. WorkerInv(c)'
  BY <1>2 DEF WorkerInv
<1>5. certificate'[c].status # "absent" => certificate'[c].account \in Accounts
  BY DEF IInv, ReferencesInv, Certificates
<1>6. issuance'[c].status # "absent" =>
        issuance'[c].past \cup {issuance'[c].account} \subseteq Accounts
  BY DEF IInv, ReferencesInv
<1> QED BY <1>1, <1>2, <1>3, <1>4, <1>5, <1>6, OneCertificate

\* Only the worker moves.
LEMMA JobStep ==
  ASSUME IInv, NEW c \in CertificateId, NEW j \in WorkerState,
         worker' = [worker EXCEPT ![c] = j],
         UNCHANGED <<provider, account, certificate, issuance, call, todo, ca>>,
         j.pc # "idle" /\ issuance[c].status # "absent" =>
             /\ j.account = issuance[c].account
             /\ j.order = issuance[c].order
             /\ j.client.key \in {None, account[j.account].key}
  PROVE  IInv'
<1>1. issuance[c].status # "absent" =>
        issuance[c].order \in {None, account[issuance[c].account].key}
  BY DEF IInv, IssuanceInv
<1>2. certificate' \in [CertificateId -> CertificateRow] /\ issuance' \in [CertificateId -> IssuanceRow]
  BY DEF IInv, TypeOK
<1> QED BY <1>1, <1>2, WorkStep

LEMMA BindAccountStep ==
  ASSUME IInv, NEW c \in CertificateId, BindAccount(c)  PROVE IInv'
<1> DEFINE a == worker[c].account
           j == [worker[c] EXCEPT !.pc = "order", !.client = ClientOf(a)]
<1>1. /\ worker[c] \in [pc : {"begin", "order", "work"}, account : AccountId,
                        order : Key \cup {None}, client : Client]
      /\ worker[c].pc # "idle" /\ issuance[c].status # "absent"
  BY RowParts DEF IInv, BindAccount
<1>2. ClientOf(a) \in Client
  BY <1>1, ClientType DEF IInv, BindAccount, Accounts
<1>3. /\ j \in WorkerState /\ j.account = a /\ j.order = worker[c].order
      /\ j.client = ClientOf(a)
  BY <1>1, <1>2 DEF WorkerState
<1>4. worker' = [worker EXCEPT ![c] = j]
  BY DEF BindAccount
<1>5. WorkerInv(c) /\ ClientOf(a).key = account[a].key
  BY DEF IInv, ClientOf
<1> HIDE DEF j
<1>6. /\ j.account = issuance[c].account /\ j.order = issuance[c].order
      /\ j.client.key \in {None, account[j.account].key}
  BY <1>1, <1>3, <1>5 DEF WorkerInv
<1>7. UNCHANGED <<provider, account, certificate, issuance, call, todo, ca>>
  BY DEF BindAccount
<1> QED BY <1>3, <1>4, <1>6, <1>7, JobStep

LEMMA RetryStep ==
  ASSUME IInv, NEW c \in CertificateId, Retry(c)  PROVE IInv'
<1> DEFINE j == [worker[c] EXCEPT !.pc = "begin", !.client = NoClient]
<1>1. /\ worker[c] \in [pc : {"begin", "order", "work"}, account : AccountId,
                        order : Key \cup {None}, client : Client]
      /\ worker[c].pc # "idle" /\ issuance[c].status # "absent"
  BY RowParts DEF IInv, Retry
<1>2. /\ j \in WorkerState /\ j.account = worker[c].account /\ j.order = worker[c].order
      /\ j.client = NoClient
  BY <1>1, Absences DEF WorkerState
<1>3. worker' = [worker EXCEPT ![c] = j]
  BY DEF Retry
<1>4. WorkerInv(c) /\ NoClient.key = None
  BY DEF IInv, NoClient
<1> HIDE DEF j
<1>5. /\ j.account = issuance[c].account /\ j.order = issuance[c].order
      /\ j.client.key \in {None, account[j.account].key}
  BY <1>1, <1>2, <1>4 DEF WorkerInv
<1>6. UNCHANGED <<provider, account, certificate, issuance, call, todo, ca>>
  BY DEF Retry
<1> QED BY <1>2, <1>3, <1>5, <1>6, JobStep

\* The order an attempt takes is the account's own.
LEMMA TakeOrderStep ==
  ASSUME IInv, NEW c \in CertificateId, TakeOrder(c)  PROVE IInv'
<1> DEFINE k == worker[c].client.key
           j == [worker[c] EXCEPT !.pc = "work", !.order = k]
<1>1. /\ worker[c] \in [pc : {"begin", "order", "work"}, account : AccountId,
                        order : Key \cup {None}, client : Client]
      /\ worker[c].pc # "idle" /\ issuance[c].status # "absent"
  BY RowParts DEF IInv, TakeOrder
<1>2. k \in Key
  BY <1>1 DEF TakeOrder, Accepts, Client
<1>3. WorkerInv(c)
  BY DEF IInv
<1>4. /\ worker[c].account = issuance[c].account
      /\ k = account[issuance[c].account].key
  BY <1>1, <1>2, <1>3, Ids DEF WorkerInv
<1>5. /\ j \in WorkerState /\ j.account = worker[c].account /\ j.order = k
      /\ j.client.key = k
  BY <1>1, <1>2 DEF WorkerState
<1>6. worker' = [worker EXCEPT ![c] = j]
  BY DEF TakeOrder
<1>7. /\ issuance' \in [CertificateId -> IssuanceRow]
      /\ \A d \in CertificateId \ {c} : issuance'[d] = issuance[d]
      /\ issuance'[c].status = "unfinished" /\ issuance'[c].order = k
      /\ issuance'[c].account = issuance[c].account
      /\ issuance'[c].past = issuance[c].past
  BY <1>1, <1>2, SaveIssuanceType DEF IInv, TakeOrder
<1>8. certificate' \in [CertificateId -> CertificateRow]
  BY DEF IInv, TypeOK, TakeOrder
<1> HIDE DEF j, k
<1>9. /\ issuance[c].status # "absent" /\ issuance'[c].status # "absent"
      /\ issuance'[c].order \in {None, account[issuance[c].account].key}
  BY <1>1, <1>4, <1>7
<1>10. /\ j.account = issuance[c].account /\ j.order = issuance'[c].order
       /\ j.client.key \in {None, account[j.account].key}
  BY <1>4, <1>5, <1>7
<1>11. UNCHANGED <<provider, account, certificate, call, todo, ca>>
  BY DEF TakeOrder
<1> QED BY <1>5, <1>6, <1>7, <1>8, <1>9, <1>10, <1>11, WorkStep

LEMMA InstallStep ==
  ASSUME IInv, NEW c \in CertificateId, Install(c)  PROVE IInv'
<1> DEFINE k == worker[c].client.key
           r == [certificate[c] EXCEPT !.status = "active", !.due = FALSE, !.issuer = k]
<1>1. worker[c] \in [pc : {"begin", "order", "work"}, account : AccountId,
                     order : Key \cup {None}, client : Client]
  BY RowParts DEF IInv, Install
<1>2. k \in Key
  BY <1>1 DEF Install, Accepts, Client
<1>3. certificate[c] \in HeldCertificate /\ certificate[c].status # "absent"
  BY RowParts DEF IInv, Install, Certificates
<1>4. /\ r \in HeldCertificate /\ r.status # "absent"
      /\ r.account = certificate[c].account
  BY <1>2, <1>3 DEF HeldCertificate
<1>5. certificate' = [certificate EXCEPT ![c] = r]
  BY DEF Install
<1> HIDE DEF r
<1>6. /\ certificate' \in [CertificateId -> CertificateRow]
      /\ certificate'[c] = r
      /\ \A d \in CertificateId \ {c} : certificate'[d] = certificate[d]
  BY <1>4, <1>5 DEF IInv, TypeOK, CertificateRow
<1>7. /\ issuance' \in [CertificateId -> IssuanceRow]
      /\ \A d \in CertificateId \ {c} : issuance'[d] = issuance[d]
      /\ issuance[c].status = "absent" => issuance'[c] = issuance[c]
      /\ issuance[c].status # "absent" =>
           /\ issuance'[c].status = "succeeded" /\ issuance'[c].order = None
           /\ issuance'[c].account = issuance[c].account
           /\ issuance'[c].past = issuance[c].past
  BY SaveIssuanceType DEF IInv, Install
<1>8. NoWorker \in WorkerState /\ NoWorker.pc = "idle"
  BY Absences DEF NoWorker
<1> QED BY <1>3, <1>4, <1>6, <1>7, <1>8, WorkStep DEF Install

\* A worker that fails keeps its order or gives it up.
LEMMA FailureStep ==
  ASSUME IInv, NEW c \in CertificateId, worker[c].pc # "idle",
         NEW o \in {None, worker[c].order}, SaveIssuance(c, "failed", o),
         worker' = [worker EXCEPT ![c] = NoWorker],
         UNCHANGED <<provider, account, certificate, call, todo, ca>>
  PROVE  IInv'
<1>1. o \in Key \cup {None}
  BY RowParts DEF IInv
<1>2. /\ issuance' \in [CertificateId -> IssuanceRow]
      /\ \A d \in CertificateId \ {c} : issuance'[d] = issuance[d]
      /\ issuance[c].status = "absent" => issuance'[c] = issuance[c]
      /\ issuance[c].status # "absent" =>
           /\ issuance'[c].status = "failed" /\ issuance'[c].order = o
           /\ issuance'[c].account = issuance[c].account
           /\ issuance'[c].past = issuance[c].past
  BY <1>1, SaveIssuanceType DEF IInv
<1>3. WorkerInv(c) /\ IssuanceInv(c)
  BY DEF IInv
<1>4. issuance[c].status # "absent" => o \in {None, account[issuance[c].account].key}
  BY <1>3 DEF WorkerInv, IssuanceInv
<1>5. NoWorker \in WorkerState /\ NoWorker.pc = "idle"
  BY Absences DEF NoWorker
<1>6. certificate' \in [CertificateId -> CertificateRow]
  BY DEF IInv, TypeOK
<1> QED BY <1>2, <1>4, <1>5, <1>6, WorkStep

LEMMA ExhaustedStep ==
  ASSUME IInv, NEW c \in CertificateId, Exhausted(c)  PROVE IInv'
BY FailureStep DEF Exhausted

LEMMA FailsStep ==
  ASSUME IInv, NEW c \in CertificateId, Fails(c)  PROVE IInv'
BY FailureStep DEF Fails

-----------------------------------------------------------------------------
(* The invariant and what follows from it. *)

LEMMA InitInvariant == Init => IInv
<1> SUFFICES ASSUME Init  PROVE IInv
  OBVIOUS
<1>1. PICK d \in Directory :
        /\ provider = [p \in ProviderId |-> IF p = 1 THEN d ELSE NoDirectory]
        /\ ca = [k \in Key |-> IF k = 1 THEN [directory |-> d, status |-> "valid"]
                               ELSE [directory |-> NoDirectory, status |-> "unused"]]
  BY DEF Init
<1>2. d # NoDirectory
  BY AccountsAssumption
<1> DEFINE first == [provider |-> 1, key |-> 1, status |-> "valid"]
           row == [status |-> "active", account |-> 1, auto |-> TRUE, due |-> FALSE, issuer |-> 1]
           issued == [status |-> "succeeded", account |-> 1, order |-> None, past |-> {}]
<1>3. /\ first \in AccountRow /\ row \in CertificateRow /\ issued \in IssuanceRow
  BY Ids DEF AccountRow, CertificateRow, HeldCertificate, IssuanceRow
<1>4. /\ account = [a \in AccountId |-> IF a = 1 THEN first ELSE NoAccount]
      /\ \A c \in CertificateId : certificate[c] = row
      /\ certificate \in [CertificateId -> {row}]
      /\ issuance = [c \in CertificateId |-> issued]
      /\ worker = [c \in CertificateId |-> NoWorker]
      /\ call = [q \in Process |-> Idle]
      /\ todo = {}
  BY DEF Init
<1>5. first.status # "absent" /\ first.provider = 1 /\ NoAccount.status = "absent"
  BY DEF NoAccount
<1> HIDE DEF first
<1>6. TypeOK
  BY <1>1, <1>3, <1>4, Absences DEF TypeOK
<1>7. Accounts = {1} /\ account[1] = first /\ 1 \in Providers
  BY <1>1, <1>2, <1>4, <1>5, Ids DEF Accounts, Providers
<1>8. ReferencesInv
  BY <1>4, <1>5, <1>7 DEF ReferencesInv, Certificates
<1>9. \A c \in CertificateId : IssuanceInv(c) /\ WorkerInv(c)
  BY <1>4 DEF IssuanceInv, WorkerInv, NoWorker
<1> QED BY <1>6, <1>8, <1>9 DEF IInv

LEMMA ServeStep ==
  ASSUME IInv, NEW q \in Caller, Serve(q)  PROVE IInv'
<1>1. q \in Process
  BY DEF Process
<1>2. CASE \E p \in ProviderId : ReadProvider(q, p)
  BY <1>1, <1>2, ReadProviderStep
<1>3. CASE Register(q) \/ CreateAccount(q)
  BY <1>1, <1>3, RegisterStep, CreateAccountStep
<1>4. CASE \E a \in AccountId : ReadAccount(q, a)
  BY <1>1, <1>4, ReadAccountStep
<1>5. CASE Deactivate(q) \/ UpdateAccountStatus(q)
  BY <1>1, <1>5, DeactivateStep, UpdateAccountStatusStep
<1>6. CASE \E c \in CertificateId, a \in AccountId, b \in BOOLEAN : ReadSettings(q, c, a, b)
  BY <1>1, <1>6, ReadSettingsStep
<1>7. CASE \E c \in CertificateId : ReadActive(q, c) \/ ListFinished(q, c) \/ Renew(q, c)
  BY <1>1, <1>7, ReadActiveStep, ListFinishedStep, RenewStep
<1>8. CASE RevokeCert(q) \/ SaveCopy(q) \/ Delete(q)
  BY <1>1, <1>8, RevokeCertStep, SaveCopyStep, DeleteStep
<1>9. CASE StartIssuance(q) \/ GiveUp(q)
  BY <1>1, <1>9, StartIssuanceStep, GiveUpStep
<1> QED BY <1>2, <1>3, <1>4, <1>5, <1>6, <1>7, <1>8, <1>9 DEF Serve

LEMMA NextInvariant == IInv /\ [Next]_vars => IInv'
<1> SUFFICES ASSUME IInv, [Next]_vars  PROVE IInv'
  OBVIOUS
<1>1. CASE \E q \in Caller : Serve(q)
  BY <1>1, ServeStep
<1>2. CASE Administer
  BY <1>2, CreateProviderStep, DeleteProviderStep, DeleteAccountStep DEF Administer
<1>3. CASE RunAutoRenew
  <2>1. AutoRenewal \in Process
    BY DEF Process
  <2> QED BY <1>3, <2>1, ListDueStep, RenewDueStep, StartIssuanceStep DEF RunAutoRenew
<1>4. CASE \E c \in CertificateId : Work(c)
  BY <1>4, BindAccountStep, TakeOrderStep, InstallStep, RetryStep, ExhaustedStep, FailsStep DEF Work
<1>5. CASE \E c \in CertificateId : Expire(c)
  BY <1>5, ExpireStep
<1>6. CASE UNCHANGED vars
  BY <1>6, QuietStep DEF vars, Rows, IInv, TypeOK
<1> QED BY <1>1, <1>2, <1>3, <1>4, <1>5, <1>6 DEF Next

\* The invariant holds in every reachable state.
THEOREM Invariance == Spec => []IInv
BY InitInvariant, NextInvariant, PTL DEF Spec

\* Every variable keeps its type, and a call the kind of row it works on.
THEOREM TypeCorrect == Spec => []TypeOK
<1>1. IInv => TypeOK
  BY DEF IInv
<1> QED BY <1>1, Invariance, PTL

\* No attempt signs with another account than the one that holds its order.
THEOREM SignsAsOwner == Spec => []SignedByOwner
<1>1. IInv => SignedByOwner
  BY DEF IInv, SignedByOwner, WorkerInv, IssuanceInv, TypeOK, WorkerState, NoWorker, NoClient
<1> QED BY <1>1, Invariance, PTL

\* An order that may be gone on with keeps its account from being deleted.
THEOREM OrderIsKept == Spec => []OrderKeepsAccount
<1>1. IInv => OrderKeepsAccount
  <2> SUFFICES ASSUME IInv, NEW c \in CertificateId, issuance[c].order # None
               PROVE  \E a \in Accounts : account[a].key = issuance[c].order
    BY DEF OrderKeepsAccount
  <2>1. issuance[c].status # "absent"
    BY DEF IInv, TypeOK, IssuanceRow, NoIssuance
  <2>2. issuance[c].account \in Accounts
    BY <2>1 DEF IInv, ReferencesInv
  <2> QED BY <2>2 DEF IInv, IssuanceInv
<1> QED BY <1>1, Invariance, PTL
=============================================================================
