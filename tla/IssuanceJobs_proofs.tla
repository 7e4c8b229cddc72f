---------------------- MODULE IssuanceJobs_proofs ----------------------
(***************************************************************************)
(* Machine-checked proofs about what a job of Issuance does besides the    *)
(* order it fulfils: the challenge answers it publishes and withdraws      *)
(* (ChallengeInv), the status it leaves behind (JobInv), the order it passes *)
(* on with a key (RetryRecoversOrder) and the row of that order (RecordInv). *)
(* Each is inductive on top of IInv, which Issuance_proofs shows to hold.  *)
(* The last part shows that every step of a job brings it closer to its end *)
(* or to one of the few places it starts again from (GoesForward).         *)
(***************************************************************************)
EXTENDS Issuance_proofs

-----------------------------------------------------------------------------
(* What the steps of a worker leave alone. *)

LEMMA ConfirmedKeeps ==
  ASSUME NEW r \in Row
  PROVE  /\ \A x : [r EXCEPT !.status = x].confirmed = r.confirmed
         /\ \A x : [r EXCEPT !.order = x].confirmed = r.confirmed
         /\ \A x : [r EXCEPT !.attempts = x].confirmed = r.confirmed
         /\ \A x, y : [r EXCEPT !.status = x, !.attempts = y].confirmed = r.confirmed
         /\ \A x, y : [r EXCEPT !.status = x, !.key = y].confirmed = r.confirmed
         /\ \A x, y : [r EXCEPT !.status = x, !.confirmed = y].confirmed = y
  BY DEF Row

\* A worker that takes a step exists, and the service goes on.
LEMMA StepRuns ==
  ASSUME NEW i \in Id, Step(i)
  PROVE  pc[i] # "idle" /\ UNCHANGED <<service, starting>>
<1> DEFINE Runs == pc[i] # "idle" /\ UNCHANGED <<service, starting>>
<1>1. ASSUME TimerFires(i) \/ BeginAttempt(i)  PROVE Runs
  BY <1>1 DEF TimerFires, BeginAttempt
<1>2. ASSUME StepFails(i)  PROVE Runs
  BY <1>2 DEF StepFails, NetworkSteps, StoreSteps
<1>3. ASSUME Returned(i) \/ SaveAndStop(i) \/ Exit(i)  PROVE Runs
  BY <1>3 DEF Returned, SaveAndStop, Exit
<1>4. ASSUME CreateOrder(i) \/ PersistOrder(i) \/ GetOrder(i) \/ RecordOrder(i)  PROVE Runs
  BY <1>4 DEF CreateOrder, PersistOrder, GetOrder, RecordOrder
<1>5. ASSUME GetAuthorization(i) \/ Present(i) \/ AskOperator(i) \/ CheckDNS(i)  PROVE Runs
  BY <1>5 DEF GetAuthorization, Present, AskOperator, CheckDNS
<1>6. ASSUME ConfirmDNS(i) \/ CompleteChallenge(i) \/ WaitAuthorization(i)  PROVE Runs
  BY <1>6 DEF ConfirmDNS, CompleteChallenge, WaitAuthorization
<1>7. ASSUME SubmitCSR(i) \/ WaitOrder(i) \/ Download(i) \/ Install(i)  PROVE Runs
  BY <1>7 DEF SubmitCSR, WaitOrder, Download, Install
<1> QED
  BY <1>1, <1>2, <1>3, <1>4, <1>5, <1>6, <1>7 DEF Step

\* A worker publishes the answer of its own order, or withdraws it.
Publishes(i) ==
    /\ pc[i] = "present" /\ pc'[i] = "answer" /\ Solver # "manual"
    /\ served' = served \cup {mem[i].order}
    /\ cleanups' = [cleanups EXCEPT ![i] = TRUE]
    /\ UNCHANGED <<row, mem>>

Withdraws(i) ==
    /\ Cleanup(i) /\ UNCHANGED row
    /\ pc'[i] \in {"publish", "idle"}

LEMMA StepServes ==
  ASSUME TypeOK, NEW i \in Id, Step(i)
  PROVE  UNCHANGED <<served, cleanups>> \/ Publishes(i) \/ Withdraws(i)
<1> pc \in [Id -> Label]
  BY DEF TypeOK
<1> DEFINE Serves == UNCHANGED <<served, cleanups>> \/ Publishes(i) \/ Withdraws(i)
<1>1. ASSUME TimerFires(i) \/ BeginAttempt(i) \/ StepFails(i)  PROVE Serves
  BY <1>1 DEF TimerFires, BeginAttempt, StepFails
<1>2. ASSUME Returned(i)  PROVE Serves
  <2>1. CASE UNCHANGED <<served, cleanups>>
    BY <2>1
  <2>2. ASSUME NEW status, NEW kind, Finish(i, status, kind)  PROVE Serves
    BY <2>2 DEF Finish, Goto, Withdraws
  <2> QED BY <1>2, <2>1, <2>2 DEF Returned, ScheduleRetry
<1>3. ASSUME Exit(i)  PROVE Serves
  BY <1>3 DEF Exit, Goto, Withdraws, storeVars
<1>4. ASSUME Present(i)  PROVE Serves
  BY <1>4 DEF Present, Goto, Publishes, storeVars
<1>5. ASSUME SaveAndStop(i) \/ CreateOrder(i) \/ PersistOrder(i) \/ GetOrder(i)  PROVE Serves
  BY <1>5 DEF SaveAndStop, CreateOrder, PersistOrder, GetOrder
<1>6. ASSUME RecordOrder(i) \/ GetAuthorization(i) \/ AskOperator(i) \/ CheckDNS(i)  PROVE Serves
  BY <1>6 DEF RecordOrder, GetAuthorization, AskOperator, CheckDNS
<1>7. ASSUME ConfirmDNS(i) \/ CompleteChallenge(i) \/ WaitAuthorization(i)  PROVE Serves
  BY <1>7 DEF ConfirmDNS, CompleteChallenge, WaitAuthorization
<1>8. ASSUME SubmitCSR(i) \/ WaitOrder(i) \/ Download(i) \/ Install(i)  PROVE Serves
  BY <1>8 DEF SubmitCSR, WaitOrder, Download, Install
<1> QED
  BY <1>1, <1>2, <1>3, <1>4, <1>5, <1>6, <1>7, <1>8 DEF Step

\* Where a worker goes before and while its challenges are answered.
Answers == {"ask", "await", "check", "confirm", "answer", "validate"}

MovesOn(i) ==
    \/ pc'[i] \notin Answers \cup {"idle", "publish"}
    \/ pc[i] = "present" /\ pc'[i] = "ask" /\ Solver = "manual"
    \/ /\ pc[i] = "present" /\ pc'[i] = "answer"
       /\ IF Solver = "manual" THEN mem[i].confirmed ELSE cleanups'[i]
    \/ pc[i] = "answer" /\ pc'[i] = "validate" /\ UNCHANGED cleanups

LEMMA StepMovesOn ==
  ASSUME TypeOK, NEW i \in Id, Step(i)
  PROVE  Writes(i) \/ (UNCHANGED <<row, mem>> /\ MovesOn(i))
<1> pc \in [Id -> Label] /\ cleanups \in [Id -> BOOLEAN]
  BY DEF TypeOK
<1> DEFINE On == UNCHANGED <<row, mem>> /\ MovesOn(i)
<1>1. ASSUME pc'[i] = "returned", UNCHANGED <<row, mem>>  PROVE On
  BY <1>1 DEF MovesOn, Answers
<1>2. ASSUME StepFails(i)  PROVE On
  BY <1>1, <1>2 DEF StepFails, Return, Goto
<1>3. ASSUME GetOrder(i) \/ RecordOrder(i) \/ GetAuthorization(i)  PROVE On
  BY <1>3 DEF MovesOn, Answers, GetOrder, RecordOrder, GetAuthorization, Goto, storeVars
<1>4. ASSUME Present(i)  PROVE On
  BY <1>4 DEF MovesOn, Present, Goto, storeVars
<1>5. ASSUME CompleteChallenge(i)  PROVE On
  BY <1>1, <1>5 DEF MovesOn, CompleteChallenge, Return, Goto
<1>6. ASSUME WaitAuthorization(i) \/ WaitOrder(i) \/ Download(i) \/ Install(i)  PROVE On
  BY <1>6 DEF MovesOn, Answers, WaitAuthorization, WaitOrder, Download, Install, Return, Goto
<1>7. ASSUME SubmitCSR(i)  PROVE On
  BY <1>1, <1>7 DEF MovesOn, Answers, SubmitCSR, Return, Goto
<1> QED
  BY <1>2, <1>3, <1>4, <1>5, <1>6, <1>7 DEF Step, Writes

-----------------------------------------------------------------------------
(* The challenges of a job. *)

LEMMA ChallengeStep ==
  ASSUME IInv, IInv', NEW i \in Id, Challenge(i), Step(i)
  PROVE  Challenge(i)'
<1> /\ TypeOK /\ mem[i] \in Row /\ row[i] \in Row /\ mem \in [Id -> Row] /\ row \in [Id -> Row]
    /\ pc \in [Id -> Label] /\ cleanups \in [Id -> BOOLEAN]
    /\ OwnsRow(i) /\ OwnsRow(i)' /\ OrderSaved(i) /\ OrderSaved(i)'
  BY DEF IInv, TypeOK, WorkerInv
<1>1. pc[i] # "idle" /\ service # "down" /\ service' = service
      /\ mem[i].confirmed = row[i].confirmed
  BY StepRuns DEF Challenge
\* Where the worker is decides what it may still have to withdraw and to confirm.
<1>2. ASSUME pc'[i] \notin Answers \cup {"idle", "publish"}, UNCHANGED cleanups,
             cleanups[i] => row'[i].status \in Unfinished,
             mem'[i].order = mem[i].order \/ mem[i].order = NoOrder,
             mem'[i].confirmed = row'[i].confirmed
      PROVE  Challenge(i)'
  BY <1>1, <1>2 DEF Challenge, Answers
<1>3. ASSUME UNCHANGED <<row, mem>>, MovesOn(i)  PROVE Challenge(i)'
  <2>1. UNCHANGED cleanups \/ Publishes(i) \/ (cleanups'[i] = FALSE /\ pc'[i] \in {"publish", "idle"})
    BY StepServes DEF Withdraws, Cleanup
  <2>2. CASE Publishes(i)
    BY <1>1, <1>3, <2>2 DEF Publishes, Challenge, OwnsRow, OrderSaved, Recorded
  <2>3. CASE UNCHANGED cleanups
    BY <1>1, <1>3, <2>3 DEF MovesOn, Answers, Challenge
  <2> QED BY <1>3, <2>1, <2>2, <2>3 DEF MovesOn, Answers
<1>4. ASSUME TimerFires(i)  PROVE Challenge(i)'
  <2>1. mem'[i].order = mem[i].order /\ mem'[i].confirmed = mem[i].confirmed
    BY <1>4, RowKeeps, ConfirmedKeeps DEF TimerFires
  <2> QED BY <1>1, <1>2, <1>4, <2>1 DEF TimerFires, Goto, storeVars, Answers, Challenge
<1>5. ASSUME BeginAttempt(i)  PROVE Challenge(i)'
  <2>1. /\ mem'[i].order = mem[i].order /\ mem'[i].confirmed = mem[i].confirmed
        /\ row'[i] \in {mem'[i], row[i]} /\ mem'[i].status = "running"
        /\ pc'[i] \in {"create", "get", "returned"}
    BY <1>5, RowKeeps, ConfirmedKeeps DEF BeginAttempt, SaveRow, Goto, Return
  <2>2. UNCHANGED cleanups
    BY <1>5 DEF BeginAttempt
  <2> QED BY <1>1, <1>2, <2>1, <2>2 DEF Answers, Challenge, Unfinished
<1>6. ASSUME Returned(i)  PROVE Challenge(i)'
  <2>1. pc[i] = "returned"
    BY <1>6 DEF Returned
  <2>2. ASSUME NEW status, NEW kind, Finish(i, status, kind)  PROVE Challenge(i)'
    <3>1. mem'[i].confirmed = mem[i].confirmed /\ UNCHANGED row
      BY <2>2, RowKeeps, ConfirmedKeeps DEF Finish
    <3>2. pc'[i] = "publish" /\ cleanups'[i] = FALSE
      BY <2>2 DEF Finish, Goto, Cleanup
    <3> QED BY <1>1, <3>1, <3>2 DEF Challenge
  <2>3. CASE Goto(i, "checkpoint") /\ UNCHANGED <<row, mem, cleanups>>
    BY <1>1, <1>2, <2>3 DEF Goto, Answers, Challenge
  <2>4. CASE ScheduleRetry(i)
    <3>1. /\ mem'[i].order = mem[i].order /\ mem'[i].confirmed = mem[i].confirmed
          /\ row'[i] \in {mem'[i], row[i]} /\ mem'[i].status = "retrying"
          /\ pc'[i] \in {"timer", "exit"} /\ UNCHANGED cleanups
      BY <2>4, RowKeeps, ConfirmedKeeps DEF ScheduleRetry, SaveRow, Goto
    <3> QED BY <1>1, <1>2, <3>1 DEF Answers, Challenge, Unfinished
  <2> QED BY <1>6, <2>2, <2>3, <2>4 DEF Returned
<1>7. ASSUME SaveAndStop(i)  PROVE Challenge(i)'
  <2>1. /\ pc[i] \in {"publish", "checkpoint"} /\ pc'[i] = "exit" /\ UNCHANGED <<mem, cleanups>>
        /\ row'[i] \in {mem[i], row[i]}
    BY <1>7 DEF SaveAndStop, Goto, MaySaveRow, SaveRow
  <2> QED BY <1>1, <1>2, <2>1 DEF Answers, Challenge, OwnsRow
<1>8. ASSUME Exit(i)  PROVE Challenge(i)'
  BY <1>1, <1>8 DEF Exit, Goto, Cleanup, Challenge
<1>9. ASSUME CreateOrder(i)  PROVE Challenge(i)'
  <2>1. /\ mem[i].order = NoOrder /\ pc'[i] \in {"persist", "returned"}
        /\ UNCHANGED <<row, cleanups>>
    BY <1>9 DEF CreateOrder, OrderSaved, Goto, Return
  <2>2. mem'[i].confirmed = mem[i].confirmed
    <3>1. PICK o \in Offered(i) : UNCHANGED mem \/ mem' = [mem EXCEPT ![i].order = o]
      BY <1>9, Zenon DEF CreateOrder
    <3>2. mem'[i] = mem[i] \/ mem'[i] = [mem[i] EXCEPT !.order = o]
      BY <3>1
    <3>3. [mem[i] EXCEPT !.order = o].confirmed = mem[i].confirmed
      BY ConfirmedKeeps
    <3> QED BY <3>2, <3>3
  <2> QED BY <1>1, <1>2, <2>1, <2>2 DEF Answers, Challenge
<1>10. ASSUME PersistOrder(i)  PROVE Challenge(i)'
  <2>1. /\ pc[i] = "persist" /\ pc'[i] \in {"record", "returned"} /\ UNCHANGED <<mem, cleanups>>
        /\ row'[i] \in {mem[i], row[i]}
    BY <1>10 DEF PersistOrder, Goto, SaveRow, Return
  <2> QED BY <1>1, <1>2, <2>1 DEF Answers, Challenge, OwnsRow
<1>11. ASSUME AskOperator(i) \/ CheckDNS(i)  PROVE Challenge(i)'
  <2>1. /\ mem'[i].order = mem[i].order /\ mem'[i].confirmed = mem[i].confirmed
        /\ row'[i] = mem'[i] /\ mem'[i].status \in {"waiting", "running"}
    <3>1. /\ \E x \in {"waiting", "running"} : mem'[i] = [mem[i] EXCEPT !.status = x]
          /\ row'[i] = mem'[i]
      BY <1>11 DEF AskOperator, CheckDNS, SaveRow
    <3> QED BY <3>1, RowKeeps, ConfirmedKeeps
  <2>2. /\ pc[i] \in {"ask", "check"} /\ pc'[i] \in {"ask", "await", "confirm"} /\ UNCHANGED cleanups
    BY <1>11 DEF AskOperator, CheckDNS, Goto
  <2> QED BY <1>1, <2>1, <2>2 DEF Challenge, Unfinished
<1>12. ASSUME ConfirmDNS(i)  PROVE Challenge(i)'
  <2>1. /\ mem'[i].order = mem[i].order /\ mem'[i].confirmed = TRUE
        /\ row'[i] = mem'[i] /\ mem'[i].status = "running"
    BY <1>12, RowKeeps, ConfirmedKeeps DEF ConfirmDNS, SaveRow
  <2>2. pc[i] = "confirm" /\ pc'[i] = "answer" /\ UNCHANGED cleanups
    BY <1>12 DEF ConfirmDNS, Goto
  <2> QED BY <1>1, <2>1, <2>2 DEF Challenge, Unfinished
<1> QED
  BY <1>3, <1>4, <1>5, <1>6, <1>7, <1>8, <1>9, <1>10, <1>11, <1>12, StepMovesOn DEF Writes

\* An issuance whose job, row and memory stay the same keeps its challenges.
LEMMA ChallengeFrame ==
  ASSUME NEW j \in Id, Challenge(j), service' # "down" \/ service' = service,
         row'[j] = row[j], mem'[j] = mem[j], pc'[j] = pc[j], cleanups'[j] = cleanups[j]
  PROVE  Challenge(j)'
  BY DEF Challenge

\* The steps of the service, the CA and the calls that touch no job, and those of
\* the process, which touch every one.
Outside ==
    /\ UNCHANGED <<row, record, mem, pc, seen, err, cleanups, served>>
    /\ service' \in {service, "closing"}
    /\ starting' = starting \/ service = "up" \/ \A q \in Request : starting'[q] \in {starting[q], Absent}

LEMMA NextJobs ==
  ASSUME TypeOK, [Next]_vars
  PROVE  \/ \E i \in Id : Step(i)
         \/ \E q \in Request : CreateIssuance(q)
         \/ \E i \in Id, force \in BOOLEAN : ContinueIssuance(i, force)
         \/ Crash \/ NewService \/ Closed \/ Outside
<1>1. ASSUME NEW i \in Id, CancelIssuance(i)  PROVE Outside
  BY <1>1 DEF Outside, CancelIssuance, storeVars
<1>2. ASSUME NEW q \in Request, NEW same \in BOOLEAN, ListPrevious(q, same)  PROVE Outside
  BY <1>2 DEF Outside, ListPrevious, storeVars, jobVars
<1>3. ASSUME NEW q \in Request, StartFails(q)  PROVE Outside
  BY <1>3 DEF Outside, StartFails, storeVars, jobVars, TypeOK
<1>4. CASE Close
  BY <1>4 DEF Outside, Close, storeVars, jobVars
<1>5. ASSUME NEW o \in Orders, CAValidates(o)  PROVE Outside
  BY <1>5 DEF Outside, CAValidates, storeVars, jobVars
<1>6. ASSUME NEW o \in Orders, CAAdvances(o)  PROVE Outside
  BY <1>6 DEF Outside, CAAdvances, storeVars, jobVars
<1>7. CASE UNCHANGED vars
  BY <1>7 DEF Outside, vars, storeVars, jobVars
<1>8. ASSUME NEW o \in Orders, DeliverLate(o)  PROVE Outside
  BY <1>8 DEF Outside, DeliverLate, storeVars, jobVars
<1> QED
  BY <1>1, <1>2, <1>3, <1>4, <1>5, <1>6, <1>7, <1>8 DEF Next

\* The challenges of every job, and what is served, along every step.
LEMMA ChallengesKept ==
  ASSUME IInv, IInv', [Next]_vars, NEW j \in Id, ChallengeInv
  PROVE  Challenge(j)'
<1> /\ TypeOK /\ Challenge(j) /\ OwnsRow(j) /\ pc \in [Id -> Label] /\ cleanups \in [Id -> BOOLEAN]
    /\ row \in [Id -> Row] /\ mem \in [Id -> Row]
  BY DEF IInv, TypeOK, WorkerInv, ChallengeInv
<1>1. ASSUME NEW i \in Id, Step(i)  PROVE Challenge(j)'
  <2>1. CASE j = i
    BY <1>1, <2>1, ChallengeStep
  <2>2. CASE j # i
    <3>1. cleanups'[j] = cleanups[j]
      BY <1>1, <2>2, StepServes DEF Publishes, Withdraws, Cleanup
    <3> QED BY <1>1, <2>2, <3>1, StepRuns, StepIsLocal, ChallengeFrame
  <2> QED BY <2>1, <2>2
<1>2. ASSUME NEW q \in Request, CreateIssuance(q)  PROVE Challenge(j)'
  <2>1. PICK i \in Id : Inserted(Target[q], i)
    BY <1>2, StartRow
  <2>2. UNCHANGED <<service, cleanups>>
    BY <1>2 DEF CreateIssuance
  <2>3. service # "down"
    BY <1>2 DEF CreateIssuance, ChallengeInv
  <2>4. CASE j = i
    <3>1. ~cleanups[j]
      BY <2>1, <2>4, AbsentFields DEF Inserted, Challenge, OwnsRow
    <3> QED BY <2>1, <2>2, <2>3, <2>4, <3>1 DEF Inserted, Challenge
  <2>5. CASE j # i
    BY <2>1, <2>2, <2>5, ChallengeFrame DEF Inserted
  <2> QED BY <2>4, <2>5
<1>3. ASSUME NEW i \in Id, NEW force \in BOOLEAN, ContinueIssuance(i, force)  PROVE Challenge(j)'
  <2>1. UNCHANGED <<row, mem, cleanups, service>>
    BY <1>3 DEF ContinueIssuance, storeVars
  <2>2. pc'[j] = pc[j] \/ (pc[j] = "await" /\ pc'[j] \in {"check", "confirm"})
    BY <1>3 DEF ContinueIssuance, Goto
  <2> QED BY <2>1, <2>2 DEF Challenge
<1>4. CASE Crash
  BY <1>4 DEF Crash, Challenge
<1>5. CASE NewService
  <2>1. /\ pc[j] = "idle" /\ service' = "up" /\ ~cleanups'[j]
        /\ pc'[j] \in {"idle", "timer", "begin"} /\ (pc'[j] # "idle" => mem'[j] = row[j])
    BY <1>5 DEF NewService, Challenge
  <2>2. pc'[j] # "idle" => row'[j] = row[j]
    BY <1>5 DEF NewService
  <2> QED BY <2>1, <2>2 DEF Challenge
<1>6. CASE Closed
  BY <1>6 DEF Closed, Challenge, storeVars, jobVars
<1>7. CASE Outside
  BY <1>7, ChallengeFrame DEF Outside
<1> QED
  BY <1>1, <1>2, <1>3, <1>4, <1>5, <1>6, <1>7, NextJobs

LEMMA InitChallenge ==
  Init => ChallengeInv
<1> SUFFICES ASSUME Init  PROVE ChallengeInv
  OBVIOUS
<1>1. /\ \A i \in Id : pc[i] = "idle" /\ cleanups[i] = FALSE
      /\ served = {} /\ \A q \in Request : starting[q] = Absent
  BY DEF Init
<1> QED BY <1>1 DEF ChallengeInv, Challenge, ServedUntilStop, NoStaleChallenge

\* While the process is down no call is under way.
LEMMA DownKept ==
  ASSUME TypeOK, [Next]_vars, ChallengeInv, service' = "down", NEW q \in Request
  PROVE  starting'[q] = Absent
<1>1. ASSUME NEW i \in Id, Step(i)  PROVE starting'[q] = Absent
  BY <1>1, StepRuns DEF ChallengeInv
<1>2. ASSUME NEW p \in Request, CreateIssuance(p)  PROVE FALSE
  BY <1>2 DEF CreateIssuance, ChallengeInv
<1>3. ASSUME NEW i \in Id, NEW force \in BOOLEAN, ContinueIssuance(i, force)  PROVE starting'[q] = Absent
  BY <1>3 DEF ContinueIssuance, ChallengeInv
<1>4. CASE Crash
  BY <1>4 DEF Crash
<1>5. CASE NewService
  BY <1>5 DEF NewService
<1>6. CASE Closed
  BY <1>6 DEF Closed
<1>7. CASE Outside
  BY <1>7 DEF Outside, ChallengeInv
<1> QED
  BY <1>1, <1>2, <1>3, <1>4, <1>5, <1>6, <1>7, NextJobs

\* Two jobs never fulfil the same order, if no two certificates cover the same
\* domains.
LEMMA WorkersApart ==
  ASSUME IInv, ExclusiveNames, NEW i \in Id, NEW j \in Id \ {i},
         \A k \in {i, j} : pc[k] # "idle" /\ row[k].status \in Unfinished /\ mem[k].order # NoOrder
  PROVE  mem[i].order # mem[j].order
<1>1. ASSUME NEW k \in {i, j}
      PROVE  /\ row[k].status \in Unfinished /\ row[k].cert \in Cert
             /\ order[mem[k].order].names = Names[row[k].cert]
  <2>1. k \in Id /\ OwnsRow(k) /\ NamesOrder(k)
    BY DEF IInv, WorkerInv
  <2>2. mem[k].cert = row[k].cert /\ mem[k].cert \in Cert
    BY <2>1, WorkerCert DEF OwnsRow
  <2> QED BY <2>1, <2>2 DEF NamesOrder
<1>2. row[i].cert # row[j].cert
  BY <1>1, IdOrder DEF IInv, RowsInOrder, Superseded
<1> QED BY <1>1, <1>2 DEF ExclusiveNames, Exclusive

LEMMA OrdersApart ==
  ASSUME IInv, ChallengeInv, ExclusiveNames,
         NEW i \in Id, NEW j \in Id \ {i}, cleanups[i], cleanups[j]
  PROVE  mem[i].order # mem[j].order
<1>1. \A k \in {i, j} : pc[k] # "idle" /\ row[k].status \in Unfinished /\ mem[k].order # NoOrder
  BY DEF ChallengeInv, Challenge
<1> QED BY <1>1, WorkersApart

\* A worker that has an order remembers it until it leaves.
LEMMA StepRemembers ==
  ASSUME IInv, NEW i \in Id, Step(i), mem[i].order # NoOrder, pc'[i] # "idle"
  PROVE  mem'[i].order = mem[i].order
<1> /\ TypeOK /\ mem[i] \in Row /\ mem \in [Id -> Row] /\ pc \in [Id -> Label] /\ OrderSaved(i)
  BY DEF IInv, TypeOK, WorkerInv
<1> DEFINE Kept == mem'[i].order = mem[i].order
<1>1. ASSUME TimerFires(i)  PROVE Kept
  BY <1>1, RowKeeps DEF TimerFires
<1>2. ASSUME BeginAttempt(i)  PROVE Kept
  BY <1>2, RowKeeps DEF BeginAttempt
<1>3. ASSUME Returned(i)  PROVE Kept
  <2>1. CASE UNCHANGED mem
    BY <2>1
  <2>2. CASE ScheduleRetry(i)
    BY <2>2, RowKeeps DEF ScheduleRetry
  <2>3. ASSUME NEW status, NEW kind, Finish(i, status, kind)  PROVE Kept
    BY <2>3, RowKeeps DEF Finish
  <2> QED BY <1>3, <2>1, <2>2, <2>3 DEF Returned
<1>4. ASSUME SaveAndStop(i) \/ PersistOrder(i)  PROVE Kept
  BY <1>4 DEF SaveAndStop, PersistOrder
<1>5. ~Exit(i) /\ ~CreateOrder(i)
  BY DEF Exit, Goto, CreateOrder, OrderSaved
<1>6. ASSUME AskOperator(i)  PROVE Kept
  BY <1>6, RowKeeps DEF AskOperator
<1>7. ASSUME CheckDNS(i)  PROVE Kept
  BY <1>7, RowKeeps DEF CheckDNS
<1>8. ASSUME ConfirmDNS(i)  PROVE Kept
  BY <1>8, RowKeeps DEF ConfirmDNS
<1>9. ASSUME UNCHANGED mem  PROVE Kept
  BY <1>9
<1> QED
  BY <1>1, <1>2, <1>3, <1>4, <1>5, <1>6, <1>7, <1>8, <1>9, StepMovesOn DEF Writes

\* What has to be withdrawn before a step and after it belongs to the same order.
LEMMA CleanupOrder ==
  ASSUME IInv, [Next]_vars, ChallengeInv, NEW j \in Id, Challenge(j)',
         cleanups[j], cleanups'[j]
  PROVE  mem'[j].order = mem[j].order
<1>1. /\ TypeOK /\ Challenge(j) /\ OwnsRow(j)
      /\ pc[j] # "idle" /\ pc'[j] # "idle" /\ mem[j].order # NoOrder
      /\ row[j].status \in Unfinished /\ service # "down"
  BY DEF ChallengeInv, Challenge, IInv, WorkerInv
<1>2. ASSUME NEW i \in Id, Step(i)  PROVE mem'[j].order = mem[j].order
  BY <1>1, <1>2, StepIsLocal, StepRemembers
<1>3. ASSUME NEW q \in Request, CreateIssuance(q)  PROVE mem'[j] = mem[j]
  <2>1. PICK i \in Id : Inserted(Target[q], i)
    BY <1>3, StartRow
  <2> QED BY <1>1, <2>1, AbsentFields DEF Inserted, Unfinished
<1>4. ASSUME NEW i \in Id, NEW force \in BOOLEAN, ContinueIssuance(i, force)
      PROVE  mem'[j] = mem[j]
  BY <1>4 DEF ContinueIssuance
<1>5. CASE Crash \/ NewService
  BY <1>1, <1>5 DEF Crash, NewService
<1>6. CASE Closed \/ Outside
  BY <1>6 DEF Closed, Outside, jobVars
<1> QED
  BY <1>1, <1>2, <1>3, <1>4, <1>5, <1>6, NextJobs

\* What is served, and what has to be withdrawn, changes with a worker's own steps
\* and is lost when the process dies.
LEMMA ServedStep ==
  ASSUME IInv, [Next]_vars, ChallengeInv
  PROVE  \/ UNCHANGED <<served, cleanups>>
         \/ \E i \in Id : Publishes(i) \/ Withdraws(i)
         \/ /\ \A i \in Id : ~cleanups'[i]
            /\ Solver # "provider" => served' = {}
<1> TypeOK
  BY DEF IInv
<1>1. ASSUME NEW q \in Request, CreateIssuance(q)  PROVE UNCHANGED <<served, cleanups>>
  BY <1>1 DEF CreateIssuance
<1>2. ASSUME NEW i \in Id, NEW force \in BOOLEAN, ContinueIssuance(i, force)
      PROVE  UNCHANGED <<served, cleanups>>
  BY <1>2 DEF ContinueIssuance
<1>3. CASE NewService \/ Closed \/ Outside
  BY <1>3 DEF NewService, Closed, Outside, jobVars
<1>4. CASE Crash
  BY <1>4 DEF Crash
<1> QED
  BY <1>1, <1>2, <1>3, <1>4, StepServes, NextJobs

LEMMA ServedKept ==
  ASSUME IInv, [Next]_vars, ChallengeInv, ExclusiveNames, \A j \in Id : Challenge(j)'
  PROVE  ServedUntilStop'
<1> SUFFICES ASSUME NEW j \in Id, cleanups'[j]  PROVE mem'[j].order \in served'
  BY DEF ServedUntilStop
<1>1. /\ TypeOK /\ cleanups \in [Id -> BOOLEAN] /\ ServedUntilStop
      /\ cleanups[j] => mem'[j].order = mem[j].order /\ mem[j].order \in served
  BY CleanupOrder DEF IInv, TypeOK, ChallengeInv, ServedUntilStop
<1>2. CASE UNCHANGED <<served, cleanups>>
  BY <1>1, <1>2
<1>3. ASSUME NEW i \in Id, Publishes(i)  PROVE mem'[j].order \in served'
  BY <1>1, <1>3 DEF Publishes
<1>4. ASSUME NEW i \in Id, Withdraws(i)  PROVE mem'[j].order \in served'
  <2>1. j # i /\ cleanups[j]
    BY <1>1, <1>4 DEF Withdraws, Cleanup
  <2>2. cleanups[i] => mem[j].order # mem[i].order
    BY <2>1, OrdersApart
  <2> QED BY <1>1, <1>4, <2>1, <2>2 DEF Withdraws, Cleanup
<1> QED BY <1>2, <1>3, <1>4, ServedStep

LEMMA StaleKept ==
  ASSUME IInv, [Next]_vars, ChallengeInv, Solver # "provider", \A j \in Id : Challenge(j)'
  PROVE  NoStaleChallenge'
<1> SUFFICES ASSUME NEW o \in served'
             PROVE  \E j \in Id : cleanups'[j] /\ mem'[j].order = o
  BY DEF NoStaleChallenge, Challenge
<1>1. /\ TypeOK /\ cleanups \in [Id -> BOOLEAN] /\ NoStaleChallenge
  BY DEF IInv, TypeOK, ChallengeInv
<1>2. ASSUME NEW j \in Id, cleanups[j], cleanups'[j]  PROVE mem'[j].order = mem[j].order
  BY <1>2, CleanupOrder
<1>3. ASSUME o \in served
      PROVE  \E j \in Id : cleanups[j] /\ mem[j].order = o
  BY <1>1, <1>3 DEF NoStaleChallenge
<1>4. CASE UNCHANGED <<served, cleanups>>
  BY <1>2, <1>3, <1>4
<1>5. ASSUME NEW i \in Id, Publishes(i)  PROVE \E j \in Id : cleanups'[j] /\ mem'[j].order = o
  <2>1. CASE o = mem[i].order
    BY <1>1, <1>5, <2>1 DEF Publishes
  <2>2. CASE o # mem[i].order
    BY <1>1, <1>2, <1>3, <1>5, <2>2 DEF Publishes
  <2> QED BY <2>1, <2>2
<1>6. ASSUME NEW i \in Id, Withdraws(i)  PROVE \E j \in Id : cleanups'[j] /\ mem'[j].order = o
  <2>1. o \in served /\ (cleanups[i] => o # mem[i].order)
    BY <1>6 DEF Withdraws, Cleanup
  <2>2. PICK j \in Id : cleanups[j] /\ mem[j].order = o
    BY <1>3, <2>1
  <2>3. j # i /\ cleanups'[j]
    BY <1>1, <1>6, <2>1, <2>2 DEF Withdraws, Cleanup
  <2> QED BY <1>2, <2>2, <2>3
<1>7. served' # {}
  OBVIOUS
<1> QED BY <1>4, <1>5, <1>6, <1>7, ServedStep

LEMMA ChallengeInvariance ==
  Spec => [](IInv /\ ChallengeInv)
<1>1. IInv /\ IInv' /\ ChallengeInv /\ [Next]_vars => ChallengeInv'
  <2> SUFFICES ASSUME IInv, IInv', ChallengeInv, [Next]_vars  PROVE ChallengeInv'
    OBVIOUS
  <2>1. \A j \in Id : Challenge(j)'
    BY ChallengesKept
  <2>2. service' = "down" => \A q \in Request : starting'[q] = Absent
    BY DownKept DEF IInv
  <2>3. ExclusiveNames => ServedUntilStop'
    BY <2>1, ServedKept
  <2>4. Solver # "provider" => NoStaleChallenge'
    BY <2>1, StaleKept
  <2>5. ExclusiveNames' <=> ExclusiveNames
    BY DEF ExclusiveNames, Exclusive
  <2> QED BY <2>1, <2>2, <2>3, <2>4, <2>5 DEF ChallengeInv
<1> QED BY <1>1, InitChallenge, Invariance, PTL DEF Spec

\* What a job publishes stays available until the job itself withdraws it, if no
\* other certificate covers its domains (issue: the cleanups of a job).
THEOREM CleanupIsLast ==
  ASSUME ExclusiveNames
  PROVE  Spec => []ServedUntilStop
<1>1. ChallengeInv => ServedUntilStop
  BY ExclusiveNames DEF ChallengeInv
<1> QED BY <1>1, ChallengeInvariance, PTL

\* The CA is asked to validate only while the answer is published or confirmed.
THEOREM AnswersWhenAsked ==
  ASSUME ExclusiveNames
  PROVE  Spec => []AnswerAvailable
<1>1. ChallengeInv => AnswerAvailable
  BY ExclusiveNames DEF ChallengeInv, Challenge, ServedUntilStop, AnswerAvailable
<1> QED BY <1>1, ChallengeInvariance, PTL

\* What is served in the process, and by a manual challenge, never outlives the
\* job and is gone before its terminal status is published (finish, Exit).
THEOREM NothingStale ==
  ASSUME Solver # "provider"
  PROVE  Spec => []NoStaleChallenge
<1>1. ChallengeInv => NoStaleChallenge
  BY DEF ChallengeInv
<1> QED BY <1>1, ChallengeInvariance, PTL

-----------------------------------------------------------------------------
(* The status a job leaves behind, while the store accepts every write. *)

\* How a worker reaches the labels that decide about its issuance.
Ends(i) ==
    \/ pc'[i] \notin {"returned", "checkpoint", "publish", "exit", "idle"}
    \/ pc'[i] = "returned" /\ err'[i] # "nil"
    \/ /\ pc'[i] = "returned" /\ UNCHANGED mem
       /\ certificate'[mem[i].cert].status = "active"
    \/ pc'[i] = "checkpoint" /\ service = "closing"
    \/ /\ pc'[i] = "publish" /\ pc[i] = "returned"
       /\ \/ err[i] = "nil" /\ Finish(i, "succeeded", "nil")
          \/ \E kind : Finish(i, "failed", kind)
    \/ pc'[i] = "exit" /\ SaveAndStop(i) /\ row'[i] = mem[i]
    \/ pc'[i] = "idle" /\ pc[i] = "exit" /\ UNCHANGED row

LEMMA StepEnds ==
  ASSUME IInv, NEW i \in Id, Step(i), ~StoreMayFail
  PROVE  Ends(i)
<1> /\ TypeOK /\ pc \in [Id -> Label] /\ err \in [Id -> Error] /\ row \in [Id -> Row]
    /\ certificate \in [Cert -> CertificateRow]
  BY DEF IInv, TypeOK
<1>1. ASSUME NEW kind \in {"transient", "permanent"}, Return(i, kind)
      PROVE  pc'[i] = "returned" /\ err'[i] # "nil"
  BY <1>1 DEF Return, Goto
<1>2. ASSUME StepFails(i)  PROVE Ends(i)
  BY <1>1, <1>2 DEF StepFails, Ends
<1>3. ASSUME TimerFires(i) \/ BeginAttempt(i)  PROVE Ends(i)
  BY <1>1, <1>3 DEF TimerFires, BeginAttempt, Goto, Ends
<1>4. ASSUME Returned(i)  PROVE Ends(i)
  <2>1. pc[i] = "returned"
    BY <1>4 DEF Returned
  <2>2. ASSUME err[i] = "nil", Finish(i, "succeeded", "nil")  PROVE Ends(i)
    <3>1. pc'[i] = "publish"
      BY <2>2 DEF Finish, Goto
    <3> QED BY <2>1, <2>2, <3>1 DEF Ends
  <2>3. ASSUME NEW kind, Finish(i, "failed", kind)  PROVE Ends(i)
    <3>1. pc'[i] = "publish"
      BY <2>3 DEF Finish, Goto
    <3> QED BY <2>1, <2>3, <3>1 DEF Ends
  <2>4. ASSUME service = "closing", Goto(i, "checkpoint")  PROVE Ends(i)
    BY <2>4 DEF Goto, Ends
  <2>5. ASSUME ScheduleRetry(i)  PROVE Ends(i)
    BY <2>5 DEF ScheduleRetry, Goto, Ends
  <2> QED BY <1>4, <2>2, <2>3, <2>4, <2>5 DEF Returned
<1>5. ASSUME SaveAndStop(i)  PROVE Ends(i)
  <2>1. pc'[i] = "exit" /\ row'[i] = mem[i]
    BY <1>5 DEF SaveAndStop, MaySaveRow, SaveRow, Goto
  <2> QED BY <1>5, <2>1 DEF Ends
<1>6. ASSUME Exit(i)  PROVE Ends(i)
  BY <1>6 DEF Exit, Goto, Ends, storeVars
<1>7. ASSUME CreateOrder(i)  PROVE Ends(i)
  BY <1>1, <1>7 DEF CreateOrder, Goto, Ends
<1>8. ASSUME PersistOrder(i) \/ GetOrder(i) \/ RecordOrder(i) \/ GetAuthorization(i)  PROVE Ends(i)
  BY <1>1, <1>8 DEF PersistOrder, GetOrder, RecordOrder, GetAuthorization, Goto, Ends
<1>9. ASSUME Present(i) \/ AskOperator(i) \/ CheckDNS(i) \/ ConfirmDNS(i)  PROVE Ends(i)
  BY <1>9 DEF Present, AskOperator, CheckDNS, ConfirmDNS, Goto, Ends
<1>10. ASSUME CompleteChallenge(i) \/ WaitAuthorization(i)  PROVE Ends(i)
  BY <1>1, <1>10 DEF CompleteChallenge, WaitAuthorization, Goto, Ends
<1>11. ASSUME SubmitCSR(i) \/ WaitOrder(i) \/ Download(i)  PROVE Ends(i)
  BY <1>1, <1>11 DEF SubmitCSR, WaitOrder, Download, Goto, Ends
<1>12. ASSUME Install(i)  PROVE Ends(i)
  <2>1. mem[i].cert \in Cert
    BY <1>12, WorkerCert DEF Install
  <2> QED BY <1>12, <2>1 DEF Install, Return, Goto, Ends
<1> QED
  BY <1>2, <1>3, <1>4, <1>5, <1>6, <1>7, <1>8, <1>9, <1>10, <1>11, <1>12 DEF Step

\* A certificate that is active, or not pending any more, stays so.
LEMMA CertificateSettles ==
  ASSUME IInv, [Next]_vars, NEW c \in Cert
  PROVE  /\ certificate[c].status = "active" => certificate'[c].status = "active"
         /\ certificate[c].status # "pending" => certificate'[c].status # "pending"
<1>1. CASE certificate'[c] = certificate[c]
  BY <1>1
<1>2. CASE certificate'[c] # certificate[c]
  <2>1. \/ certificate[c].status = "pending" /\ certificate'[c].status = "failed"
        \/ certificate'[c].status = "active"
    BY <1>2, CertificateStep
  <2> QED BY <2>1
<1> QED BY <1>1, <1>2

\* What a worker learned from the CA and what issue() returned are its own.
LEMMA StepPrivate ==
  ASSUME TypeOK, NEW i \in Id, Step(i), NEW j \in Id \ {i}
  PROVE  err'[j] = err[j] /\ seen'[j] = seen[j]
<1> err \in [Id -> Error] /\ seen \in [Id -> OrderStatus]
  BY DEF TypeOK
<1> DEFINE Same == err'[j] = err[j] /\ seen'[j] = seen[j]
<1>1. ASSUME NEW kind, Return(i, kind)  PROVE err'[j] = err[j]
  BY <1>1 DEF Return
<1>2. ASSUME UNCHANGED <<seen, err>>  PROVE Same
  BY <1>2
<1>3. ASSUME TimerFires(i) \/ Returned(i) \/ SaveAndStop(i)  PROVE Same
  BY <1>2, <1>3 DEF TimerFires, Returned, SaveAndStop
<1>4. ASSUME BeginAttempt(i) \/ StepFails(i) \/ PersistOrder(i)  PROVE Same
  BY <1>1, <1>4 DEF BeginAttempt, StepFails, PersistOrder
<1>5. ASSUME Exit(i) \/ GetOrder(i)  PROVE Same
  BY <1>5 DEF Exit, GetOrder
<1>6. ASSUME RecordOrder(i) \/ GetAuthorization(i) \/ Present(i) \/ AskOperator(i)  PROVE Same
  BY <1>2, <1>6 DEF RecordOrder, GetAuthorization, Present, AskOperator
<1>7. ASSUME CheckDNS(i) \/ ConfirmDNS(i)  PROVE Same
  BY <1>2, <1>7 DEF CheckDNS, ConfirmDNS
<1>8. ASSUME CompleteChallenge(i) \/ WaitAuthorization(i) \/ WaitOrder(i)  PROVE Same
  BY <1>1, <1>8 DEF CompleteChallenge, WaitAuthorization, WaitOrder
<1>9. ASSUME Download(i) \/ Install(i) \/ SubmitCSR(i)  PROVE Same
  BY <1>1, <1>9 DEF Download, Install, SubmitCSR
<1>10. ASSUME CreateOrder(i)  PROVE Same
  BY <1>1, <1>10 DEF CreateOrder
<1> QED
  BY <1>3, <1>4, <1>5, <1>6, <1>7, <1>8, <1>9, <1>10 DEF Step

LEMMA JobStep ==
  ASSUME IInv, [Next]_vars, NEW i \in Id, Job(i), Step(i), ~StoreMayFail
  PROVE  Job(i)'
<1>1. /\ TypeOK /\ mem[i] \in Row /\ mem \in [Id -> Row] /\ certificate \in [Cert -> CertificateRow]
      /\ pc[i] # "idle" /\ service' = service /\ mem[i].cert \in Cert
  BY StepRuns, WorkerCert DEF IInv, TypeOK
<1>2. CASE pc'[i] # "publish"
  BY <1>1, <1>2, StepEnds DEF Ends, Job
<1>3. CASE pc'[i] = "publish"
  <2>1. pc[i] = "returned"
    BY <1>3, StepEnds DEF Ends
  <2>2. CASE err[i] = "nil" /\ Finish(i, "succeeded", "nil")
    <3>1. certificate[mem[i].cert].status = "active"
      BY <2>1, <2>2 DEF Job
    <3>2. mem'[i].cert = mem[i].cert /\ certificate'[mem[i].cert].status = "active"
      BY <1>1, <2>2, <3>1, RowKeeps, CertificateSettles DEF Finish
    <3> QED BY <1>3, <3>2 DEF Job
  <2>3. ASSUME NEW kind, Finish(i, "failed", kind)  PROVE Job(i)'
    <3>1. mem'[i].cert = mem[i].cert /\ mem'[i].status = "failed"
      BY <1>1, <2>3, RowKeeps DEF Finish
    <3>2. certificate'[mem[i].cert].status \in {"active", "failed"}
      BY <1>1, <2>3, CertificateFields DEF Finish, CertificateRow
    <3> QED BY <1>3, <3>1, <3>2 DEF Job
  <2> QED BY <1>3, <2>2, <2>3, StepEnds DEF Ends
<1> QED BY <1>2, <1>3

LEMMA JobFrame ==
  ASSUME IInv, [Next]_vars, NEW j \in Id, Job(j),
         service' = service \/ pc[j] # "checkpoint",
         mem'[j] = mem[j], pc'[j] = pc[j], err'[j] = err[j]
  PROVE  Job(j)'
<1>1. pc[j] # "idle" => mem[j].cert \in Cert
  BY WorkerCert
<1>2. pc[j] # "idle" => certificate[mem[j].cert] \in CertificateRow /\ certificate'[mem[j].cert] \in CertificateRow
  BY <1>1, TypeStep DEF IInv, TypeOK
<1> QED BY <1>1, <1>2, CertificateSettles DEF Job, CertificateRow

LEMMA JobsKept ==
  ASSUME IInv, [Next]_vars, NEW j \in Id, Job(j), ~StoreMayFail
  PROVE  Job(j)'
<1> TypeOK /\ err \in [Id -> Error]
  BY DEF IInv, TypeOK
<1>1. ASSUME NEW i \in Id, Step(i)  PROVE Job(j)'
  <2>1. CASE j = i
    BY <1>1, <2>1, JobStep
  <2>2. CASE j # i
    BY <1>1, <2>2, StepRuns, StepIsLocal, StepPrivate, JobFrame
  <2> QED BY <2>1, <2>2
<1>2. ASSUME NEW q \in Request, CreateIssuance(q)  PROVE Job(j)'
  <2>1. PICK i \in Id : Inserted(Target[q], i)
    BY <1>2, StartRow
  <2>2. UNCHANGED <<service, err>>
    BY <1>2 DEF CreateIssuance
  <2>3. CASE j = i
    BY <2>1, <2>3 DEF Inserted, Job
  <2>4. CASE j # i
    BY <2>1, <2>2, <2>4, JobFrame DEF Inserted
  <2> QED BY <2>3, <2>4
<1>3. ASSUME NEW i \in Id, NEW force \in BOOLEAN, ContinueIssuance(i, force)  PROVE Job(j)'
  <2>1. pc'[j] = pc[j] \/ pc'[j] \in {"check", "confirm"}
    BY <1>3 DEF ContinueIssuance, Goto, TypeOK
  <2>2. UNCHANGED <<mem, err, service>>
    BY <1>3 DEF ContinueIssuance
  <2>3. CASE pc'[j] = pc[j]
    BY <2>2, <2>3, JobFrame
  <2> QED BY <2>1, <2>3 DEF Job
<1>4. CASE Crash \/ NewService
  <2>1. pc'[j] \in {"idle", "timer", "begin"}
    BY <1>4 DEF Crash, NewService
  <2> QED BY <2>1 DEF Job
<1>5. CASE Closed
  BY <1>5, JobFrame DEF Closed, jobVars
<1>6. CASE Outside
  <2>1. err' = err /\ UNCHANGED <<pc, mem>>
    BY <1>6 DEF Outside
  <2> QED BY <1>6, <2>1, JobFrame DEF Outside, Job
<1> QED
  BY <1>1, <1>2, <1>3, <1>4, <1>5, <1>6, NextJobs

LEMMA WorkerKept ==
  ASSUME IInv, IInv', [Next]_vars, JobInv, ~StoreMayFail
  PROVE  UnfinishedHasWorker'
<1> SUFFICES ASSUME NEW j \in Id, service' = "up", row'[j].status \in Unfinished,
                    row'[j].key # NoKey
             PROVE  pc'[j] \notin {"idle", "exit"}
  BY DEF UnfinishedHasWorker
<1>1. /\ TypeOK /\ row \in [Id -> Row] /\ pc \in [Id -> Label] /\ OwnsRow(j) /\ Job(j)
  BY DEF IInv, TypeOK, WorkerInv, JobInv
<1>2. ASSUME service = "up", row'[j] = row[j]  PROVE pc[j] \notin {"idle", "exit"}
  BY <1>2 DEF JobInv, UnfinishedHasWorker
<1>3. ASSUME NEW i \in Id, Step(i)  PROVE pc'[j] \notin {"idle", "exit"}
  <2>1. service = "up"
    BY <1>3, StepRuns
  <2>2. CASE j # i
    BY <1>2, <1>3, <2>1, <2>2, <1>1, StepIsLocal
  <2>3. CASE j = i
    <3>1. ~(pc'[j] = "idle" /\ pc[j] = "exit" /\ UNCHANGED row)
      BY <1>2, <2>1
    <3>2. ~(SaveAndStop(j) /\ row'[j] = mem[j])
      BY <1>1, <2>1 DEF SaveAndStop, Job, OwnsRow, Unfinished, Finished
    <3> QED BY <1>3, <2>3, <3>1, <3>2, StepEnds DEF Ends
  <2> QED BY <2>2, <2>3
<1>4. ASSUME NEW q \in Request, CreateIssuance(q)  PROVE pc'[j] \notin {"idle", "exit"}
  <2>1. PICK i \in Id : Inserted(Target[q], i)
    BY <1>4, StartRow
  <2>2. service = "up"
    BY <1>4 DEF CreateIssuance
  <2> QED BY <1>2, <2>1, <2>2 DEF Inserted
<1>5. ASSUME NEW i \in Id, NEW force \in BOOLEAN, ContinueIssuance(i, force)
      PROVE  pc'[j] \notin {"idle", "exit"}
  BY <1>1, <1>2, <1>5 DEF ContinueIssuance, Goto, storeVars
<1>6. CASE NewService
  <2>1. row' = [k \in Id |-> IF row[k].status \in Unfinished /\ row[k].key = NoKey
                             THEN [row[k] EXCEPT !.status = "failed"] ELSE row[k]]
    BY <1>6 DEF NewService
  <2>2. row[j].status \in Unfinished /\ row[j].key # NoKey
    <3>1. CASE row'[j] = row[j]
      BY <3>1
    <3>2. CASE row'[j] = [row[j] EXCEPT !.status = "failed"]
      BY <1>1, <3>2, RowKeeps DEF Unfinished
    <3> QED BY <2>1, <3>1, <3>2
  <2> QED BY <1>6, <2>2 DEF NewService
<1>7. CASE Crash \/ Closed
  BY <1>7 DEF Crash, Closed
<1>8. CASE Outside
  BY <1>2, <1>8 DEF Outside
<1> QED
  BY <1>1, <1>3, <1>4, <1>5, <1>6, <1>7, <1>8, NextJobs

\* What the status of an issuance says about its certificate.
Truth(j) ==
    /\ row[j].status = "succeeded" => certificate[row[j].cert].status = "active"
    /\ row[j].status = "failed" => certificate[row[j].cert].status # "pending"

LEMMA TruthKept ==
  ASSUME IInv, IInv', [Next]_vars, JobInv, ~StoreMayFail
  PROVE  TerminalTellsTruth'
<1> SUFFICES ASSUME NEW j \in Id  PROVE Truth(j)'
  BY DEF TerminalTellsTruth, Truth
<1>1. /\ TypeOK /\ row \in [Id -> Row] /\ row[j] \in Row /\ certificate \in [Cert -> CertificateRow]
      /\ OwnsRow(j)' /\ OwnsRow(j) /\ Job(j) /\ RowsInOrder
  BY DEF IInv, TypeOK, WorkerInv, JobInv
<1>2. CASE row'[j] = row[j] \/ row'[j].status \notin Finished
  <2>1. CASE row[j].status \in Finished /\ row'[j] = row[j]
    <3>1. row[j].cert \in Cert
      BY <1>1, <2>1, RowFields DEF RowsInOrder, Finished
    <3> QED BY <2>1, <3>1, CertificateSettles DEF JobInv, TerminalTellsTruth, Truth
  <2> QED BY <1>2, <2>1 DEF Truth, Finished
<1>3. ASSUME row'[j] # row[j], row'[j].status \in Finished  PROVE Truth(j)'
  <2>1. ASSUME NEW i \in Id, Step(i)  PROVE Truth(j)'
    <3>1. j = i
      BY <1>1, <1>3, <2>1, StepIsLocal
    <3>2. pc'[j] \in {"idle", "exit"}
      BY <1>1, <1>3 DEF OwnsRow, Unfinished, Finished
    <3>3. SaveAndStop(j) /\ row'[j] = mem[j]
      BY <1>3, <2>1, <3>1, <3>2, StepEnds DEF Ends
    <3>4. pc[j] = "publish" /\ UNCHANGED certificate
      BY <1>1, <1>3, <3>3 DEF SaveAndStop, OwnsRow, Unfinished, Finished
    <3> QED BY <1>1, <3>3, <3>4 DEF Job, Truth
  <2>2. ASSUME NEW q \in Request, CreateIssuance(q)  PROVE FALSE
    <3>1. PICK i \in Id : Inserted(Target[q], i)
      BY <2>2, StartRow
    <3> QED BY <1>3, <3>1 DEF Inserted, Finished
  <2>3. CASE NewService
    <3>1. /\ row[j].status \in Unfinished /\ row[j].key = NoKey
          /\ row'[j] = [row[j] EXCEPT !.status = "failed"]
      BY <1>1, <1>3, <2>3 DEF NewService
    <3>2. /\ row'[j].status = "failed" /\ row'[j].cert = row[j].cert
          /\ row[j].cert \in Cert
      BY <1>1, <3>1, RowKeeps, RowFields DEF RowsInOrder, Unfinished
    <3>3. certificate' = [c \in Cert |->
             IF /\ certificate[c].status = "pending"
                /\ \E k \in Id : /\ row[k].status \in Unfinished /\ row[k].key = NoKey
                                 /\ row[k].cert = c
             THEN [certificate[c] EXCEPT !.status = "failed"] ELSE certificate[c]]
      BY <2>3 DEF NewService
    <3>4. certificate'[row[j].cert].status # "pending"
      BY <1>1, <3>1, <3>2, <3>3, CertificateFields
    <3> QED BY <3>2, <3>4 DEF Truth
  <2>4. ASSUME NEW i \in Id, NEW force \in BOOLEAN, ContinueIssuance(i, force)  PROVE FALSE
    BY <1>3, <2>4 DEF ContinueIssuance, storeVars
  <2>5. ~Crash /\ ~Closed /\ ~Outside
    BY <1>3 DEF Crash, Closed, Outside, storeVars
  <2> QED
    BY <1>1, <2>1, <2>2, <2>3, <2>4, <2>5, NextJobs
<1> QED BY <1>2, <1>3

LEMMA JobInvariance ==
  ASSUME ~StoreMayFail
  PROVE  Spec => [](IInv /\ JobInv)
<1>1. ASSUME Init  PROVE JobInv
  <2>1. \A i \in Id : row[i].status \notin Finished
    <3>1. CASE row = [i \in Id |-> Absent]
      BY <3>1, AbsentFields DEF Finished
    <3>2. ASSUME NEW c \in Cert,
                 row = [[i \in Id |-> Absent] EXCEPT
                          ![1] = [Absent EXCEPT !.cert = c, !.status = "running"]]
          PROVE  \A i \in Id : row[i].status \notin Finished
      BY <3>2, AbsentFields DEF Finished, Absent
    <3> QED BY <1>1, <3>1, <3>2 DEF Init
  <2>2. service = "down" /\ \A i \in Id : pc[i] = "idle"
    BY <1>1 DEF Init
  <2> QED BY <2>1, <2>2 DEF JobInv, Job, UnfinishedHasWorker, TerminalTellsTruth, Finished
<1>2. IInv /\ IInv' /\ JobInv /\ [Next]_vars => JobInv'
  BY JobsKept, WorkerKept, TruthKept DEF JobInv
<1> QED BY <1>1, <1>2, Invariance, PTL DEF Spec

\* While the store accepts every write, a running service has a worker for every
\* unfinished issuance (launch, NewService); see lost_retry for a refused one.
THEOREM WorkerForEveryIssuance ==
  ASSUME ~StoreMayFail
  PROVE  Spec => []UnfinishedHasWorker
<1>1. JobInv => UnfinishedHasWorker
  BY DEF JobInv
<1> QED BY <1>1, JobInvariance, PTL

\* While the store accepts every write, the terminal status tells what became of
\* the certificate, however the issuance ended (finish, NewService).
THEOREM StatusTellsTruth ==
  ASSUME ~StoreMayFail
  PROVE  Spec => []TerminalTellsTruth
<1>1. JobInv => TerminalTellsTruth
  BY DEF JobInv
<1> QED BY <1>1, JobInvariance, PTL

-----------------------------------------------------------------------------
(* The order that is passed on with a key. *)

LEMMA RowsStep ==
  ASSUME IInv, IInv', [Next]_vars
  PROVE  \/ \E q \in Request, i \in Id : Inserted(Target[q], i)
         \/ \A j \in Id : RowWrite(j)
<1>1. CASE \E q \in Request : CreateIssuance(q)
  BY <1>1, StartRow
<1>2. CASE ~\E q \in Request : CreateIssuance(q)
  BY <1>2, RowStep DEF IInv
<1> QED BY <1>1, <1>2

LEMMA RecoversKept ==
  ASSUME OneCallPerCertificate, IInv, IInv', [Next]_vars, RetryRecoversOrder
  PROVE  RetryRecoversOrder'
<1> SUFFICES ASSUME NEW i \in Id, NEW j \in Id, i < j,
                    row'[i].key # NoKey, row'[j].key = row'[i].key, row'[i].order # NoOrder
             PROVE  row'[j].order # NoOrder
  BY DEF RetryRecoversOrder
<1>1. /\ RowsInOrder /\ KeysInOrder
      /\ \A k, l \in Id :
           k < l /\ row[k].key # NoKey /\ row[l].key = row[k].key /\ row[k].order # NoOrder
             => row[l].order # NoOrder
  BY DEF IInv, RetryRecoversOrder
<1>2. ASSUME \A k \in Id : RowWrite(k)  PROVE row'[j].order # NoOrder
  <2>1. row[i].key # NoKey /\ row[j].key = row[i].key
    BY <1>2 DEF RowWrite
  <2>2. row'[i] = row[i]
    <3>1. row[j].cert = row[i].cert
      BY <1>1, <2>1 DEF KeysInOrder
    <3>2. row[i].status \notin Unfinished
      BY <1>1, <3>1 DEF RowsInOrder, Superseded
    <3> QED BY <1>2, <3>2 DEF RowWrite, Unfinished
  <2>3. row[j].order # NoOrder
    BY <1>1, <2>1, <2>2
  <2> QED BY <1>2, <2>3 DEF RowWrite
<1>3. ASSUME NEW q \in Request, NEW k \in Id, Inserted(Target[q], k)
      PROVE  row'[j].order # NoOrder
  <2>1. row[k].status = "absent" /\ row[k].key = NoKey
    BY <1>3, AbsentFields DEF Inserted
  <2>2. CASE j # k /\ i # k
    BY <1>1, <1>3, <2>2 DEF Inserted
  <2>3. CASE i = k
    <3>1. row'[j] = row[j] /\ row[j].status = "absent"
      BY <1>3, <2>3, IdOrder DEF Inserted
    <3>2. row[j].key = NoKey
      BY <1>1, <3>1, AbsentFields DEF RowsInOrder
    <3> QED BY <3>1, <3>2
  <2>4. CASE j = k
    <3>1. row'[i] = row[i] /\ row[i].key # NoKey /\ row[i].order # NoOrder
      BY <1>3, <2>4, IdOrder DEF Inserted
    <3>2. row'[k].key # k
      <4>1. row[i].key <= i
        BY <1>1, <3>1 DEF KeysInOrder
      <4>2. row[i].key \in Id
        BY <3>1, RowFields DEF IInv, TypeOK
      <4>3. row[i].key # j
        BY <4>1, <4>2, ConstantsAssumption DEF Id
      <4> QED BY <2>4, <3>1, <4>3
    <3>3. PICK last \in Id : /\ ~Superseded(last)
                             /\ row'[k].key = row[last].key /\ row'[k].order = row[last].order
      BY <1>3, <3>2 DEF Inserted
    <3>4. row[last].cert = row[i].cert /\ row[last].key = row[i].key
      BY <1>1, <2>4, <3>1, <3>3 DEF KeysInOrder
    <3>5. last = i \/ i < last
      BY <3>3, <3>4, IdOrder DEF Superseded
    <3> QED BY <1>1, <2>4, <3>1, <3>3, <3>4, <3>5
  <2> QED BY <2>2, <2>3, <2>4
<1> QED BY <1>2, <1>3, RowsStep

\* A retry that goes on with a key goes on with the order it was submitted to, if
\* retries of a certificate do not race (startIssuance, saveProgress).
THEOREM RetriesRecover ==
  ASSUME OneCallPerCertificate
  PROVE  Spec => []RetryRecoversOrder
<1>1. ASSUME Init  PROVE RetryRecoversOrder
  <2>1. \A i \in Id : row[i].key = NoKey
    <3>1. CASE row = [i \in Id |-> Absent]
      BY <3>1, AbsentFields
    <3>2. ASSUME NEW c \in Cert,
                 row = [[i \in Id |-> Absent] EXCEPT
                          ![1] = [Absent EXCEPT !.cert = c, !.status = "running"]]
          PROVE  \A i \in Id : row[i].key = NoKey
      BY <3>2, AbsentFields DEF Absent
    <3> QED BY <1>1, <3>1, <3>2 DEF Init
  <2> QED BY <2>1 DEF RetryRecoversOrder
<1>2. IInv /\ IInv' /\ RetryRecoversOrder /\ [Next]_vars => RetryRecoversOrder'
  BY RecoversKept
<1> QED BY <1>1, <1>2, Invariance, PTL DEF Spec

-----------------------------------------------------------------------------
(* The row of an order, while the store accepts every write. *)

\* What a worker's step does to the row of its order.
Records(i) ==
    \/ /\ pc'[i] \notin Recorded \cup {"publish"} /\ UNCHANGED record
       /\ pc'[i] = "returned" => err'[i] # "nil"
    \/ /\ pc[i] = "record" /\ pc'[i] \in {"authorize", "finalize"}
       /\ record' = [record EXCEPT ![mem[i].order] = [issuance |-> i, status |-> seen[i]]]
    \/ /\ pc[i] \in Recorded /\ pc'[i] \in Recorded /\ UNCHANGED record
       /\ pc'[i] = "download" => seen'[i] = "valid"
       /\ pc'[i] = "install" => pc[i] = "download" /\ UNCHANGED seen
    \/ /\ pc[i] \in Recorded /\ pc'[i] = "returned" /\ UNCHANGED mem
       /\ record' = [record EXCEPT ![mem[i].order].status = seen[i]]
       /\ err'[i] = "nil" => pc[i] = "install"
    \/ /\ pc[i] = "returned" /\ pc'[i] = "publish" /\ UNCHANGED record
       /\ mem'[i].order = mem[i].order
       /\ mem'[i].status = "succeeded" => err[i] = "nil" /\ mem'[i].key = NoKey

LEMMA StepRecords ==
  ASSUME TypeOK, NEW i \in Id, Step(i), ~StoreMayFail
  PROVE  Records(i)
<1> /\ pc \in [Id -> Label] /\ err \in [Id -> Error] /\ seen \in [Id -> OrderStatus]
    /\ mem \in [Id -> Row] /\ mem[i] \in Row
  BY DEF TypeOK
<1>1. ASSUME NEW kind \in {"transient", "permanent"}, Return(i, kind), UNCHANGED mem
      PROVE  Records(i)
  <2>1. pc'[i] = "returned" /\ err'[i] # "nil"
    BY <1>1 DEF Return, Goto
  <2>2. IF pc[i] \in Recorded THEN record' = [record EXCEPT ![mem[i].order].status = seen[i]]
                              ELSE UNCHANGED record
    BY <1>1 DEF Return
  <2> QED BY <1>1, <2>1, <2>2 DEF Records, Recorded
<1>2. ASSUME StepFails(i)  PROVE Records(i)
  BY <1>1, <1>2 DEF StepFails
<1>3. ASSUME TimerFires(i) \/ SaveAndStop(i) \/ Exit(i) \/ GetOrder(i)  PROVE Records(i)
  BY <1>3 DEF TimerFires, SaveAndStop, Exit, GetOrder, Goto, Records, Recorded, storeVars
<1>4. ASSUME BeginAttempt(i)  PROVE Records(i)
  <2>1. pc[i] = "begin"
    BY <1>4 DEF BeginAttempt
  <2>2. UNCHANGED record /\ pc'[i] \in {"create", "get", "returned"}
        /\ (pc'[i] = "returned" => err'[i] # "nil")
    BY <1>4, <2>1 DEF BeginAttempt, Return, Goto, Recorded
  <2> QED BY <2>2 DEF Records, Recorded
<1>5. ASSUME Returned(i)  PROVE Records(i)
  <2>1. pc[i] = "returned" /\ UNCHANGED record
    BY <1>5 DEF Returned
  <2>2. ASSUME NEW status \in Finished, NEW kind, Finish(i, status, kind),
               status = "succeeded" => err[i] = "nil" /\ kind = "nil"
        PROVE  Records(i)
    <3>1. pc'[i] = "publish" /\ mem'[i].order = mem[i].order /\ mem'[i].status = status
          /\ (kind = "nil" => mem'[i].key = NoKey)
      BY <2>2, RowKeeps DEF Finish, Goto
    <3> QED BY <2>1, <2>2, <3>1 DEF Records
  <2>3. ASSUME Goto(i, "checkpoint") \/ ScheduleRetry(i)  PROVE Records(i)
    BY <2>1, <2>3 DEF ScheduleRetry, Goto, Records, Recorded
  <2> QED BY <1>5, <2>2, <2>3 DEF Returned, Finished
<1>6. ASSUME CreateOrder(i) \/ PersistOrder(i)  PROVE Records(i)
  <2>1. pc[i] \in {"create", "persist"}
    BY <1>6 DEF CreateOrder, PersistOrder
  <2>2. UNCHANGED record /\ pc'[i] \in {"persist", "record", "returned"}
        /\ (pc'[i] = "returned" => err'[i] # "nil")
    BY <1>6, <2>1 DEF CreateOrder, PersistOrder, Return, Goto, Recorded
  <2> QED BY <2>2 DEF Records, Recorded
<1>7. ASSUME RecordOrder(i)  PROVE Records(i)
  BY <1>7 DEF RecordOrder, Goto, Records
<1>8. ASSUME GetAuthorization(i) \/ Present(i)  PROVE Records(i)
  BY <1>8 DEF GetAuthorization, Present, Goto, Records, Recorded, storeVars
<1>9. ASSUME AskOperator(i) \/ CheckDNS(i) \/ ConfirmDNS(i)  PROVE Records(i)
  BY <1>9 DEF AskOperator, CheckDNS, ConfirmDNS, Goto, Records, Recorded
<1>10. ASSUME CompleteChallenge(i) \/ WaitAuthorization(i)  PROVE Records(i)
  BY <1>1, <1>10 DEF CompleteChallenge, WaitAuthorization, Goto, Records, Recorded
<1>11. ASSUME SubmitCSR(i) \/ WaitOrder(i)  PROVE Records(i)
  BY <1>1, <1>11 DEF SubmitCSR, WaitOrder, Goto, Records, Recorded
<1>12. ASSUME Download(i)  PROVE Records(i)
  BY <1>1, <1>12 DEF Download, Goto, Records, Recorded
<1>13. ASSUME Install(i)  PROVE Records(i)
  BY <1>13 DEF Install, Return, Goto, Records, Recorded
<1> QED
  BY <1>2, <1>3, <1>4, <1>5, <1>6, <1>7, <1>8, <1>9, <1>10, <1>11, <1>12, <1>13 DEF Step

\* The row of an order is written by the worker that fulfils it.
LEMMA RecordStep ==
  ASSUME TypeOK, [Next]_vars, ~StoreMayFail, NEW o \in Orders, record'[o] # record[o]
  PROVE  \E i \in Id : /\ Step(i) /\ pc[i] \in Recorded \cup {"record"} /\ mem[i].order = o
<1> record \in [Orders -> OrderRow]
  BY DEF TypeOK
<1>1. ASSUME NEW i \in Id, Step(i)
      PROVE  pc[i] \in Recorded \cup {"record"} /\ mem[i].order = o
  BY <1>1, StepRecords DEF Records
<1>2. ASSUME NEW q \in Request, CreateIssuance(q)  PROVE FALSE
  BY <1>2 DEF CreateIssuance
<1>3. ASSUME NEW i \in Id, NEW force \in BOOLEAN, ContinueIssuance(i, force)  PROVE FALSE
  BY <1>3 DEF ContinueIssuance, storeVars
<1>4. ~Crash /\ ~NewService /\ ~Closed /\ ~Outside
  BY DEF Crash, NewService, Closed, Outside, storeVars
<1> QED BY <1>1, <1>2, <1>3, <1>4, NextJobs

LEMMA EndedKept ==
  ASSUME IInv, [Next]_vars, ~StoreMayFail, NEW i \in Id, NEW o, Ended(i, o),
         o \in Orders \cup {NoOrder},
         \A k \in Id : pc[k] \in Recorded \cup {"record"} => mem[k].order # o
  PROVE  Ended(i, o)'
<1>1. o \in Orders /\ o # NoOrder /\ TypeOK
  BY DEF Ended, IInv
<1>2. order'[o].status = "valid"
  BY <1>1, OrderStep DEF Ended, OrderGrows
<1>3. record'[o] = record[o]
  BY <1>1, RecordStep
<1> QED BY <1>1, <1>2, <1>3 DEF Ended

\* Where a worker that has its order recorded is, its issuance is unfinished.
LEMMA WorkerHolds ==
  ASSUME IInv, NEW k \in Id,
         pc[k] \in Recorded \cup {"record"} \/ (pc[k] \in {"returned", "publish"} /\ mem[k].order # NoOrder)
  PROVE  pc[k] # "idle" /\ row[k].status \in Unfinished /\ mem[k].order # NoOrder
<1>1. OwnsRow(k) /\ OrderSaved(k)
  BY DEF IInv, WorkerInv
<1> QED BY <1>1 DEF OwnsRow, OrderSaved, Recorded

\* Nobody else is at work on the order of an issuance that is about to succeed ...
LEMMA LiveAlone ==
  ASSUME IInv, ExclusiveNames, NEW i \in Id, NEW k \in Id,
         pc[i] \in {"returned", "publish"}, mem[i].order # NoOrder,
         pc[k] \in Recorded \cup {"record"}
  PROVE  mem[k].order # mem[i].order
<1>1. k # i
  BY DEF Recorded
<1> QED BY <1>1, WorkerHolds, WorkersApart

\* ... or has succeeded.
LEMMA DoneAlone ==
  ASSUME IInv, ExclusiveNames, NEW i \in Id, NEW k \in Id,
         Settled(i), row[i].status = "succeeded", pc[k] \in Recorded \cup {"record"}
  PROVE  mem[k].order # row[i].order
<1> SUFFICES ASSUME mem[k].order = row[i].order  PROVE FALSE
  OBVIOUS
<1>1. pc[k] # "idle" /\ row[k].status \in Unfinished /\ row[i].order # NoOrder
  BY WorkerHolds DEF Settled, Ended
<1>2. /\ OwnsRow(k) /\ NamesOrder(k) /\ NamesOrder(i) /\ RowsInOrder /\ row[i] \in Row
  BY DEF IInv, WorkerInv, TypeOK
<1>3. row[i].cert \in Cert /\ row[k].cert \in Cert /\ mem[k].cert = row[k].cert
  BY <1>1, <1>2, WorkerCert, RowFields DEF RowsInOrder, OwnsRow
<1>4. row[k].cert = row[i].cert
  BY <1>1, <1>2, <1>3 DEF NamesOrder, ExclusiveNames, Exclusive
<1>5. ~(i < k) /\ k # i
  BY <1>1, <1>4 DEF Settled, Unfinished
<1>6. k < i
  BY <1>5, IdOrder
<1> QED BY <1>1, <1>2, <1>4, <1>6 DEF RowsInOrder, Superseded

LEMMA HoldingStep ==
  ASSUME IInv, IInv', [Next]_vars, ExclusiveNames, ~StoreMayFail,
         NEW i \in Id, Holding(i), Step(i)
  PROVE  Holding(i)'
<1> /\ TypeOK /\ record \in [Orders -> OrderRow] /\ pc \in [Id -> Label]
    /\ mem[i].order \in Orders \cup {NoOrder}
  BY RowFields DEF IInv, TypeOK
<1>1. CASE pc'[i] \notin Recorded \cup {"publish"} /\ (pc'[i] = "returned" => err'[i] # "nil")
  BY <1>1 DEF Holding, Recorded
<1>2. CASE pc[i] \in Recorded \cup {"record"} /\ pc'[i] \in Recorded
  <2>1. mem[i].order \in Orders /\ mem'[i].order = mem[i].order
    BY <1>2, WorkerHolds, StepRemembers DEF Recorded
  <2>2. record'[mem[i].order].issuance = i
    <3>1. CASE record' = [record EXCEPT ![mem[i].order] = [issuance |-> i, status |-> seen[i]]]
      BY <2>1, <3>1
    <3>2. CASE pc[i] \in Recorded /\ UNCHANGED record
      BY <3>2 DEF Holding
    <3> QED BY <1>2, <3>1, <3>2, StepRecords DEF Records, Recorded
  <2>3. pc'[i] \in {"download", "install"} => seen'[i] = "valid"
    BY <1>2, StepRecords DEF Records, Holding, Recorded
  <2> QED BY <1>2, <2>1, <2>2, <2>3 DEF Holding, Recorded
<1>3. CASE pc'[i] = "returned" /\ err'[i] = "nil"
  <2>1. /\ pc[i] = "install" /\ UNCHANGED mem
        /\ record' = [record EXCEPT ![mem[i].order].status = seen[i]]
    BY <1>3, StepRecords DEF Records, Recorded
  <2>2. mem[i].order \in Orders /\ mem[i].order # NoOrder
    BY <2>1, WorkerHolds DEF Recorded
  <2>3. order[mem[i].order].status = "valid"
    BY <2>1 DEF IInv, WorkerInv, NamesOrder
  <2>4. order'[mem[i].order].status = "valid"
    BY <2>2, <2>3, OrderStep DEF OrderGrows
  <2>5. record[mem[i].order].issuance = i /\ seen[i] = "valid" /\ record[mem[i].order] \in OrderRow
    BY <2>1, <2>2 DEF Holding, Recorded
  <2>6. record'[mem[i].order] = [issuance |-> i, status |-> "valid"]
    BY <2>1, <2>2, <2>5 DEF OrderRow
  <2> QED BY <1>3, <2>1, <2>2, <2>4, <2>6 DEF Holding, Ended, Recorded
<1>4. CASE pc'[i] = "publish"
  <2>1. /\ pc[i] = "returned" /\ mem'[i].order = mem[i].order
        /\ mem'[i].status = "succeeded" => err[i] = "nil" /\ mem'[i].key = NoKey
    BY <1>4, StepRecords DEF Records, Recorded
  <2>2. ASSUME mem'[i].status = "succeeded"  PROVE Ended(i, mem[i].order) /\ mem[i].order # NoOrder
    BY <2>1, <2>2 DEF Holding, Ended
  <2>3. ASSUME mem'[i].status = "succeeded", NEW o, o = mem[i].order  PROVE Ended(i, o)'
    <3>1. \A k \in Id : pc[k] \in Recorded \cup {"record"} => mem[k].order # o
      BY <2>1, <2>2, <2>3, LiveAlone
    <3> QED BY <2>2, <2>3, <3>1, EndedKept
  <2> QED BY <1>4, <2>1, <2>3 DEF Holding, Ended, Recorded
<1> QED BY <1>1, <1>2, <1>3, <1>4, StepRecords DEF Records, Recorded

\* What the other workers do leaves a worker's order and its row alone.
LEMMA HoldingFrame ==
  ASSUME IInv, [Next]_vars, ExclusiveNames, ~StoreMayFail,
         NEW i \in Id, Holding(i), mem'[i] = mem[i], seen'[i] = seen[i], err'[i] = err[i],
         pc'[i] = pc[i] \/ (pc[i] = "await" /\ pc'[i] \in {"check", "confirm"}),
         ~Step(i)
  PROVE  Holding(i)'
<1> TypeOK /\ mem[i].order \in Orders \cup {NoOrder}
  BY RowFields DEF IInv, TypeOK
<1>1. ASSUME pc[i] \in Recorded  PROVE record'[mem[i].order] = record[mem[i].order]
  <2>1. mem[i].order \in Orders
    BY <1>1, WorkerHolds
  <2>2. ASSUME NEW k \in Id, k # i, pc[k] \in Recorded \cup {"record"}  PROVE mem[k].order # mem[i].order
    BY <1>1, <2>2, WorkerHolds, WorkersApart
  <2> QED BY <2>1, <2>2, RecordStep
<1>2. ASSUME pc[i] \in {"returned", "publish"}, NEW o, o = mem[i].order, Ended(i, o)
      PROVE  Ended(i, o)'
  <2>1. \A k \in Id : pc[k] \in Recorded \cup {"record"} => mem[k].order # o
    BY <1>2, LiveAlone DEF Ended
  <2> QED BY <1>2, <2>1, EndedKept
<1>3. pc'[i] \in Recorded => pc[i] \in Recorded
  BY DEF Recorded
<1> QED BY <1>1, <1>2, <1>3 DEF Holding, Ended, Recorded

LEMMA HoldingKept ==
  ASSUME IInv, IInv', [Next]_vars, ExclusiveNames, ~StoreMayFail, NEW j \in Id, Holding(j)
  PROVE  Holding(j)'
<1> TypeOK /\ pc \in [Id -> Label]
  BY DEF IInv, TypeOK
<1>1. CASE Step(j)
  BY <1>1, HoldingStep
<1>2. ASSUME NEW i \in Id \ {j}, Step(i), ~Step(j)  PROVE Holding(j)'
  BY <1>2, StepIsLocal, StepPrivate, HoldingFrame
<1>3. ASSUME NEW q \in Request, CreateIssuance(q), ~Step(j)  PROVE Holding(j)'
  <2>1. PICK i \in Id : Inserted(Target[q], i)
    BY <1>3, StartRow
  <2>2. UNCHANGED <<seen, err>>
    BY <1>3 DEF CreateIssuance
  <2>3. CASE j = i
    BY <2>1, <2>3 DEF Inserted, Holding, Recorded
  <2>4. CASE j # i
    BY <1>3, <2>1, <2>2, <2>4, HoldingFrame DEF Inserted
  <2> QED BY <2>3, <2>4
<1>4. ASSUME NEW i \in Id, NEW force \in BOOLEAN, ContinueIssuance(i, force), ~Step(j)  PROVE Holding(j)'
  <2>1. pc'[j] = pc[j] \/ (pc[j] = "await" /\ pc'[j] \in {"check", "confirm"})
    BY <1>4 DEF ContinueIssuance, Goto
  <2>2. UNCHANGED <<mem, seen, err>>
    BY <1>4 DEF ContinueIssuance
  <2> QED BY <1>4, <2>1, <2>2, HoldingFrame
<1>5. CASE Crash \/ NewService
  <2>1. pc'[j] \in {"idle", "timer", "begin"}
    BY <1>5 DEF Crash, NewService
  <2> QED BY <2>1 DEF Holding, Recorded
<1>6. CASE (Closed \/ Outside) /\ ~Step(j)
  BY <1>6, HoldingFrame DEF Closed, Outside, jobVars
<1> QED
  BY <1>1, <1>2, <1>3, <1>4, <1>5, <1>6, NextJobs

\* An issuance succeeds by publishing it, and is the newest of its certificate then.
LEMMA Succeeds ==
  ASSUME IInv, IInv', [Next]_vars, ~StoreMayFail, NEW i \in Id,
         row[i].status # "succeeded", row'[i].status = "succeeded"
  PROVE  /\ Step(i) /\ pc[i] = "publish" /\ row'[i] = mem[i] /\ ~Superseded(i)
         /\ \A j \in Id \ {i} : row'[j] = row[j]
<1>1. /\ TypeOK /\ row \in [Id -> Row] /\ row[i] \in Row
      /\ OwnsRow(i)' /\ OwnsRow(i) /\ RowsInOrder
  BY DEF IInv, TypeOK, WorkerInv
<1>2. ASSUME NEW k \in Id, Step(k)
      PROVE  /\ k = i /\ pc[i] = "publish" /\ row'[i] = mem[i] /\ ~Superseded(i)
             /\ \A j \in Id \ {i} : row'[j] = row[j]
  <2>1. k = i /\ \A j \in Id \ {i} : row'[j] = row[j]
    BY <1>1, <1>2, StepIsLocal
  <2>2. pc'[i] \in {"idle", "exit"}
    BY <1>1 DEF OwnsRow, Unfinished
  <2>3. SaveAndStop(i) /\ row'[i] = mem[i]
    BY <1>2, <2>1, <2>2, StepEnds DEF Ends
  <2>4. pc[i] = "publish" /\ row[i].status \in Unfinished
    BY <1>1, <2>3 DEF SaveAndStop, OwnsRow, Unfinished
  <2> QED BY <1>1, <2>1, <2>3, <2>4 DEF RowsInOrder
<1>3. ASSUME NEW q \in Request, CreateIssuance(q)  PROVE FALSE
  <2>1. PICK k \in Id : Inserted(Target[q], k)
    BY <1>3, StartRow
  <2> QED BY <2>1 DEF Inserted
<1>4. CASE NewService
  <2>1. row'[i] = [row[i] EXCEPT !.status = "failed"]
    BY <1>1, <1>4 DEF NewService
  <2> QED BY <1>1, <2>1, RowKeeps
<1>5. ASSUME NEW k \in Id, NEW force \in BOOLEAN, ContinueIssuance(k, force)  PROVE FALSE
  BY <1>5 DEF ContinueIssuance, storeVars
<1>6. ~Crash /\ ~Closed /\ ~Outside
  BY DEF Crash, Closed, Outside, storeVars
<1> QED BY <1>1, <1>2, <1>3, <1>4, <1>5, <1>6, NextJobs

\* Nothing that comes after a succeeded issuance takes over its order.
LEMMA LaterApart ==
  ASSUME OneCallPerCertificate, IInv, IInv', [Next]_vars, NEW i \in Id, NEW j \in Id,
         row[i].status = "succeeded", Settled(i), row'[i] = row[i],
         j > i, row'[j].cert = row[i].cert
  PROVE  row[i].order \notin {row'[j].order, mem'[j].order}
<1> DEFINE o == row[i].order
<1>1. /\ o # NoOrder /\ o \in Orders /\ order[o].status = "valid" /\ row[i].key = NoKey
      /\ \A k \in Id : k > i /\ row[k].cert = row[i].cert => o \notin {row[k].order, mem[k].order}
  BY RowFields DEF Settled, Ended, IInv, TypeOK
<1>2. order'[o].csr # NoKey
  BY <1>1, OrderStep DEF OrderGrows, FinalizedOrders
<1> HIDE DEF o
<1>3. CASE ~\E q \in Request : CreateIssuance(q)
  <2>1. RowWrite(j)
    BY <1>3, RowStep DEF IInv
  <2>2. row[j].cert = row[i].cert
    BY <2>1 DEF RowWrite
  <2>3. o \notin {row[j].order, mem[j].order}
    BY <1>1, <2>2
  <2>4. row'[j].order # o
    BY <2>1, <2>3 DEF RowWrite
  <2>5. MemOrder(j)
    BY <1>3, MemStep, OrderStep
  <2>6. mem'[j].order # o
    BY <1>1, <1>2, <2>3, <2>5 DEF MemOrder
  <2> QED BY <2>4, <2>6 DEF o
<1>4. ASSUME NEW q \in Request, NEW k \in Id, Inserted(Target[q], k)
      PROVE  o \notin {row'[j].order, mem'[j].order}
  <2>1. CASE j # k
    BY <1>1, <1>4, <2>1 DEF Inserted
  <2>2. CASE j = k
    <3>1. CASE row'[k].order = NoOrder
      BY <1>1, <1>4, <2>2, <3>1 DEF Inserted
    <3>2. CASE row'[k].order # NoOrder
      <4>1. PICK last \in Id :
              /\ row[last].cert = Target[q] /\ ~Superseded(last) /\ row[last].key # NoKey
              /\ row'[k].order = row[last].order
        BY <1>4, <3>2 DEF Inserted
      <4>2. row[last].cert = row[i].cert
        BY <1>4, <2>2, <4>1 DEF Inserted
      <4>3. last > i
        BY <1>1, <4>1, <4>2, IdOrder DEF Superseded
      <4>4. row[last].order # o
        BY <1>1, <4>2, <4>3
      <4> QED BY <1>4, <2>2, <4>1, <4>4 DEF Inserted
    <3> QED BY <3>1, <3>2
  <2> QED BY <2>1, <2>2
<1> QED BY <1>3, <1>4, StartRow DEF o

LEMMA SettledKept ==
  ASSUME OneCallPerCertificate, ExclusiveNames, ~StoreMayFail,
         IInv, IInv', [Next]_vars, RecordInv, NEW i \in Id
  PROVE  Settled(i)'
<1> SUFFICES ASSUME row'[i].status = "succeeded"
             PROVE  /\ Ended(i, row[i].order)' /\ row'[i].key = NoKey
                    /\ \A j \in Id : j > i /\ row'[j].cert = row'[i].cert =>
                         row'[i].order \notin {row'[j].order, mem'[j].order}
  BY DEF Settled
<1>1. Holding(i) /\ Settled(i) /\ row[i] \in Row /\ mem[i] \in Row
  BY DEF RecordInv, IInv, TypeOK
<1>2. CASE row[i].status = "succeeded"
  <2>1. row'[i] = row[i]
    <3>1. ASSUME NEW q \in Request, NEW k \in Id, Inserted(Target[q], k)  PROVE row'[i] = row[i]
      BY <1>2, <3>1, AbsentFields DEF Inserted
    <3>2. ASSUME RowWrite(i)  PROVE row'[i] = row[i]
      BY <1>2, <3>2 DEF RowWrite, Unfinished
    <3> QED BY <3>1, <3>2, RowsStep
  <2>2. ASSUME NEW o, o = row[i].order  PROVE Ended(i, o)'
    <3>1. \A k \in Id : pc[k] \in Recorded \cup {"record"} => mem[k].order # o
      BY <1>1, <1>2, <2>2, DoneAlone
    <3>2. Ended(i, o) /\ o \in Orders \cup {NoOrder}
      BY <1>1, <1>2, <2>2, RowFields DEF Settled
    <3> QED BY <3>1, <3>2, EndedKept
  <2>3. Ended(i, row[i].order)'
    BY <2>1, <2>2 DEF Ended
  <2> QED BY <1>1, <1>2, <2>1, <2>3, LaterApart DEF Settled
<1>3. CASE row[i].status # "succeeded"
  <2>1. /\ Step(i) /\ pc[i] = "publish" /\ row'[i] = mem[i] /\ ~Superseded(i)
        /\ \A j \in Id \ {i} : row'[j] = row[j]
    BY <1>3, Succeeds
  <2>2. Ended(i, mem[i].order) /\ mem[i].key = NoKey /\ mem[i].cert = row[i].cert
    BY <1>1, <2>1 DEF Holding, IInv, WorkerInv, OwnsRow
  <2>3. ASSUME NEW o, o = mem[i].order  PROVE Ended(i, o)'
    <3>1. \A k \in Id : pc[k] \in Recorded \cup {"record"} => mem[k].order # o
      BY <2>1, <2>2, <2>3, LiveAlone DEF Ended
    <3>2. o \in Orders \cup {NoOrder}
      BY <1>1, <2>3, RowFields
    <3> QED BY <2>2, <2>3, <3>1, <3>2, EndedKept
  <2>4. Ended(i, row[i].order)'
    BY <2>1, <2>3 DEF Ended
  <2>5. \A j \in Id : j > i => row'[j].cert # row'[i].cert
    BY <2>1, <2>2, IdOrder DEF Superseded
  <2> QED BY <2>1, <2>2, <2>4, <2>5
<1> QED BY <1>2, <1>3

\* The row of a succeeded issuance's order is its own and says valid, while the
\* store accepts every write, retries do not race and no certificates share their
\* domains (issue: CreateOrder and the deferred UpdateOrderStatus).
THEOREM OrderRowOfSuccess ==
  ASSUME OneCallPerCertificate, ExclusiveNames, ~StoreMayFail
  PROVE  Spec => []SucceededOrderRecorded
<1>1. ASSUME Init  PROVE RecordInv
  <2>1. \A i \in Id : row[i].status # "succeeded"
    <3>1. CASE row = [i \in Id |-> Absent]
      BY <3>1, AbsentFields
    <3>2. ASSUME NEW c \in Cert,
                 row = [[i \in Id |-> Absent] EXCEPT
                          ![1] = [Absent EXCEPT !.cert = c, !.status = "running"]]
          PROVE  \A i \in Id : row[i].status # "succeeded"
      BY <3>2, AbsentFields DEF Absent
    <3> QED BY <1>1, <3>1, <3>2 DEF Init
  <2>2. \A i \in Id : pc[i] = "idle"
    BY <1>1 DEF Init
  <2> QED BY <2>1, <2>2 DEF RecordInv, Holding, Settled, Recorded
<1>2. IInv /\ IInv' /\ RecordInv /\ [Next]_vars => RecordInv'
  BY HoldingKept, SettledKept DEF RecordInv
<1>3. RecordInv => SucceededOrderRecorded
  BY DEF RecordInv, Settled, Ended, SucceededOrderRecorded
<1> QED BY <1>1, <1>2, <1>3, Invariance, PTL DEF Spec

-----------------------------------------------------------------------------
(* What is left of a job. *)

LEMMA RemainingIs ==
  /\ Remaining("idle") = 0 /\ Remaining("exit") = 1 /\ Remaining("publish") = 2
  /\ Remaining("checkpoint") = 2 /\ Remaining("returned") = 3 /\ Remaining("install") = 4
  /\ Remaining("download") = 5 /\ Remaining("finalize") = 6 /\ Remaining("validate") = 7
  /\ Remaining("answer") = 8 /\ Remaining("confirm") = 9 /\ Remaining("check") = 10
  /\ Remaining("await") = 11 /\ Remaining("ask") = 12 /\ Remaining("present") = 13
  /\ Remaining("authorize") = 14 /\ Remaining("record") = 15 /\ Remaining("persist") = 16
  /\ Remaining("get") = 16 /\ Remaining("create") = 17 /\ Remaining("begin") = 18
  /\ Remaining("timer") = 19
  BY DEF Remaining

\* What a submission changes of the CA's orders.
LEMMA SubmitChanges ==
  ASSUME IInv, NEW i \in Id, SubmitCSR(i)
  PROVE  order[mem[i].order].status = "ready" /\ order' # order
<1> DEFINE o == mem[i].order
<1>1. /\ o \in Orders /\ order[o] \in Order /\ order \in [Orders -> Order] /\ mem[i].key # NoKey
  BY RowFields DEF SubmitCSR, IInv, TypeOK, WorkerInv, OwnsRow, OrderSaved, Recorded, Row
<1>2. CASE Accept(o, mem[i].key)
  <2>1. PICK s \in {"processing", "valid"} :
          order' = [order EXCEPT ![o] = [@ EXCEPT !.status = s, !.csr = mem[i].key]]
    BY <1>2 DEF Accept
  <2>2. order'[o].status = s /\ order[o].status = "ready"
    BY <1>1, <1>2, <2>1 DEF Order, Accept
  <2> QED BY <2>2
<1>3. CASE order[o].status = "ready" /\ order[o].late = NoKey
           /\ order' = [order EXCEPT ![o].late = mem[i].key]
  <2>1. order'[o].late = mem[i].key
    BY <1>1, <1>3 DEF Order
  <2> QED BY <1>1, <1>3, <2>1
<1> QED BY <1>2, <1>3 DEF SubmitCSR

\* A step leads on, or back for one of three reasons.
LEMMA StepGoesForward ==
  ASSUME IInv, NEW i \in Id, Step(i)
  PROVE  Remaining(pc'[i]) < Remaining(pc[i]) \/ GoesBack(i)
<1> /\ TypeOK /\ pc \in [Id -> Label] /\ mem \in [Id -> Row] /\ mem[i] \in Row
  BY DEF IInv, TypeOK
<1> DEFINE Forward == Remaining(pc'[i]) < Remaining(pc[i]) \/ GoesBack(i)
\* issue() may return from every step of an attempt.
<1>1. ASSUME NEW kind, Return(i, kind), pc[i] \notin {"idle", "exit", "publish", "checkpoint",
                                                      "returned"}
      PROVE  Forward
  <2>1. pc'[i] = "returned"
    BY <1>1 DEF Return, Goto
  <2>2. Remaining(pc[i]) \in 4..19
    BY <1>1, RemainingIs DEF Label
  <2> QED BY <2>1, <2>2, RemainingIs
<1>2. ASSUME NEW l, Goto(i, l)  PROVE pc'[i] = l
  BY <1>2 DEF Goto
<1>3. ASSUME TimerFires(i)  PROVE Forward
  BY <1>2, <1>3, RemainingIs DEF TimerFires
<1>4. ASSUME BeginAttempt(i)  PROVE Forward
  <2>1. pc[i] = "begin" /\ (pc'[i] \in {"create", "get"} \/ \E kind : Return(i, kind))
    BY <1>2, <1>4 DEF BeginAttempt
  <2> QED BY <1>1, <2>1, RemainingIs
<1>5. ASSUME StepFails(i)  PROVE Forward
  BY <1>1, <1>5 DEF StepFails, NetworkSteps, StoreSteps
<1>6. ASSUME Returned(i)  PROVE Forward
  <2>1. pc[i] = "returned"
    BY <1>6 DEF Returned
  <2>2. ASSUME NEW status, NEW kind, Finish(i, status, kind)  PROVE Forward
    BY <1>2, <2>1, <2>2, RemainingIs DEF Finish
  <2>3. ASSUME Goto(i, "checkpoint")  PROVE Forward
    BY <1>2, <2>1, <2>3, RemainingIs
  <2>4. ASSUME ScheduleRetry(i), service # "closing", ~canceled[i], AttemptsLeft(i)
        PROVE  Forward
    <3>1. mem'[i].attempts = mem[i].attempts
      BY <2>4, RowKeeps DEF ScheduleRetry
    <3> QED BY <1>2, <2>1, <2>4, <3>1, RemainingIs DEF ScheduleRetry, AttemptsLeft, GoesBack, CtxDone
  <2> QED BY <1>6, <2>2, <2>3, <2>4 DEF Returned
<1>7. ASSUME SaveAndStop(i) \/ Exit(i)  PROVE Forward
  BY <1>2, <1>7, RemainingIs DEF SaveAndStop, Exit
<1>8. ASSUME CreateOrder(i)  PROVE Forward
  <2>1. pc[i] = "create" /\ (pc'[i] = "persist" \/ \E kind : Return(i, kind))
    BY <1>2, <1>8 DEF CreateOrder
  <2> QED BY <1>1, <2>1, RemainingIs
<1>9. ASSUME PersistOrder(i)  PROVE Forward
  <2>1. pc[i] = "persist" /\ (pc'[i] = "record" \/ \E kind : Return(i, kind))
    BY <1>2, <1>9 DEF PersistOrder
  <2> QED BY <1>1, <2>1, RemainingIs
<1>10. ASSUME GetOrder(i) \/ RecordOrder(i) \/ GetAuthorization(i)  PROVE Forward
  <2>1. \/ pc[i] = "get" /\ pc'[i] = "record"
        \/ pc[i] = "record" /\ pc'[i] \in {"authorize", "finalize"}
        \/ pc[i] = "authorize" /\ pc'[i] \in {"present", "finalize"}
    BY <1>2, <1>10 DEF GetOrder, RecordOrder, GetAuthorization
  <2> QED BY <2>1, RemainingIs
<1>11. ASSUME Present(i) \/ AskOperator(i) \/ ConfirmDNS(i)  PROVE Forward
  <2>1. \/ pc[i] = "present" /\ pc'[i] \in {"ask", "answer"}
        \/ pc[i] = "ask" /\ pc'[i] = "await"
        \/ pc[i] = "confirm" /\ pc'[i] = "answer"
    BY <1>2, <1>11 DEF Present, AskOperator, ConfirmDNS
  <2> QED BY <2>1, RemainingIs
<1>12. ASSUME CheckDNS(i)  PROVE Forward
  BY <1>2, <1>12, RemainingIs DEF CheckDNS, GoesBack
<1>13. ASSUME CompleteChallenge(i)  PROVE Forward
  <2>1. pc[i] = "answer" /\ (pc'[i] = "validate" \/ \E kind : Return(i, kind))
    BY <1>2, <1>13 DEF CompleteChallenge
  <2> QED BY <1>1, <2>1, RemainingIs
<1>14. ASSUME WaitAuthorization(i)  PROVE Forward
  <2>1. pc[i] = "validate" /\ (pc'[i] = "finalize" \/ \E kind : Return(i, kind))
    BY <1>2, <1>14 DEF WaitAuthorization
  <2> QED BY <1>1, <2>1, RemainingIs
<1>15. ASSUME SubmitCSR(i)  PROVE Forward
  <2>1. /\ pc[i] = "finalize" /\ ~CtxDone(i)
        /\ pc'[i] = "finalize" \/ pc'[i] = "download" \/ \E kind : Return(i, kind)
    BY <1>2, <1>15 DEF SubmitCSR
  <2> QED BY <1>1, <1>15, <2>1, SubmitChanges, RemainingIs DEF GoesBack
<1>16. ASSUME WaitOrder(i) \/ Download(i)  PROVE Forward
  <2>1. \/ pc[i] = "finalize" /\ (pc'[i] = "download" \/ \E kind : Return(i, kind))
        \/ pc[i] = "download" /\ (pc'[i] = "install" \/ \E kind : Return(i, kind))
    BY <1>2, <1>16 DEF WaitOrder, Download
  <2> QED BY <1>1, <2>1, RemainingIs
<1>17. ASSUME Install(i)  PROVE Forward
  BY <1>1, <1>17 DEF Install
<1> QED
  BY <1>3, <1>4, <1>5, <1>6, <1>7, <1>8, <1>9, <1>10, <1>11, <1>12, <1>13, <1>14, <1>15, <1>16,
     <1>17 DEF Step

\* A job repeats only what the retry budget, the operator or a submission of its own
\* allows, and nothing once its context is done: what Finishes, CancelFinishes and
\* CloseReturns need besides the fairness of the worker's steps.
THEOREM JobsMoveOn == Spec => GoesForward
<1>1. IInv /\ [Next]_vars =>
        [\A i \in Id : Step(i) => Remaining(pc'[i]) < Remaining(pc[i]) \/ GoesBack(i)]_vars
  BY StepGoesForward
<1> QED BY <1>1, Invariance, PTL DEF Spec, GoesForward
=============================================================================
