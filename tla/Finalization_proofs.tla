------------------------ MODULE Finalization_proofs ------------------------
(***************************************************************************)
(* The proof that Client implements the part of Issuance it stands for, for  *)
(* any number of concurrent calls, nonces and attempts: every step of a call *)
(* of FinalizeAndWait, of the CA and of the network is one of the steps      *)
(* Issuance allows its worker at "finalize" and its CA, or changes nothing  *)
(* Issuance knows of.                                                      *)
(***************************************************************************)
EXTENDS Finalization, Client_proofs

USE FinalizationAssumption

-----------------------------------------------------------------------------
(* What a step of Client does to the order and the outcome of one call. *)

\* What the caller and the CA see of call q.
Unseen(q) == order'[q] = order[q] /\ late'[q] = late[q]

\* Nobody sees the call move.
GoesOn(q) ==
    /\ Unseen(q) /\ (call'[q].pc = "done" <=> call[q].pc = "done")
    /\ call[q].pc = "done" => call'[q].result = call[q].result

\* It returns without a word to the CA.
Ends(q) ==
    /\ Unseen(q) /\ call[q].pc # "done" /\ call'[q].pc = "done"
    /\ call'[q].result = "valid" => order[q] = "valid"

\* It submits its CSR to a ready order.
Submits(q) ==
    /\ call[q].pc # "done" /\ order[q] = "ready"
    /\ \/ order'[q] \in {"processing", "valid"} /\ late'[q] = late[q]
       \/ order'[q] = "ready" /\ late[q] = "none" /\ late'[q] = "sent"
    /\ \/ call'[q].pc # "done"
       \/ call'[q].pc = "done" /\ call'[q].result = "valid" /\ order'[q] = "valid"
       \/ call'[q].pc = "done" /\ call'[q].result \notin {"valid", "refused"}

Advances(q) ==
    /\ call'[q] = call[q] /\ late'[q] = late[q]
    /\ \/ order[q] = "pending" /\ order'[q] = "ready"
       \/ order[q] = "processing" /\ order'[q] = "valid"
       \/ order[q] \in {"pending", "ready", "processing"} /\ order'[q] = "invalid"

Delivers(q) ==
    /\ call'[q] = call[q] /\ late[q] = "sent" /\ late'[q] # "sent"
    /\ IF order[q] = "ready" THEN order'[q] \in {"processing", "valid"}
                             ELSE order'[q] = order[q]

\* Another call's steps change nothing of this one.
LEMMA OthersApart ==
  ASSUME TypeOK, NEW q \in Caller, NEW p \in Caller \ {q}, Step(p) \/ Expire(p) \/ CAAdvances(p)
                                                \/ DeliverLate(p) \/ RetryTime(p)
  PROVE  Unseen(q) /\ call'[q] = call[q]
<1> /\ call \in [Caller -> Locals] /\ order \in [Caller -> Status]
    /\ late \in [Caller -> {"none", "sent", "delivered"}]
  BY DEF TypeOK
<1> DEFINE Apart == Unseen(q) /\ call'[q] = call[q]
<1>1. ASSUME GetNonce(p) \/ TakeHead(p)  PROVE Apart
  BY <1>1 DEF GetNonce, TakeHead, TakeNonce, Unseen
<1>2. ASSUME Head(p) \/ Rest(p)  PROVE Apart
  BY <1>2 DEF Head, Rest, Unseen
<1>3. ASSUME BadNonce(p) \/ ReadAnswered(p) \/ Rejected(p)  PROVE Apart
  BY <1>3 DEF BadNonce, ReadAnswered, Rejected, Unseen
<1>4. ASSUME NoAnswer(p) \/ Accepted(p)  PROVE Apart
  BY <1>4 DEF NoAnswer, Accepted, Accept, Unseen
<1>5. ASSUME Delay(p) \/ Pause(p) \/ Backoff(p)  PROVE Apart
  BY <1>5 DEF Delay, Pause, Backoff, Unseen
<1>6. ASSUME Expire(p) \/ RetryTime(p)  PROVE Apart
  BY <1>6 DEF Expire, RetryTime, Unseen
<1>7. ASSUME CAAdvances(p) \/ DeliverLate(p)  PROVE Apart
  BY <1>7 DEF CAAdvances, DeliverLate, Accept, Unseen
<1> QED BY <1>1, <1>2, <1>3, <1>4, <1>5, <1>6, <1>7 DEF Step

\* A call that fails, or goes on waiting, returns no success.
LEMMA FailureEnds ==
  ASSUME TypeOK, NEW q \in Caller, NEW e \in Error, Unseen(q), call[q].pc # "done",
         call' = [call EXCEPT ![q] = Failed(call[q], e)]
  PROVE  GoesOn(q) \/ Ends(q)
<1>1. call[q] \in Locals /\ call'[q] = Failed(call[q], e)
  BY DEF TypeOK
<1>2. Failed(call[q], e).result # "valid"
  BY <1>1, FailedType
<1> QED BY <1>1, <1>2 DEF GoesOn, Ends

LEMMA OwnStep ==
  ASSUME IInv, NEW q \in Caller, Step(q)
  PROVE  GoesOn(q) \/ Ends(q) \/ Submits(q)
<1> /\ TypeOK /\ call \in [Caller -> Locals] /\ order \in [Caller -> Status] /\ call[q] \in Locals
    /\ late \in [Caller -> {"none", "sent", "delivered"}]
  BY DEF IInv, TypeOK
<1> DEFINE Own == GoesOn(q) \/ Ends(q) \/ Submits(q)
<1> {"transient", "limited", "permanent", "notReady", "refused"} \subseteq Error
    /\ Transient \subseteq Error
  BY DEF Error, Transient
<1>1. ASSUME NEW c, c.pc # "done", call' = [call EXCEPT ![q] = c], Unseen(q), call[q].pc # "done"
      PROVE  Own
  BY <1>1 DEF GoesOn
<1>2. ASSUME GetNonce(q)  PROVE Own
  <2>1. call[q].pc = "nonce" /\ Unseen(q)
    BY <1>2 DEF GetNonce, Unseen
  <2>2. call'[q].pc # "done"
    BY <1>2 DEF GetNonce, TakeNonce, Goto, Locals
  <2> QED BY <2>1, <2>2 DEF GoesOn
<1>3. ASSUME TakeHead(q)  PROVE Own
  <2>1. call[q].pc = "take" /\ Unseen(q)
    BY <1>3 DEF TakeHead, Unseen
  <2>2. CASE nonce # NoNonce
    BY <1>3, <2>1, <2>2 DEF TakeHead, TakeNonce, GoesOn, Locals
  <2>3. CASE nonce = NoNonce
    BY <1>3, <2>1, <2>3, FailureEnds DEF TakeHead, TakeNonce
  <2> QED BY <2>2, <2>3
<1>4. ASSUME Head(q)  PROVE Own
  <2>1. call[q].pc = "head" /\ Unseen(q)
    BY <1>4 DEF Head, Unseen
  <2>2. ASSUME NEW e \in Error, call' = [call EXCEPT ![q] = Failed(call[q], e)]  PROVE Own
    BY <2>1, <2>2, FailureEnds
  <2>3. ASSUME call' = [call EXCEPT ![q] = Goto(call[q], "take")]  PROVE Own
    BY <2>1, <2>3 DEF Goto, Locals, GoesOn
  <2>4. ASSUME NEW h, call' = [call EXCEPT ![q] = [Goto(call[q], "rest") EXCEPT !.held = h]]
        PROVE  Own
    BY <2>1, <2>4 DEF Goto, Locals, GoesOn
  <2> QED BY <1>4, <2>2, <2>3, <2>4 DEF Head
<1>5. ASSUME Rest(q)  PROVE Own
  <2>1. call[q].pc = "rest" /\ Unseen(q)
    BY <1>5 DEF Rest, Unseen
  <2>2. ASSUME NEW e \in Error, call' = [call EXCEPT ![q] = Failed(call[q], e)]  PROVE Own
    BY <2>1, <2>2, FailureEnds
  <2>3. ASSUME call' = [call EXCEPT ![q] = [call[q] EXCEPT !.pc = "head", !.heads = @ + 1]]
        PROVE  Own
    BY <2>1, <2>3 DEF Locals, GoesOn
  <2> QED BY <1>5, <2>2, <2>3 DEF Rest
<1>6. ASSUME BadNonce(q)  PROVE Own
  <2>1. call[q].pc = "send" /\ Unseen(q)
    BY <1>6 DEF BadNonce, Unseen
  <2>2. CASE call[q].resent
    BY <1>6, <2>1, <2>2, FailureEnds DEF BadNonce
  <2>3. CASE ~call[q].resent
    BY <1>6, <2>1, <2>3 DEF BadNonce, Locals, GoesOn
  <2> QED BY <2>2, <2>3
<1>7. ASSUME NoAnswer(q)  PROVE Own
  <2>1. PICK e \in Transient :
          /\ call[q].pc = "send" /\ call' = [call EXCEPT ![q] = Failed(call[q], e)]
          /\ \/ UNCHANGED <<order, late>>
             \/ Accept(q) /\ UNCHANGED late
             \/ /\ order[q] = "ready" /\ late[q] = "none" /\ late' = [late EXCEPT ![q] = "sent"]
                /\ UNCHANGED order
    BY <1>7 DEF NoAnswer
  <2>2. call'[q] = Failed(call[q], e) /\ e \in Error /\ e # "refused"
    BY <2>1 DEF Transient, Error
  <2>3. call'[q].result \notin {"valid", "refused"}
    BY <2>2, FailedType
  <2>4. CASE UNCHANGED <<order, late>>
    BY <2>1, <2>2, <2>4, FailureEnds DEF Unseen
  <2>5. CASE Accept(q) /\ UNCHANGED late
    BY <2>1, <2>3, <2>5 DEF Accept, Submits
  <2>6. CASE /\ order[q] = "ready" /\ late[q] = "none" /\ late' = [late EXCEPT ![q] = "sent"]
             /\ UNCHANGED order
    BY <2>1, <2>3, <2>6 DEF Submits
  <2> QED BY <2>1, <2>4, <2>5, <2>6
<1>8. ASSUME ReadAnswered(q)  PROVE Own
  <2>1. call[q].pc = "send" /\ Unseen(q)
    BY <1>8 DEF ReadAnswered, Unseen
  <2>2. ASSUME call' = [call EXCEPT ![q] = Failed(call[q], "permanent")]  PROVE Own
    BY <2>1, <2>2, FailureEnds
  <2>3. ASSUME call' = [call EXCEPT ![q] = Seen(q, order[q])]  PROVE Own
    <3>1. Seen(q, order[q]).result = "valid" => order[q] = "valid"
      BY SeenType
    <3> QED BY <2>1, <2>3, <3>1 DEF GoesOn, Ends
  <2> QED BY <1>8, <2>2, <2>3 DEF ReadAnswered
<1>9. ASSUME Accepted(q)  PROVE Own
  <2>1. call[q].pc = "send" /\ UNCHANGED late
        /\ call'[q] = IF order'[q] = "valid" THEN Done("valid") ELSE Wait(call[q], "backoff", 1)
    BY <1>9 DEF Accepted
  <2>2. order[q] = "ready" /\ order'[q] \in {"processing", "valid"}
    BY <1>9 DEF Accepted, Accept
  <2>3. Done("valid").pc = "done" /\ Done("valid").result = "valid"
        /\ Wait(call[q], "backoff", 1).pc = "backoff"
    BY DEF Done, Wait, Called
  <2> QED BY <2>1, <2>2, <2>3 DEF Submits
<1>10. ASSUME Rejected(q)  PROVE Own
  <2>1. call[q].pc = "send" /\ Unseen(q)
    BY <1>10 DEF Rejected, Unseen
  <2> QED BY <1>10, <2>1, FailureEnds DEF Rejected
<1>11. ASSUME Delay(q) \/ Backoff(q)  PROVE Own
  <2>1. call[q].pc \in {"delay", "backoff"} /\ Unseen(q)
    BY <1>11 DEF Delay, Backoff, Unseen
  <2>2. Interrupted(call[q]).result = "failed" /\ Interrupted(call[q]).pc = "done"
    BY InterruptedType
  <2>3. call'[q].pc # "done" \/ call'[q] = Interrupted(call[q])
    BY <1>11 DEF Delay, Backoff, Goto, Locals
  <2> QED BY <2>1, <2>2, <2>3 DEF GoesOn, Ends
<1>12. ASSUME Pause(q)  PROVE Own
  <2>1. call[q].pc = "pause" /\ Unseen(q)
    BY <1>12 DEF Pause, Unseen
  <2>2. Done("failed").pc = "done" /\ Done("failed").result = "failed"
    BY DEF Done, Called
  <2>3. call'[q].pc # "done" \/ call'[q] = Done("failed")
    BY <1>12 DEF Pause, Goto, Locals
  <2> QED BY <2>1, <2>2, <2>3 DEF GoesOn, Ends
<1> QED
  BY <1>2, <1>3, <1>4, <1>5, <1>6, <1>7, <1>8, <1>9, <1>10, <1>11, <1>12 DEF Step

\* Every step of Client, seen from one call.
LEMMA CallStep ==
  ASSUME IInv, [Next]_vars, NEW q \in Caller
  PROVE  GoesOn(q) \/ Ends(q) \/ Submits(q) \/ Advances(q) \/ Delivers(q)
<1> /\ TypeOK /\ call \in [Caller -> Locals] /\ order \in [Caller -> Status] /\ call[q] \in Locals
    /\ late \in [Caller -> {"none", "sent", "delivered"}]
  BY DEF IInv, TypeOK
<1>1. ASSUME NEW p \in Caller \ {q},
             Step(p) \/ Expire(p) \/ CAAdvances(p) \/ DeliverLate(p) \/ RetryTime(p)
      PROVE  GoesOn(q)
  BY <1>1, OthersApart DEF GoesOn
<1>2. ASSUME Step(q)  PROVE GoesOn(q) \/ Ends(q) \/ Submits(q)
  BY <1>2, OwnStep
<1>3. ASSUME Expire(q) \/ RetryTime(q)  PROVE GoesOn(q)
  <2>1. call'[q].pc = call[q].pc /\ call'[q].result = call[q].result
    <3>1. CASE Expire(q)
      BY <1>3, <3>1 DEF Expire, Locals
    <3>2. CASE RetryTime(q)
      BY <1>3, <3>2 DEF RetryTime, Locals
    <3> QED BY <1>3, <3>1, <3>2
  <2>2. Unseen(q)
    BY <1>3 DEF Expire, RetryTime, Unseen
  <2> QED BY <2>1, <2>2 DEF GoesOn
<1>4. ASSUME CAAdvances(q)  PROVE Advances(q)
  <2>1. order[q] = "invalid" => [order EXCEPT ![q] = "invalid"] = order
    OBVIOUS
  <2>2. order[q] \in {"pending", "ready", "processing", "valid", "invalid"}
    BY DEF Status
  <2> QED BY <1>4, <2>1, <2>2 DEF CAAdvances, Advances
<1>5. ASSUME DeliverLate(q)  PROVE Delivers(q)
  BY <1>5 DEF DeliverLate, Accept, Delivers
<1>6. CASE UNCHANGED vars
  BY <1>6 DEF vars, GoesOn, Unseen
<1> QED BY <1>1, <1>2, <1>3, <1>4, <1>5, <1>6 DEF Next, Returned

-----------------------------------------------------------------------------
(* The same steps, seen by Issuance. *)

\* The CA has accepted the CSR of an order that says so.
AcceptedKnown == order[Call] \in {"processing", "valid"} => accepted

FinalInv == IInv /\ AcceptedKnown /\ accepted \in BOOLEAN

LEMMA OneIssuance == 1..1 = {1}
  OBVIOUS

LEMMA OneWrite ==
  ASSUME NEW a, NEW b
  PROVE  /\ [i \in 1..1 |-> a][1] = a
         /\ [[i \in 1..1 |-> a] EXCEPT ![1] = b] = [i \in 1..1 |-> b]
  BY OneIssuance

\* The worker fails: the call returns an error.
LEMMA WorkerFails ==
  ASSUME At = "finalize", At' = "returned", Knows' = Knows, Knows = Read,
         ReturnedError' \in {"transient", "permanent"}, CAOrder' = CAOrder
  PROVE  Worker!Next
<1> DEFINE kind == ReturnedError'
<1>1. Worker!Return(1, kind)
  BY OneWrite DEF Worker!Return, Worker!Goto, Worker!Recorded, Submission
<1>2. Worker!StepFails(1)
  BY <1>1, OneWrite DEF Worker!StepFails, Worker!NetworkSteps, Submission
<1> QED BY <1>2, OneIssuance DEF Worker!Next, Worker!Step, Worker!Id

\* The worker submits its key, and goes on waiting, succeeds or gives up.
LEMMA WorkerSubmits ==
  ASSUME At = "finalize", Knows = Read, CAOrder.status = "ready",
         \/ \E s \in {"processing", "valid"} : CAOrder' = [CAOrder EXCEPT !.status = s, !.csr = 1]
         \/ CAOrder.late = 0 /\ CAOrder' = [CAOrder EXCEPT !.late = 1],
         \/ UNCHANGED <<At, Knows, ReturnedError>>
         \/ /\ At' = "download" /\ Knows' = "valid" /\ CAOrder'.status = "valid"
            /\ ReturnedError' = ReturnedError
         \/ At' = "returned" /\ Knows' = Knows /\ ReturnedError' = "transient"
  PROVE  Worker!Next
<1>1. \/ Worker!Accept(1, 1)
      \/ /\ [o \in 1..1 |-> CAOrder][1].late = 0
         /\ [o \in 1..1 |-> CAOrder'] = [[o \in 1..1 |-> CAOrder] EXCEPT ![1].late = 1]
  <2> DEFINE orders == [o \in 1..1 |-> CAOrder]
  <2>1. orders[1] = CAOrder /\ \A b : [orders EXCEPT ![1] = b] = [o \in 1..1 |-> b]
    BY OneWrite
  <2>2. ASSUME NEW s \in {"processing", "valid"}, CAOrder' = [CAOrder EXCEPT !.status = s, !.csr = 1]
        PROVE  Worker!Accept(1, 1)
    <3>1. orders' = [orders EXCEPT ![1] = [orders[1] EXCEPT !.status = s, !.csr = 1]]
      BY <2>1, <2>2
    <3> QED BY <2>1, <3>1 DEF Worker!Accept
  <2>3. ASSUME CAOrder.late = 0, CAOrder' = [CAOrder EXCEPT !.late = 1]
        PROVE  orders[1].late = 0 /\ orders' = [orders EXCEPT ![1].late = 1]
    BY <2>1, <2>3
  <2> QED BY <2>2, <2>3
<1>2. Worker!SubmitCSR(1)
  BY <1>1, OneWrite DEF Worker!SubmitCSR, Worker!Return, Worker!Goto, Worker!Recorded, Worker!CtxDone,
                  Worker!NoKey, Submission
<1> QED BY <1>2, OneIssuance DEF Worker!Next, Worker!Step, Worker!Id

\* The worker finds its order valid.
LEMMA WorkerSucceeds ==
  ASSUME At = "finalize", At' = "download", CAOrder.status = "valid", Knows' = "valid",
         UNCHANGED <<CAOrder, ReturnedError>>
  PROVE  Worker!Next
<1>1. Worker!WaitOrder(1)
  BY OneWrite DEF Worker!WaitOrder, Worker!Goto, Worker!CtxDone, Submission
<1> QED BY <1>1, OneIssuance DEF Worker!Next, Worker!Step, Worker!Id

\* The CA moves the order on by itself, or gets a submission nobody waits for.
LEMMA WorkerWaits ==
  ASSUME UNCHANGED <<At, Knows, ReturnedError>>,
         \/ \E s : /\ CAOrder' = [CAOrder EXCEPT !.status = s]
                   /\ \/ CAOrder.status = "pending" /\ CAOrder.authz = "valid" /\ s = "ready"
                      \/ CAOrder.status = "processing" /\ s = "valid"
                      \/ CAOrder.status \in {"pending", "ready", "processing"} /\ s = "invalid"
         \/ /\ CAOrder.late = 1
            /\ IF CAOrder.status = "ready"
               THEN \E s \in {"processing", "valid"} :
                      CAOrder' = [CAOrder EXCEPT !.status = s, !.csr = 1, !.late = 0]
               ELSE CAOrder' = [CAOrder EXCEPT !.late = 0]
  PROVE  Worker!Next
<1>1. ASSUME NEW s, CAOrder' = [CAOrder EXCEPT !.status = s],
             \/ CAOrder.status = "pending" /\ CAOrder.authz = "valid" /\ s = "ready"
             \/ CAOrder.status = "processing" /\ s = "valid"
             \/ CAOrder.status \in {"pending", "ready", "processing"} /\ s = "invalid"
      PROVE  Worker!CAAdvances(1)
  BY <1>1, OneWrite DEF Worker!CAAdvances, Worker!storeVars, Worker!jobVars
<1>2. ASSUME CAOrder.late = 1,
             IF CAOrder.status = "ready"
             THEN \E s \in {"processing", "valid"} :
                    CAOrder' = [CAOrder EXCEPT !.status = s, !.csr = 1, !.late = 0]
             ELSE CAOrder' = [CAOrder EXCEPT !.late = 0]
      PROVE  Worker!DeliverLate(1)
  <2> DEFINE orders == [o \in 1..1 |-> CAOrder]
  <2>1. orders[1] = CAOrder /\ \A b : [orders EXCEPT ![1] = b] = [o \in 1..1 |-> b]
    BY OneWrite
  <2>2. CASE CAOrder.status = "ready"
    <3>1. PICK s \in {"processing", "valid"} :
            CAOrder' = [CAOrder EXCEPT !.status = s, !.csr = 1, !.late = 0]
      BY <1>2, <2>2
    <3>2. orders' = [orders EXCEPT ![1] = [orders[1] EXCEPT !.status = s, !.csr = orders[1].late,
                                                           !.late = 0]]
      BY <1>2, <2>1, <3>1
    <3> QED BY <1>2, <2>1, <2>2, <3>2 DEF Worker!DeliverLate, Worker!storeVars, Worker!jobVars,
                                        Worker!NoKey
  <2>3. CASE CAOrder.status # "ready"
    <3>1. orders' = [orders EXCEPT ![1] = [orders[1] EXCEPT !.late = 0]]
      BY <1>2, <2>1, <2>3
    <3> QED BY <1>2, <2>1, <2>3, <3>1 DEF Worker!DeliverLate, Worker!storeVars, Worker!jobVars,
                                        Worker!NoKey
  <2> QED BY <2>2, <2>3
<1> QED BY <1>1, <1>2, OneIssuance DEF Worker!Next, Worker!Orders

-----------------------------------------------------------------------------
(* The refinement. *)

\* The order as Issuance has it, field by field.
Shape == [status : Status, names : {Domains}, authz : {"valid"}, answered : {TRUE},
          csr : {0, 1}, late : {0, 1}]

Shaped(status, csr, sent) ==
    [status |-> status, names |-> Domains, authz |-> "valid", answered |-> TRUE,
     csr |-> csr, late |-> sent]

LEMMA ShapeIs == ASSUME NEW r \in Shape  PROVE r = Shaped(r.status, r.csr, r.late)
  BY DEF Shape, Shaped

LEMMA ShapeWrites ==
  ASSUME NEW r \in Shape, NEW t \in Status
  PROVE  /\ [r EXCEPT !.status = t] = Shaped(t, r.csr, r.late)
         /\ [r EXCEPT !.status = t, !.csr = 1] = Shaped(t, 1, r.late)
         /\ [r EXCEPT !.status = t, !.csr = 1, !.late = 0] = Shaped(t, 1, 0)
         /\ [r EXCEPT !.late = 0] = Shaped(r.status, r.csr, 0)
         /\ [r EXCEPT !.late = 1] = Shaped(r.status, r.csr, 1)
<1>1. ASSUME NEW q \in Shape
      PROVE  /\ [q EXCEPT !.status = t] \in Shape /\ [q EXCEPT !.status = t].status = t
             /\ [q EXCEPT !.status = t].csr = q.csr /\ [q EXCEPT !.status = t].late = q.late
  BY DEF Shape
<1>2. ASSUME NEW q \in Shape
      PROVE  /\ [q EXCEPT !.csr = 1] \in Shape /\ [q EXCEPT !.csr = 1].csr = 1
             /\ [q EXCEPT !.csr = 1].status = q.status /\ [q EXCEPT !.csr = 1].late = q.late
  BY DEF Shape
<1>3. ASSUME NEW q \in Shape, NEW l \in {0, 1}
      PROVE  /\ [q EXCEPT !.late = l] \in Shape /\ [q EXCEPT !.late = l].late = l
             /\ [q EXCEPT !.late = l].status = q.status /\ [q EXCEPT !.late = l].csr = q.csr
  BY DEF Shape
<1> DEFINE s == [r EXCEPT !.status = t]
           c == [s EXCEPT !.csr = 1]
           d == [c EXCEPT !.late = 0]
<1>4. s \in Shape /\ s.status = t /\ s.csr = r.csr /\ s.late = r.late
  BY <1>1
<1> HIDE DEF s
<1>5. c \in Shape /\ c.status = t /\ c.csr = 1 /\ c.late = r.late
  BY <1>2, <1>4
<1> HIDE DEF c
<1>6. d \in Shape /\ d.status = t /\ d.csr = 1 /\ d.late = 0
  BY <1>3, <1>5
<1>7. ASSUME NEW l \in {0, 1}  PROVE [r EXCEPT !.late = l] = Shaped(r.status, r.csr, l)
  <2> DEFINE e == [r EXCEPT !.late = l]
  <2>1. e \in Shape /\ e.status = r.status /\ e.csr = r.csr /\ e.late = l
    BY <1>3
  <2> HIDE DEF e
  <2>2. e = Shaped(r.status, r.csr, l)
    BY <2>1, ShapeIs
  <2> QED BY <2>2 DEF e
<1>8. s = Shaped(t, r.csr, r.late) /\ c = Shaped(t, 1, r.late)
  BY <1>4, <1>5, ShapeIs
<1>9. d = Shaped(t, 1, 0)
  BY <1>6, ShapeIs
<1>10. /\ [r EXCEPT !.status = t] = Shaped(t, r.csr, r.late)
       /\ [r EXCEPT !.status = t, !.csr = 1] = Shaped(t, 1, r.late)
       /\ [r EXCEPT !.status = t, !.csr = 1, !.late = 0] = Shaped(t, 1, 0)
  BY <1>8, <1>9, Zenon DEF s, c, d
<1> QED BY <1>7, <1>10

\* What a step of a call is to Issuance.
LEMMA StepImplements ==
  ASSUME FinalInv, FinalNext
  PROVE  Worker!Next \/ UNCHANGED <<At, Knows, ReturnedError, CAOrder>>
<1> DEFINE Stays == UNCHANGED <<At, Knows, ReturnedError>>
<1>1. IInv /\ AcceptedKnown /\ [Next]_vars /\ Call \in Caller
      /\ accepted' = (accepted \/ order'[Call] \in {"processing", "valid"})
  BY ClientAssumption DEF FinalInv, FinalNext
<1>2. \/ At = "finalize" /\ Knows = Read /\ ReturnedError = "nil"
      \/ call[Call].pc = "done"
  BY DEF At, Knows, ReturnedError, Succeeds, Returns
<1>3. /\ CAOrder.status = order[Call] /\ CAOrder.authz = "valid"
      /\ CAOrder.late = IF late[Call] = "sent" THEN 1 ELSE 0
  BY DEF CAOrder
<1>4. /\ CAOrder \in Shape /\ CAOrder' \in Shape
      /\ CAOrder = Shaped(order[Call], CAOrder.csr, CAOrder.late)
      /\ CAOrder' = Shaped(order'[Call], CAOrder'.csr, CAOrder'.late)
      /\ CAOrder.csr = (IF accepted THEN 1 ELSE 0) /\ CAOrder'.csr = (IF accepted' THEN 1 ELSE 0)
      /\ CAOrder'.late = (IF late'[Call] = "sent" THEN 1 ELSE 0)
      /\ order[Call] \in Status /\ order'[Call] \in Status
  <2>1. order[Call] \in Status /\ order'[Call] \in Status
    BY <1>1, NextInvariant DEF IInv, TypeOK
  <2>2. CAOrder \in Shape /\ CAOrder' \in Shape
    BY <2>1 DEF CAOrder, Shape
  <2>3. CAOrder'.status = order'[Call]
    BY DEF CAOrder
  <2>4. /\ CAOrder.csr = (IF accepted THEN 1 ELSE 0) /\ CAOrder'.csr = (IF accepted' THEN 1 ELSE 0)
        /\ CAOrder'.late = (IF late'[Call] = "sent" THEN 1 ELSE 0)
    BY DEF CAOrder
  <2> QED BY <1>3, <2>1, <2>2, <2>3, <2>4, ShapeIs
<1>5. CASE GoesOn(Call)
  <2>1. Stays
    BY <1>5 DEF GoesOn, At, Knows, ReturnedError, Succeeds, Returns
  <2>2. accepted' = accepted
    BY <1>1, <1>5 DEF GoesOn, Unseen, AcceptedKnown, FinalInv
  <2> QED BY <1>5, <2>1, <2>2 DEF GoesOn, Unseen, CAOrder
<1>6. CASE Ends(Call)
  <2>1. CAOrder' = CAOrder
    BY <1>1, <1>6 DEF Ends, Unseen, AcceptedKnown, FinalInv, CAOrder
  <2>2. CASE call'[Call].result = "valid"
    <3>1. At' = "download" /\ Knows' = "valid" /\ ReturnedError' = "nil"
      BY <1>6, <2>2 DEF Ends, At, Knows, ReturnedError, Succeeds, Returns
    <3> QED BY <1>2, <1>3, <1>6, <2>1, <2>2, <3>1, WorkerSucceeds DEF Ends
  <2>3. CASE call'[Call].result # "valid"
    <3>1. At' = "returned" /\ Knows' = Read /\ ReturnedError' \in {"transient", "permanent"}
      BY <1>6, <2>3 DEF Ends, At, Knows, ReturnedError, Succeeds, Returns
    <3> QED BY <1>2, <1>6, <2>1, <3>1, WorkerFails DEF Ends
  <2> QED BY <2>2, <2>3
<1>7. CASE Submits(Call)
  <2>1. At = "finalize" /\ Knows = Read /\ CAOrder.status = "ready"
    BY <1>2, <1>3, <1>7 DEF Submits
  <2>2. \/ \E s \in {"processing", "valid"} : CAOrder' = [CAOrder EXCEPT !.status = s, !.csr = 1]
        \/ CAOrder.late = 0 /\ CAOrder' = [CAOrder EXCEPT !.late = 1]
    <3>1. CASE order'[Call] \in {"processing", "valid"} /\ late'[Call] = late[Call]
      <4>1. CAOrder' = Shaped(order'[Call], 1, CAOrder.late)
        BY <1>1, <1>3, <1>4, <3>1
      <4> QED BY <1>4, <3>1, <4>1, ShapeWrites
    <3>2. CASE order'[Call] = "ready" /\ late[Call] = "none" /\ late'[Call] = "sent"
      <4>1. CAOrder' = Shaped(CAOrder.status, CAOrder.csr, 1)
        BY <1>1, <1>3, <1>4, <2>1, <3>2 DEF FinalInv
      <4> QED BY <1>3, <1>4, <3>2, <4>1, ShapeWrites
    <3> QED BY <1>7, <3>1, <3>2 DEF Submits
  <2>3. \/ Stays
        \/ /\ At' = "download" /\ Knows' = "valid" /\ CAOrder'.status = "valid"
           /\ ReturnedError' = ReturnedError
        \/ At' = "returned" /\ Knows' = Knows /\ ReturnedError' = "transient"
    BY <1>2, <1>7 DEF Submits, CAOrder, At, Knows, ReturnedError, Succeeds, Returns
  <2> QED BY <2>1, <2>2, <2>3, WorkerSubmits
<1>8. CASE Advances(Call)
  <2>1. Stays
    BY <1>8 DEF Advances, At, Knows, ReturnedError, Succeeds, Returns
  <2>2. accepted' = accepted
    BY <1>1, <1>8 DEF Advances, AcceptedKnown, FinalInv
  <2>3. CAOrder' = [CAOrder EXCEPT !.status = order'[Call]]
    <3>1. CAOrder' = Shaped(order'[Call], CAOrder.csr, CAOrder.late)
      BY <1>3, <1>4, <1>8, <2>2 DEF Advances
    <3> QED BY <1>4, <3>1, ShapeWrites
  <2> QED BY <1>3, <1>8, <2>1, <2>3, WorkerWaits DEF Advances
<1>9. CASE Delivers(Call)
  <2>1. Stays
    BY <1>9 DEF Delivers, At, Knows, ReturnedError, Succeeds, Returns
  <2>2. CAOrder.late = 1
    BY <1>3, <1>9 DEF Delivers
  <2>3. CASE order[Call] = "ready"
    <3>1. \E s \in {"processing", "valid"} :
            CAOrder' = [CAOrder EXCEPT !.status = s, !.csr = 1, !.late = 0]
      <4>1. CAOrder' = Shaped(order'[Call], 1, 0) /\ order'[Call] \in {"processing", "valid"}
        BY <1>1, <1>4, <1>9, <2>3 DEF Delivers
      <4> QED BY <1>4, <4>1, ShapeWrites
    <3> QED BY <1>3, <2>1, <2>2, <2>3, <3>1, WorkerWaits
  <2>4. CASE order[Call] # "ready"
    <3>1. CAOrder' = [CAOrder EXCEPT !.late = 0]
      <4>1. accepted' = accepted
        BY <1>1, <1>9, <2>4 DEF Delivers, AcceptedKnown, FinalInv
      <4>2. CAOrder' = Shaped(CAOrder.status, CAOrder.csr, 0)
        BY <1>3, <1>4, <1>9, <2>4, <4>1 DEF Delivers
      <4> QED BY <1>4, <4>2, ShapeWrites
    <3> QED BY <1>3, <2>1, <2>2, <2>4, <3>1, WorkerWaits
  <2> QED BY <2>3, <2>4
<1> QED BY <1>1, <1>5, <1>6, <1>7, <1>8, <1>9, CallStep

LEMMA FinalInductive == FinalInv /\ [FinalNext]_finalVars => FinalInv'
<1> SUFFICES ASSUME FinalInv, [FinalNext]_finalVars  PROVE FinalInv'
  OBVIOUS
<1>1. CASE FinalNext
  BY <1>1, NextInvariant DEF FinalNext, FinalInv, AcceptedKnown
<1>2. CASE UNCHANGED finalVars
  <2>1. UNCHANGED vars /\ UNCHANGED <<order, accepted>>
    BY <1>2 DEF finalVars, vars
  <2> QED BY <2>1, NextInvariant DEF FinalInv, AcceptedKnown
<1> QED BY <1>1, <1>2

LEMMA FinalStart == FinalInit => FinalInv
  BY InitInvariant, ClientAssumption DEF FinalInit, FinalInv, AcceptedKnown, Init

\* Where a call starts, the worker keeps the invariant of Issuance.
LEMMA StartImplements ==
  ASSUME FinalInit
  PROVE  Worker!IInv
<1>1. At = "finalize" /\ Knows = Read /\ ReturnedError = "nil" /\ Call \in Caller
  BY ClientAssumption DEF FinalInit, Init, Called, At, Knows, ReturnedError, Succeeds, Returns
<1>2. /\ CAOrder \in Shape /\ CAOrder.late = 0 /\ CAOrder.csr \in {0, 1}
      /\ CAOrder.status \in {"pending", "ready", "processing"} /\ CAOrder.names = Domains
      /\ CAOrder.csr = IF CAOrder.status = "processing" THEN 1 ELSE 0
  BY <1>1 DEF FinalInit, Init, CAOrder, Shape, Status
<1> DEFINE rows == [i \in 1..1 |-> Submission]
           orders == [o \in 1..1 |-> CAOrder]
<1>3. /\ Submission \in Worker!Row /\ Submission # Worker!Absent
      /\ Submission.cert = "certificate" /\ Submission.status = "running" /\ Submission.key = 1
      /\ Submission.order = 1 /\ Submission.attempts = 1
  BY OneIssuance DEF Submission, Worker!Row, Worker!Absent, Worker!Unfinished, Worker!Finished,
                     Worker!Id, Worker!Orders, Worker!NoCert
<1>4. /\ \A i \in 1..1 : i = 1 /\ rows[i] = Submission
      /\ \A o \in 1..1 : o = 1 /\ orders[o] = CAOrder
  BY OneIssuance
<1>5. ~Worker!Superseded(1)
  BY <1>4 DEF Worker!Superseded, Worker!Id
<1>6. Worker!Submitted(1) \subseteq {1}
  BY <1>2, <1>4 DEF Worker!Submitted, Worker!NoKey
<1>7. Worker!TypeOK
  <2>1. CAOrder \in Worker!Order
    <3>1. {0, 1} \subseteq Worker!Id \cup {Worker!NoKey}
      BY DEF Worker!Id, Worker!NoKey
    <3>2. Status \subseteq Worker!OrderStatus
      BY DEF Status, Worker!OrderStatus
    <3>3. ASSUME NEW r \in Shape  PROVE r \in Worker!Order
      <4> DEFINE names == STRING \cup {Worker!NoCert}
                 keys == Worker!Id \cup {Worker!NoKey}
      <4>1. Domains \in names /\ 0 \in keys /\ 1 \in keys
        BY <3>1
      <4> HIDE DEF names, keys
      <4>2. r \in [status : Worker!OrderStatus, names : names, authz : {"pending", "valid", "invalid"},
                   answered : BOOLEAN, csr : keys, late : keys]
        BY <3>2, <4>1 DEF Shape
      <4> QED BY <4>2 DEF names, keys, Worker!Order
    <3> QED BY <1>2, <3>3
  <2>2. rows \in [1..1 -> Worker!Row] /\ orders \in [1..1 -> Worker!Order]
    BY <1>3, <2>1
  <2>3. [c \in {"certificate"} |-> [status |-> "pending", key |-> 0, pem |-> 0]]
          \in [{"certificate"} -> Worker!CertificateRow]
    BY DEF Worker!CertificateRow, Worker!NoKey
  <2>4. [o \in 1..1 |-> [issuance |-> 1, status |-> Read]] \in [1..1 -> Worker!OrderRow]
    BY OneIssuance DEF Worker!OrderRow, Worker!OrderStatus, Worker!Id
  <2> QED BY <1>1, <2>2, <2>3, <2>4
          DEF Worker!TypeOK, Worker!Id, Worker!Orders, Worker!Label, Worker!OrderStatus,
              Worker!Error
<1>8. Worker!RowsInOrder
  <2>1. "certificate" # Worker!NoCert /\ 1 # Worker!NoKey
    BY DEF Worker!NoCert, Worker!NoKey
  <2>2. \A i, j \in 1..1 : ~(j < i)
    OBVIOUS
  <2> QED BY <1>3, <1>4, <1>5, <2>1, <2>2, Zenon DEF Worker!RowsInOrder, Worker!Id
<1>9. \A i \in 1..1 : Worker!WorkerInv(i)
  <2>1. Worker!OwnsRow(1) /\ Worker!OrderSaved(1)
    BY <1>1, <1>3, <1>4 DEF Worker!OwnsRow, Worker!OrderSaved, Worker!Unfinished, Worker!NoKey,
                      Worker!NoOrder, Worker!Unsaved
  <2>2. Worker!NamesOrder(1) /\ Worker!RetryLeft(1)
    BY <1>1, <1>2, <1>3, <1>4 DEF Worker!NamesOrder, Worker!RetryLeft, Worker!NoOrder
  <2> QED BY <1>4, <2>1, <2>2 DEF Worker!WorkerInv
<1>10. Worker!FinalizedOrders
  BY <1>2, <1>4 DEF Worker!FinalizedOrders, Worker!Orders, Worker!NoKey
<1>11. Worker!KeysInOrder
  BY <1>2, <1>3, <1>4, <1>6 DEF Worker!KeysInOrder, Worker!Orders, Worker!Id, Worker!NoKey
<1>12. Worker!InstalledKeyMatches
  BY DEF Worker!InstalledKeyMatches, Worker!NoKey
<1>13. Worker!OrderInv
  <2>1. Worker!NewestKnowsOrder
    BY <1>3, <1>4, <1>6 DEF Worker!NewestKnowsOrder, Worker!Orders, Worker!Id, Worker!NoKey
  <2>2. Worker!OwnOrder /\ Worker!OneOrderPerSubmission
    BY <1>4 DEF Worker!OwnOrder, Worker!OneOrderPerSubmission, Worker!Orders
  <2> QED BY <2>1, <2>2 DEF Worker!OrderInv
<1> QED BY <1>7, <1>8, <1>9, <1>10, <1>11, <1>12, <1>13 DEF Worker!IInv, Worker!Id, Worker!StartsFromRow

\* A call of FinalizeAndWait, with all its retries, is the worker of Issuance at
\* "finalize": what Issuance assumes of the client there, the client does.
THEOREM ImplementsWorker == FinalSpec => FinalizesAsPromised
<1>1. FinalInv /\ [FinalNext]_finalVars => [Hidden \/ Worker!Next]_(Worker!vars)
  <2>1. CASE FinalInv /\ FinalNext
    BY <2>1, StepImplements DEF Worker!vars, Worker!storeVars, Worker!jobVars
  <2>2. CASE UNCHANGED finalVars
    <3>1. UNCHANGED <<At, Knows, ReturnedError, CAOrder>>
      BY <2>2 DEF finalVars, vars, At, Knows, ReturnedError, CAOrder, Succeeds, Returns
    <3> QED BY <3>1 DEF Worker!vars, Worker!storeVars, Worker!jobVars
  <2> QED BY <2>1, <2>2
<1> QED BY <1>1, FinalStart, FinalInductive, StartImplements, PTL DEF FinalSpec, FinalizesAsPromised
=============================================================================
