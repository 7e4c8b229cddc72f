------------------------------- MODULE Client -------------------------------
(***************************************************************************)
(* The ACME client (acme/): calls of FinalizeAndWait and WaitOrder on orders *)
(* of their own that share one Client, and with it the cached anti-replay    *)
(* nonce.  Three retries are nested in each other: FinalizeAndWait around    *)
(* WaitOrder (order.go), retryRead around every read (retry.go), and the     *)
(* second attempt after badNonce (postRaw); getNonce adds a retryRead of     *)
(* its own.  Requests are lost before or after the CA has seen them, or      *)
(* reach it late; answers may be any error, with a Retry-After or without.   *)
(* The directory is in the cache.                                            *)
(***************************************************************************)
EXTENDS Naturals

CONSTANTS
    Caller,      \* concurrent calls, each for an order of its own
    Finalizer,   \* those of FinalizeAndWait; the others are of WaitOrder
    Nonce,       \* names of nonces; one nobody has any more names a new one again
    Attempts,    \* RetryPolicy.Attempts()
    RateLimited  \* the calls the CA may ask to come back later

NoNonce == "none"

ASSUME ClientAssumption ==
    /\ Finalizer \subseteq Caller
    /\ NoNonce \notin Nonce
    /\ Attempts \in Nat \ {0}
    /\ RateLimited \subseteq Caller

VARIABLES
    order,     \* [Caller -> status of the order at the CA]
    fits,      \* [Caller -> whether the CA accepts the CSR]
    late,      \* [Caller -> a submission the client gave up on that is under way]
    nonce,     \* Client.nonce
    unsent,    \* nonces of the CA the client has and has not sent
    limit,     \* [Caller -> whether the CA's Retry-After is still to come]
    call       \* [Caller -> the call's locals]

vars == <<order, fits, late, nonce, unsent, limit, call>>

Status == {"pending", "ready", "processing", "valid", "invalid"}
Label == {"nonce", "head", "rest", "take", "send", "delay", "backoff", "pause", "done"}
Sending == {"nonce", "head", "rest", "take", "send"}   \* within postRaw
Transient == {"transient", "limited"}   \* without and with a Retry-After to come
Error == Transient \cup {"permanent", "notReady", "refused"}
Result == {"none", "ready", "valid", "refused", "exhausted", "failed"}

\* `read' is a POST-as-GET of the order, `submit' a finalize request; `reads'
\* and `heads' count the attempts of the two retryRead loops, `resent' is
\* postRaw's attempt, `submits' FinalizeAndWait's attempts, `expired' ctx.Err(),
\* `held' whether the RetryTime of the error in hand, or returned, is to come.
Locals ==
    [task : {"read", "submit"}, pc : Label, reads : 1..Attempts, heads : 1..Attempts,
     resent : BOOLEAN, submits : 0..Attempts, nonce : Nonce \cup {NoNonce},
     expired : BOOLEAN, held : BOOLEAN, result : Result]

Called ==
    [task |-> "read", pc |-> "nonce", reads |-> 1, heads |-> 1, resent |-> FALSE,
     submits |-> 0, nonce |-> NoNonce, expired |-> FALSE, held |-> FALSE, result |-> "none"]

TypeOK ==
    /\ order \in [Caller -> Status]
    /\ fits \in [Caller -> BOOLEAN]
    /\ late \in [Caller -> {"none", "sent", "delivered"}]
    /\ nonce \in Nonce \cup {NoNonce}
    /\ unsent \in SUBSET Nonce
    /\ limit \in [Caller -> BOOLEAN]
    /\ call \in [Caller -> Locals]

\* An order a call begins with may be in processing since an earlier call.
Init ==
    /\ order \in [Caller -> {"pending", "ready", "processing"}]
    /\ fits \in [Caller -> BOOLEAN]
    /\ \A q \in Caller :
         /\ order[q] = "processing" => q \in Finalizer /\ fits[q]
         /\ q \notin Finalizer => fits[q]
    /\ late = [q \in Caller |-> "none"]
    /\ nonce = NoNonce
    /\ unsent = {}
    /\ limit = [q \in Caller |-> FALSE]
    /\ call = [q \in Caller |-> Called]

-----------------------------------------------------------------------------
(* Locals after a step of a call. *)

Goto(c, label) == [c EXCEPT !.pc = label]
Done(result) == [Called EXCEPT !.pc = "done", !.result = result]

\* Between two requests; the next one is a read, unless it is said otherwise.
Wait(c, label, reads) ==
    [Called EXCEPT !.pc = label, !.reads = reads, !.submits = c.submits, !.expired = c.expired]

\* The error is returned; a submission cut off by its deadline returns ctx.Err().
Abandon(c, error) ==
    [Done(IF error = "refused" THEN "refused" ELSE "failed")
        EXCEPT !.held = c.task = "read" /\ error = "limited"]

\* Mutant: only the policy's delay is waited for.
LaterUnpaced(c, label, reads, error) == Wait(c, label, reads)

\* The wait before another attempt: RetryPolicy.Delay, or until RetryTime if
\* that is later.
Later(c, label, reads, error) == [Wait(c, label, reads) EXCEPT !.held = error = "limited"]

\* Mutant: one attempt too many.
MayRereadOnceMore(c, error) ==
    c.task = "read" /\ error \in Transient /\ ~c.expired /\ c.reads <= Attempts

\* A read is repeated, a submission begun again, after these errors.
MayReread(c, error) ==
    c.task = "read" /\ error \in Transient /\ ~c.expired /\ c.reads < Attempts

MayResubmit(c, error) ==
    c.task = "submit" /\ error \in Transient \cup {"notReady"} /\ ~c.expired

\* Mutant: the finalize request is retried like a read.
FailedReplays(c, error) ==
    IF error \in Transient /\ ~c.expired /\ c.reads < Attempts
    THEN [Later(c, "delay", c.reads, error) EXCEPT !.task = c.task]
    ELSE IF MayResubmit(c, error) THEN Later(c, "backoff", 1, error)
    ELSE Abandon(c, error)

\* Mutant: orderNotReady is as final as any other refusal.
FailedForGood(c, error) ==
    IF MayReread(c, error) THEN Later(c, "delay", c.reads, error)
    ELSE IF MayResubmit(c, error) /\ error # "notReady" THEN Later(c, "backoff", 1, error)
    ELSE Abandon(c, IF error = "notReady" THEN "refused" ELSE error)

\* postRaw returns an error: to retryRead, which repeats a read after a transient
\* one, or to FinalizeAndWait, which looks at the order again after a transient
\* one and after orderNotReady.
Failed(c, error) ==
    IF MayReread(c, error) THEN Later(c, "delay", c.reads, error)
    ELSE IF MayResubmit(c, error) THEN Later(c, "backoff", 1, error)
    ELSE Abandon(c, error)

\* Mutant: an order that is still processing is taken for a success.
SeenEarly(q, status) ==
    LET c == call[q] IN
    IF status = "pending" THEN Wait(c, "pause", 1)
    ELSE IF status = "invalid" THEN Done("failed")
    ELSE IF status \in {"processing", "valid"} THEN Done("valid")
    ELSE IF q \notin Finalizer THEN Done("ready")
    ELSE IF c.submits = Attempts THEN Done("exhausted")
    ELSE [Wait(c, "nonce", 1) EXCEPT !.task = "submit", !.submits = @ + 1]

\* WaitOrder has read this status: poll goes on, or it returns, and
\* FinalizeAndWait submits the CSR if the order is ready and attempts are left.
Seen(q, status) ==
    LET c == call[q] IN
    IF status \in {"pending", "processing"} THEN Wait(c, "pause", 1)
    ELSE IF status = "invalid" THEN Done("failed")
    ELSE IF status = "valid" THEN Done("valid")
    ELSE IF q \notin Finalizer THEN Done("ready")
    ELSE IF c.submits = Attempts THEN Done("exhausted")
    ELSE [Wait(c, "nonce", 1) EXCEPT !.task = "submit", !.submits = @ + 1]

-----------------------------------------------------------------------------
(* Nonces. *)

\* takeNonce: who gets the cached nonce sends it; who gets none goes on at label.
TakeNonce(q, otherwise) ==
    /\ call' = [call EXCEPT ![q] =
          IF nonce # NoNonce THEN [@ EXCEPT !.pc = "send", !.heads = 1, !.nonce = nonce]
          ELSE otherwise]
    /\ nonce' = NoNonce

\* request caches the nonce of any answer that has one, over the one there was.
\* `left' are the nonces the client has not sent by then.
StoreNonce(left) ==
    \/ unsent' = left /\ UNCHANGED nonce
    \/ /\ Nonce \ (left \cup {nonce}) # {}
       /\ nonce' = CHOOSE n \in Nonce : n \notin left \cup {nonce}
       /\ unsent' = (left \ {nonce}) \cup {nonce'}

\* Mutant: requests do not carry the call's context.
LiveDeaf(q) == TRUE

\* A request whose context has ended fails.
Live(q) == ~call[q].expired

\* An answer with a Retry-After reaches the call.
Limit(q, error) ==
    IF error = "limited"
    THEN q \in RateLimited /\ Live(q) /\ limit' = [limit EXCEPT ![q] = TRUE]
    ELSE UNCHANGED limit

\* getNonce: the cached nonce, or a HEAD of newNonce ...
GetNonce(q) ==
    /\ call[q].pc = "nonce"
    /\ TakeNonce(q, Goto(call[q], "head"))
    /\ UNCHANGED <<order, fits, late, unsent, limit>>

\* ... which is a read of its own, with its own retries ...
Head(q) ==
    LET c == call[q] IN
    /\ c.pc = "head"
    /\ StoreNonce(unsent)
    /\ \/ Live(q) /\ call' = [call EXCEPT ![q] = Goto(c, "take")] /\ UNCHANGED limit
       \/ \E error \in Transient :
            /\ Limit(q, error)
            /\ call' = [call EXCEPT ![q] =
                  IF ~c.expired /\ c.heads < Attempts
                  THEN [Goto(c, "rest") EXCEPT !.held = error = "limited"]
                  ELSE Failed(c, error)]
       \/ Live(q) /\ call' = [call EXCEPT ![q] = Failed(c, "permanent")] /\ UNCHANGED limit
    /\ UNCHANGED <<order, fits, late>>

Rest(q) ==
    LET c == call[q] IN
    /\ c.pc = "rest"
    /\ c.held => c.expired
    /\ call' = [call EXCEPT ![q] =
          IF c.expired THEN Failed(c, IF c.held THEN "limited" ELSE "transient")
          ELSE [c EXCEPT !.pc = "head", !.heads = @ + 1]]
    /\ UNCHANGED <<order, fits, late, nonce, unsent, limit>>

\* ... and then the nonce it has brought, unless another call took it first.
TakeHead(q) ==
    /\ call[q].pc = "take"
    /\ TakeNonce(q, Failed(call[q], "permanent"))
    /\ UNCHANGED <<order, fits, late, unsent, limit>>

-----------------------------------------------------------------------------
(* Requests. *)

\* Mutant: after badNonce the same request is sent again.
BadNonceReplays(q) ==
    LET c == call[q] IN
    /\ c.pc = "send"
    /\ Live(q)
    /\ StoreNonce(unsent \ {c.nonce})
    /\ call' = [call EXCEPT ![q] =
          IF c.resent THEN Failed(c, "permanent") ELSE [c EXCEPT !.resent = TRUE]]
    /\ UNCHANGED <<order, fits, late, limit>>

\* postRaw signs the request once more, with another nonce, after badNonce.
BadNonce(q) ==
    LET c == call[q] IN
    /\ c.pc = "send"
    /\ Live(q)
    /\ StoreNonce(unsent \ {c.nonce})
    /\ call' = [call EXCEPT ![q] =
          IF c.resent THEN Failed(c, "permanent")
          ELSE [c EXCEPT !.pc = "nonce", !.resent = TRUE, !.nonce = NoNonce]]
    /\ UNCHANGED <<order, fits, late, limit>>

\* The CA accepts a CSR that fits while the order is ready, and may issue at once.
Accept(q) ==
    /\ order[q] = "ready"
    /\ fits[q]
    /\ \E status \in {"processing", "valid"} : order' = [order EXCEPT ![q] = status]

\* No usable answer: the request is lost or the CA is too busy for it, or the CA
\* has handled it and the answer is lost or a transient problem, or it is still
\* on its way (which only matters if the CA would accept it).
NoAnswer(q) ==
    LET c == call[q] IN
    /\ c.pc = "send"
    /\ StoreNonce(unsent \ {c.nonce})
    /\ \E error \in Transient :
         /\ Limit(q, error)
         /\ call' = [call EXCEPT ![q] = Failed(c, error)]
         /\ \/ UNCHANGED <<order, late>>
            \/ error = "transient" /\ c.task = "submit" /\ Accept(q) /\ UNCHANGED late
            \/ /\ error = "transient" /\ c.task = "submit"
               /\ order[q] = "ready" /\ fits[q] /\ late[q] = "none"
               /\ late' = [late EXCEPT ![q] = "sent"]
               /\ UNCHANGED order
    /\ UNCHANGED fits

\* The read is answered with the order's status, or refused.
ReadAnswered(q) ==
    LET c == call[q] IN
    /\ c.pc = "send" /\ c.task = "read"
    /\ Live(q)
    /\ StoreNonce(unsent \ {c.nonce})
    /\ \E next \in {Seen(q, order[q]), Failed(c, "permanent")} :
          call' = [call EXCEPT ![q] = next]
    /\ UNCHANGED <<order, fits, late, limit>>

\* The CSR is accepted; FinalizeAndWait returns only if the order is valid.
Accepted(q) ==
    LET c == call[q] IN
    /\ c.pc = "send" /\ c.task = "submit"
    /\ Live(q)
    /\ StoreNonce(unsent \ {c.nonce})
    /\ Accept(q)
    /\ call' = [call EXCEPT ![q] =
          IF order'[q] = "valid" THEN Done("valid") ELSE Wait(c, "backoff", 1)]
    /\ UNCHANGED <<fits, late, limit>>

\* The CA refuses the CSR, an order that is not ready, or the account.
Rejected(q) ==
    LET c == call[q] IN
    /\ c.pc = "send" /\ c.task = "submit"
    /\ Live(q)
    /\ StoreNonce(unsent \ {c.nonce})
    /\ \/ order[q] # "ready" /\ call' = [call EXCEPT ![q] = Failed(c, "notReady")]
       \/ order[q] = "ready" /\ ~fits[q] /\ call' = [call EXCEPT ![q] = Failed(c, "refused")]
       \/ call' = [call EXCEPT ![q] = Failed(c, "permanent")]
    /\ UNCHANGED <<order, fits, late, limit>>

-----------------------------------------------------------------------------
(* Waiting. *)

\* The context ends a wait; the error that was waited for is returned with it.
Interrupted(c) == [Done("failed") EXCEPT !.held = c.held]

\* Between two attempts of a read.
Delay(q) ==
    LET c == call[q] IN
    /\ c.pc = "delay"
    /\ c.held => c.expired
    /\ call' = [call EXCEPT ![q] =
          IF c.expired THEN Interrupted(c) ELSE [c EXCEPT !.pc = "nonce", !.reads = @ + 1]]
    /\ UNCHANGED <<order, fits, late, nonce, unsent, limit>>

\* Between two polls; poll's select may prefer its timer to an ended context.
Pause(q) ==
    LET c == call[q] IN
    /\ c.pc = "pause"
    /\ \/ call' = [call EXCEPT ![q] = Goto(c, "nonce")]
       \/ c.expired /\ call' = [call EXCEPT ![q] = Done("failed")]
    /\ UNCHANGED <<order, fits, late, nonce, unsent, limit>>

\* Between a submission and the next look at the order.
Backoff(q) ==
    LET c == call[q] IN
    /\ c.pc = "backoff"
    /\ c.held => c.expired
    /\ call' = [call EXCEPT ![q] = IF c.expired THEN Interrupted(c) ELSE Goto(c, "nonce")]
    /\ UNCHANGED <<order, fits, late, nonce, unsent, limit>>

\* The deadline of the call's context.  A cancellation differs only in the error it
\* leaves of a submission.  Nothing is attempted again after either, so what was
\* counted no longer matters.
Expire(q) ==
    /\ call[q].pc # "done" /\ ~call[q].expired
    /\ call' = [call EXCEPT ![q] =
          [@ EXCEPT !.expired = TRUE, !.reads = 1, !.heads = 1, !.resent = FALSE, !.submits = 0]]
    /\ UNCHANGED <<order, fits, late, nonce, unsent, limit>>

-----------------------------------------------------------------------------
(* The CA. *)

\* What the CA does with an order by itself.
CAAdvances(q) ==
    /\ \/ order[q] = "pending" /\ order' = [order EXCEPT ![q] = "ready"]
       \/ order[q] = "processing" /\ order' = [order EXCEPT ![q] = "valid"]
       \/ order[q] # "valid" /\ order' = [order EXCEPT ![q] = "invalid"]
    /\ order' # order
    /\ UNCHANGED <<fits, late, nonce, unsent, limit, call>>

\* A submission arrives after the client gave up on it.
DeliverLate(q) ==
    /\ late[q] = "sent"
    /\ IF order[q] = "ready"
       THEN Accept(q) /\ late' = [late EXCEPT ![q] = "delivered"]
       ELSE UNCHANGED order /\ late' = [late EXCEPT ![q] = "none"]
    /\ UNCHANGED <<fits, nonce, unsent, limit, call>>

\* The time of a Retry-After comes.
RetryTime(q) ==
    /\ limit[q]
    /\ limit' = [limit EXCEPT ![q] = FALSE]
    /\ call' = [call EXCEPT ![q].held = FALSE]
    /\ UNCHANGED <<order, fits, late, nonce, unsent>>

Step(q) ==
    \/ GetNonce(q) \/ Head(q) \/ Rest(q) \/ TakeHead(q)
    \/ BadNonce(q) \/ NoAnswer(q) \/ ReadAnswered(q) \/ Accepted(q) \/ Rejected(q)
    \/ Delay(q) \/ Pause(q) \/ Backoff(q)

Returned == (\A q \in Caller : call[q].pc = "done") /\ UNCHANGED vars

Next ==
    \/ \E q \in Caller : Step(q) \/ Expire(q) \/ CAAdvances(q) \/ DeliverLate(q) \/ RetryTime(q)
    \/ Returned

\* A request ends by the HTTP client's timeout if not before, timers fire, and
\* every context the service passes has a deadline (stageTimeout).
Fairness == \A q \in Caller : WF_vars(Step(q)) /\ WF_vars(Expire(q))

Spec == Init /\ [][Next]_vars /\ Fairness
-----------------------------------------------------------------------------
(* Properties. *)

\* Every signed request, retries included, carries a nonce that has not been
\* sent before and that no other call has, though all share one cache.
NonceFresh ==
    \A q \in Caller : call[q].pc = "send" =>
        /\ call[q].nonce \in unsent \ {nonce}
        /\ \A p \in Caller \ {q} : call[p].nonce # call[q].nonce

\* A finalize request is not replayed: after a lost answer the CSR goes out again
\* only while the order is ready, or has become invalid in the meantime.  Only
\* a request the network delivers after the client gave up on it can overtake it.
SubmitsOnlyReady ==
    \A q \in Caller :
        call[q].task = "submit" /\ call[q].pc = "send" =>
            order[q] \in {"ready", "invalid"} \/ late[q] = "delivered"

\* FinalizeAndWait's answer is true however many of its submissions were lost:
\* success means a valid order, and it does not report its CSR refused when one
\* of its submissions was accepted.
OutcomeTrue ==
    \A q \in Caller :
        /\ call[q].result = "valid" => order[q] = "valid"
        /\ call[q].result = "refused" => order[q] \notin {"processing", "valid"}

\* However the retries are nested, no request of a call, HEAD of newNonce included,
\* goes out before the Retry-After of the last answer to that call.
RetryAfterRespected ==
    \A q \in Caller : call[q].pc \in {"head", "send"} => ~limit[q]

\* A call whose context ends before the CA's Retry-After says so in its error, for
\* the scheduler of the issuance to wait.
LimitReported ==
    \A q \in Caller : call[q].pc = "done" /\ limit[q] => call[q].held

\* How many steps a call whose context has ended is from returning, at most.
Distance ==
    [l \in Label |-> IF l = "done" THEN 0 ELSE IF l = "pause" THEN 3
                     ELSE IF l \in {"nonce", "take"} THEN 2 ELSE 1]

\* Once its context has ended a call only ever gets closer to its return, wherever
\* the deadline catches the three nested retries: no retry starts over, no request
\* is repeated, and the context stays ended.
EndsSoon ==
    [][\A q \in Caller : call[q].expired =>
          /\ call'[q].expired \/ call'[q].pc = "done"
          /\ Distance[call'[q].pc] <= Distance[call[q].pc]
          /\ Step(q) => Distance[call'[q].pc] < Distance[call[q].pc]]_vars

\* Every call returns, although the CA may leave its order pending for ever.
CallReturns == <>(\A q \in Caller : call[q].pc = "done")
-----------------------------------------------------------------------------
(* The inductive invariant behind NonceFresh, SubmitsOnlyReady and OutcomeTrue, *)
(* and the one behind RetryAfterRespected.                                      *)

NonceInv ==
    /\ nonce # NoNonce => nonce \in unsent
    /\ \A q \in Caller :
         /\ call[q].pc # "send" <=> call[q].nonce = NoNonce
         /\ call[q].pc = "send" => call[q].nonce \in unsent \ {nonce}
         /\ \A p \in Caller \ {q} : call[q].nonce # NoNonce => call[p].nonce # call[q].nonce

OrderInv(q) ==
    /\ order[q] \in {"processing", "valid"} => fits[q]
    /\ call[q].task = "submit" =>
         order[q] \in {"ready", "invalid"} \/ late[q] = "delivered"
    /\ call[q].result = "valid" => order[q] = "valid"
    /\ call[q].result = "refused" => ~fits[q]
    /\ call[q].task = "submit" => call[q].pc \in Sending
    /\ call[q].pc = "delay" => call[q].reads < Attempts
    /\ call[q].pc = "rest" => call[q].heads < Attempts

IInv == TypeOK /\ NonceInv /\ \A q \in Caller : OrderInv(q)

LimitInv ==
    \A q \in Caller :
        limit[q] => /\ call[q].pc \in {"delay", "rest", "backoff", "done"}
                    /\ call[q].pc # "done" => call[q].held
=============================================================================
