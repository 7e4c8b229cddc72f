--------------------------- MODULE Client_proofs ---------------------------
(***************************************************************************)
(* Proofs about Client, for any number of concurrent calls, nonces and      *)
(* attempts: whatever the network loses, delays or answers, no nonce is     *)
(* sent twice, no finalize request is replayed, what FinalizeAndWait returns *)
(* is true, and a call whose context has ended makes only a bounded number *)
(* of further steps.                                                       *)
(***************************************************************************)
EXTENDS Client, TLAPS

USE ClientAssumption

\* The part of TypeOK no step of a call has to do with.
LimitType == limit \in [Caller -> BOOLEAN]

\* A call between two requests, or done, reads next and holds no nonce.
Resting(c) ==
    /\ c \in Locals
    /\ c.pc \in {"delay", "backoff", "pause", "done"}
    /\ c.task = "read" /\ c.nonce = NoNonce
    /\ c.pc = "delay" => c.reads < Attempts

LEMMA CalledType == Called \in Locals
<1>1. 1 \in 1..Attempts /\ 0 \in 0..Attempts
  OBVIOUS
<1> QED BY <1>1 DEF Called, Locals, Label, Result

LEMMA DoneType ==
  ASSUME NEW r \in Result
  PROVE  Resting(Done(r)) /\ Done(r).result = r
<1>1. Done(r) \in Locals
  BY CalledType DEF Done, Locals, Label
<1>2. /\ Done(r).pc = "done" /\ Done(r).task = "read" /\ Done(r).nonce = NoNonce
      /\ Done(r).result = r
  BY DEF Done, Called
<1> QED BY <1>1, <1>2 DEF Resting

LEMMA WaitType ==
  ASSUME NEW c \in Locals, NEW l \in Label, NEW n \in 1..Attempts
  PROVE  /\ Wait(c, l, n) \in Locals
         /\ Wait(c, l, n).pc = l /\ Wait(c, l, n).task = "read" /\ Wait(c, l, n).reads = n
         /\ Wait(c, l, n).nonce = NoNonce /\ Wait(c, l, n).result = "none"
         /\ Wait(c, l, n).submits = c.submits
<1>1. c.submits \in 0..Attempts /\ c.expired \in BOOLEAN
  BY DEF Locals
<1>2. Wait(c, l, n) \in Locals
  BY <1>1, CalledType DEF Wait, Locals
<1> QED BY <1>2 DEF Wait, Called

\* An error in hand changes nothing but what the call knows of its RetryTime.
LEMMA HeldType ==
  ASSUME NEW c, Resting(c), NEW h \in BOOLEAN
  PROVE  /\ Resting([c EXCEPT !.held = h])
         /\ [c EXCEPT !.held = h].result = c.result /\ [c EXCEPT !.held = h].pc = c.pc
<1> DEFINE d == [c EXCEPT !.held = h]
<1>1. d \in Locals
  BY DEF Resting, Locals
<1>2. /\ d.pc = c.pc /\ d.task = c.task /\ d.nonce = c.nonce /\ d.reads = c.reads
      /\ d.result = c.result
  BY DEF Resting, Locals
<1>3. Resting(d)
  <2> HIDE DEF d
  <2> QED BY <1>1, <1>2 DEF Resting
<1> QED BY <1>2, <1>3

LEMMA LaterType ==
  ASSUME NEW c \in Locals, NEW e \in Error, NEW l \in {"delay", "backoff"}, NEW n \in 1..Attempts,
         l = "delay" => n < Attempts
  PROVE  /\ Resting(Later(c, l, n, e)) /\ Later(c, l, n, e).result = "none"
         /\ Later(c, l, n, e).pc = l /\ Later(c, l, n, e).held = (e = "limited")
<1> DEFINE w == Wait(c, l, n)
<1>1. l \in Label
  BY DEF Label
<1>2. /\ w \in Locals /\ w.pc = l /\ w.task = "read" /\ w.reads = n
      /\ w.nonce = NoNonce /\ w.result = "none"
  BY <1>1, WaitType
<1>3. Later(c, l, n, e) = [w EXCEPT !.held = (e = "limited")] /\ (e = "limited") \in BOOLEAN
  BY DEF Later
<1> HIDE DEF w
<1>4. Resting(w)
  BY <1>2 DEF Resting
<1>5. /\ Resting([w EXCEPT !.held = (e = "limited")])
      /\ [w EXCEPT !.held = (e = "limited")].result = w.result
      /\ [w EXCEPT !.held = (e = "limited")].pc = w.pc
  BY <1>3, <1>4, HeldType
<1>6. [w EXCEPT !.held = (e = "limited")].held = (e = "limited")
  BY <1>2 DEF Locals
<1> QED BY <1>2, <1>3, <1>5, <1>6

LEMMA AbandonType ==
  ASSUME NEW c \in Locals, NEW e \in Error
  PROVE  /\ Resting(Abandon(c, e)) /\ Abandon(c, e).pc = "done"
         /\ Abandon(c, e).result = IF e = "refused" THEN "refused" ELSE "failed"
<1> DEFINE r == IF e = "refused" THEN "refused" ELSE "failed"
           h == (c.task = "read" /\ e = "limited")
<1>1. Abandon(c, e) = [Done(r) EXCEPT !.held = h] /\ h \in BOOLEAN /\ r \in Result
  BY DEF Abandon, Result
<1> HIDE DEF h, r
<1>2. Resting(Done(r)) /\ Done(r).result = r
  BY <1>1, DoneType
<1>3. Done(r).pc = "done"
  BY DEF Done, Called
<1>4. /\ Resting([Done(r) EXCEPT !.held = h]) /\ [Done(r) EXCEPT !.held = h].result = Done(r).result
      /\ [Done(r) EXCEPT !.held = h].pc = Done(r).pc
  BY <1>1, <1>2, HeldType
<1> QED BY <1>1, <1>2, <1>3, <1>4 DEF r

LEMMA InterruptedType ==
  ASSUME NEW c \in Locals
  PROVE  /\ Resting(Interrupted(c)) /\ Interrupted(c).result = "failed"
         /\ Interrupted(c).pc = "done"
<1> DEFINE d == Done("failed")
           h == c.held
<1>1. Interrupted(c) = [d EXCEPT !.held = h] /\ h \in BOOLEAN
  BY DEF Interrupted, Locals
<1>2. Resting(d) /\ d.result = "failed" /\ d.pc = "done"
  BY DoneType DEF Result, Done
<1> HIDE DEF d, h
<1>3. /\ Resting([d EXCEPT !.held = h]) /\ [d EXCEPT !.held = h].result = d.result
      /\ [d EXCEPT !.held = h].pc = d.pc
  BY <1>1, <1>2, HeldType
<1> QED BY <1>1, <1>2, <1>3

\* Whatever the error, a failed request is followed by a pause or a result, and
\* only a refusal by the CA is reported as one; a pause after an answer with a
\* Retry-After knows of it.
LEMMA FailedType ==
  ASSUME NEW c \in Locals, NEW e \in Error
  PROVE  /\ Resting(Failed(c, e))
         /\ Failed(c, e).result \in {"none", "refused", "failed"}
         /\ Failed(c, e).result = "refused" => e = "refused"
         /\ Failed(c, e).pc \in {"delay", "backoff", "done"}
         /\ Failed(c, e).pc # "done" => Failed(c, e).held = (e = "limited")
<1>1. c.reads \in 1..Attempts /\ 1 \in 1..Attempts
  BY DEF Locals
<1>2. CASE MayReread(c, e)
  <2>1. Failed(c, e) = Later(c, "delay", c.reads, e)
    BY <1>2 DEF Failed
  <2>2. c.reads < Attempts
    BY <1>2 DEF MayReread
  <2> DEFINE n == c.reads
  <2>3. n \in 1..Attempts /\ n < Attempts
    BY <1>1, <2>2
  <2> HIDE DEF n
  <2>4. /\ Resting(Later(c, "delay", n, e)) /\ Later(c, "delay", n, e).result = "none"
        /\ Later(c, "delay", n, e).pc = "delay"
        /\ Later(c, "delay", n, e).held = (e = "limited")
    BY <2>3, LaterType
  <2> QED BY <2>1, <2>4 DEF n
<1>3. CASE ~MayReread(c, e) /\ MayResubmit(c, e)
  <2>1. Failed(c, e) = Later(c, "backoff", 1, e)
    BY <1>3 DEF Failed
  <2>2. /\ Resting(Later(c, "backoff", 1, e)) /\ Later(c, "backoff", 1, e).result = "none"
        /\ Later(c, "backoff", 1, e).pc = "backoff"
        /\ Later(c, "backoff", 1, e).held = (e = "limited")
    BY <1>1, LaterType
  <2> QED BY <2>1, <2>2
<1>4. CASE ~MayReread(c, e) /\ ~MayResubmit(c, e)
  <2>1. Failed(c, e) = Abandon(c, e)
    BY <1>4 DEF Failed
  <2> QED BY <2>1, AbandonType
<1> QED BY <1>2, <1>3, <1>4

\* An answer to WaitOrder leads to a pause, to a result the status bears out, or,
\* if the order is ready, to a submission.
LEMMA SeenType ==
  ASSUME TypeOK, NEW q \in Caller
  PROVE  LET s == Seen(q, order[q]) IN
         /\ s \in Locals /\ s.nonce = NoNonce
         /\ s.result \in {"none", "ready", "valid", "exhausted", "failed"}
         /\ s.result = "valid" => order[q] = "valid"
         /\ Resting(s) \/ (s.task = "submit" /\ s.pc = "nonce" /\ order[q] = "ready")
<1> DEFINE c == call[q]
<1>1. c \in Locals /\ order[q] \in Status /\ 1 \in 1..Attempts /\ {"pause", "nonce"} \subseteq Label
  BY DEF TypeOK, Label
<1>2. CASE order[q] \in {"pending", "processing"}
  BY <1>1, <1>2, WaitType DEF Seen, Resting
<1>3. CASE order[q] = "invalid"
  BY <1>3, DoneType DEF Seen, Resting, Result
<1>4. CASE order[q] = "valid"
  BY <1>4, DoneType DEF Seen, Resting, Result
<1>5. CASE order[q] = "ready" /\ (q \notin Finalizer \/ c.submits = Attempts)
  BY <1>5, DoneType DEF Seen, Resting, Result
<1>6. CASE order[q] = "ready" /\ q \in Finalizer /\ c.submits # Attempts
  <2> DEFINE w == Wait(c, "nonce", 1)
             s == [w EXCEPT !.task = "submit", !.submits = @ + 1]
  <2>1. /\ w \in Locals /\ w.submits = c.submits /\ w.pc = "nonce" /\ w.nonce = NoNonce
        /\ w.result = "none"
    BY <1>1, WaitType
  <2>2. c.submits \in 0..Attempts /\ c.submits + 1 \in 0..Attempts
    BY <1>1, <1>6 DEF Locals
  <2>3. Seen(q, order[q]) = s
    BY <1>6 DEF Seen
  <2> HIDE DEF w, c
  <2>4. /\ s \in Locals /\ s.task = "submit" /\ s.pc = "nonce" /\ s.nonce = NoNonce
        /\ s.result = "none"
    BY <2>1, <2>2 DEF Locals
  <2> HIDE DEF s
  <2> QED BY <1>6, <2>3, <2>4
<1> QED BY <1>1, <1>2, <1>3, <1>4, <1>5, <1>6 DEF Status

-----------------------------------------------------------------------------
(* Nonces. *)

\* Nobody's nonce is in `rest' or the cache twice after an answer was cached.
LEMMA StoreType ==
  ASSUME TypeOK, NEW rest \in SUBSET Nonce, nonce # NoNonce => nonce \in rest, StoreNonce(rest)
  PROVE  /\ nonce' \in Nonce \cup {NoNonce} /\ unsent' \in SUBSET Nonce
         /\ nonce' # NoNonce => nonce' \in unsent'
         /\ \A n \in rest \ {nonce} : n \in unsent' \ {nonce'}
<1>1. CASE unsent' = rest /\ nonce' = nonce
  BY <1>1 DEF TypeOK
<1>2. CASE /\ Nonce \ (rest \cup {nonce}) # {}
           /\ nonce' = CHOOSE n \in Nonce : n \notin rest \cup {nonce}
           /\ unsent' = (rest \ {nonce}) \cup {nonce'}
  <2>1. \E n \in Nonce : n \notin rest \cup {nonce}
    BY <1>2
  <2>2. nonce' \in Nonce /\ nonce' \notin rest \cup {nonce}
    BY <1>2, <2>1
  <2> QED BY <1>2, <2>2
<1> QED BY <1>1, <1>2 DEF StoreNonce

\* A call changes: the nonces are still in one place each if nobody else's was
\* touched and its own is fresh.
LEMMA NonceKeeps ==
  ASSUME IInv, NEW q \in Caller, NEW c, call' = [call EXCEPT ![q] = c],
         nonce' # NoNonce => nonce' \in unsent',
         \A p \in Caller \ {q} :
             call[p].nonce # NoNonce => call[p].nonce \in unsent' \ {nonce'},
         IF c.pc = "send"
         THEN /\ c.nonce # NoNonce /\ c.nonce \in unsent' \ {nonce'}
              /\ \A p \in Caller \ {q} : call[p].nonce # c.nonce
         ELSE c.nonce = NoNonce
  PROVE  NonceInv'
<1>1. call'[q] = c /\ \A p \in Caller \ {q} : call'[p] = call[p]
  BY DEF IInv, TypeOK
<1> QED BY <1>1 DEF IInv, NonceInv

\* How a step of q keeps the invariant.
LEMMA CallKeeps ==
  ASSUME IInv, LimitType', NEW q \in Caller, NEW c \in Locals, call' = [call EXCEPT ![q] = c],
         nonce' \in Nonce \cup {NoNonce}, unsent' \in SUBSET Nonce,
         order' \in [Caller -> Status], late' \in [Caller -> {"none", "sent", "delivered"}],
         fits' = fits, NonceInv', OrderInv(q)',
         \A p \in Caller \ {q} : order'[p] = order[p] /\ late'[p] = late[p]
  PROVE  IInv'
<1>1. call' \in [Caller -> Locals] /\ \A p \in Caller \ {q} : call'[p] = call[p]
  BY DEF IInv, TypeOK
<1>2. TypeOK'
  BY <1>1 DEF IInv, TypeOK, LimitType
<1>3. ASSUME NEW p \in Caller \ {q}  PROVE OrderInv(p)'
  BY <1>1 DEF IInv, OrderInv
<1> QED BY <1>2, <1>3 DEF IInv

\* A call that rests has nothing to keep but its result.
LEMMA RestingKeeps ==
  ASSUME IInv, NEW q \in Caller, NEW c, Resting(c), call' = [call EXCEPT ![q] = c],
         order'[q] \in {"processing", "valid"} => fits[q], fits' = fits,
         c.result = "valid" => order'[q] = "valid", c.result = "refused" => ~fits[q]
  PROVE  OrderInv(q)'
<1>1. call'[q] = c
  BY DEF IInv, TypeOK
<1> QED BY <1>1 DEF OrderInv, Resting

\* Nobody else's nonce is lost or shared when q's request has been answered.
LEMMA SentKeeps ==
  ASSUME IInv, NEW q \in Caller, StoreNonce(unsent \ {call[q].nonce})
  PROVE  /\ nonce' \in Nonce \cup {NoNonce} /\ unsent' \in SUBSET Nonce
         /\ nonce' # NoNonce => nonce' \in unsent'
         /\ \A p \in Caller \ {q} :
               call[p].nonce # NoNonce => call[p].nonce \in unsent' \ {nonce'}
<1> DEFINE rest == unsent \ {call[q].nonce}
<1>1. rest \in SUBSET Nonce /\ (nonce # NoNonce => nonce \in rest)
  BY DEF IInv, TypeOK, NonceInv
<1>2. ASSUME NEW p \in Caller \ {q}, call[p].nonce # NoNonce
      PROVE  call[p].nonce \in rest \ {nonce}
  BY <1>2 DEF IInv, NonceInv
<1>3. TypeOK /\ StoreNonce(rest)
  BY DEF IInv
<1> HIDE DEF rest
<1> QED BY <1>1, <1>2, <1>3, StoreType

\* An answered or failed request leaves the call resting and the order as it was.
LEMMA RequestEnds ==
  ASSUME IInv, LimitType', NEW q \in Caller, NEW c, Resting(c), call' = [call EXCEPT ![q] = c],
         StoreNonce(unsent \ {call[q].nonce}), fits' = fits,
         order' \in [Caller -> Status], late' \in [Caller -> {"none", "sent", "delivered"}],
         \A p \in Caller \ {q} : order'[p] = order[p] /\ late'[p] = late[p],
         order'[q] \in {"processing", "valid"} => fits[q],
         c.result = "valid" => order'[q] = "valid", c.result = "refused" => ~fits[q]
  PROVE  IInv'
<1>1. c \in Locals /\ c.pc # "send" /\ c.nonce = NoNonce
  BY DEF Resting
<1>2. NonceInv'
  BY <1>1, SentKeeps, NonceKeeps
<1>3. OrderInv(q)'
  BY RestingKeeps
<1> QED BY <1>1, <1>2, <1>3, SentKeeps, CallKeeps

\* A step of q that only moves it within its request.
LEMMA MoveKeeps ==
  ASSUME IInv, LimitType', NEW q \in Caller, NEW c \in Locals, call' = [call EXCEPT ![q] = c],
         c.nonce = NoNonce, c.pc \in Sending \ {"send"}, c.pc = "rest" => c.heads < Attempts,
         c.task = call[q].task \/ c.task = "read", c.result = call[q].result,
         call[q].nonce = NoNonce, UNCHANGED <<order, fits, late>>,
         StoreNonce(unsent) \/ UNCHANGED <<nonce, unsent>>
  PROVE  IInv'
<1>1. call'[q] = c
  BY DEF IInv, TypeOK
<1>2. OrderInv(q)'
  BY <1>1 DEF IInv, OrderInv, Sending
<1>3. /\ nonce' \in Nonce \cup {NoNonce} /\ unsent' \in SUBSET Nonce
      /\ nonce' # NoNonce => nonce' \in unsent'
      /\ \A p \in Caller \ {q} : call[p].nonce # NoNonce => call[p].nonce \in unsent' \ {nonce'}
  <2>1. CASE StoreNonce(unsent)
    <3>1. unsent \ {call[q].nonce} = unsent
      BY DEF IInv, TypeOK
    <3>2. StoreNonce(unsent \ {call[q].nonce})
      BY <2>1, <3>1
    <3> QED BY <3>2, SentKeeps
  <2>2. CASE UNCHANGED <<nonce, unsent>>
    BY <2>2 DEF IInv, TypeOK, NonceInv
  <2> QED BY <2>1, <2>2
<1>4. NonceInv'
  <2>1. c.pc # "send"
    OBVIOUS
  <2> QED BY <1>3, <2>1, NonceKeeps
<1>5. order' \in [Caller -> Status] /\ late' \in [Caller -> {"none", "sent", "delivered"}]
  BY DEF IInv, TypeOK
<1> QED BY <1>2, <1>3, <1>4, <1>5, CallKeeps

\* A call that holds no nonce goes to rest.
LEMMA RestKeeps ==
  ASSUME IInv, LimitType', NEW q \in Caller, NEW c, Resting(c), call' = [call EXCEPT ![q] = c],
         call[q].nonce = NoNonce, UNCHANGED <<order, fits, late>>,
         StoreNonce(unsent) \/ UNCHANGED <<nonce, unsent>>,
         c.result \in {"none", "failed"}
  PROVE  IInv'
<1>1. StoreNonce(unsent \ {call[q].nonce})
  <2>1. unsent \ {call[q].nonce} = unsent
    BY DEF IInv, TypeOK
  <2> QED BY <2>1 DEF StoreNonce
<1>2. /\ order' \in [Caller -> Status] /\ late' \in [Caller -> {"none", "sent", "delivered"}]
      /\ order'[q] \in {"processing", "valid"} => fits[q]
  BY DEF IInv, TypeOK, OrderInv
<1> QED BY <1>1, <1>2, RequestEnds

LEMMA NoNonceHeld ==
  ASSUME IInv, NEW q \in Caller
  PROVE  call[q].pc # "send" <=> call[q].nonce = NoNonce
BY DEF IInv, NonceInv

LEMMA CallType ==
  ASSUME IInv, NEW q \in Caller
  PROVE  /\ call[q] \in Locals
         /\ \A e \in Transient \cup {"permanent"} :
               Resting(Failed(call[q], e)) /\ Failed(call[q], e).result \in {"none", "failed"}
<1>1. call[q] \in Locals
  BY DEF IInv, TypeOK
<1>2. ASSUME NEW e \in Transient \cup {"permanent"}
      PROVE  Resting(Failed(call[q], e)) /\ Failed(call[q], e).result \in {"none", "failed"}
  <2>1. e \in Error /\ e # "refused"
    BY DEF Error, Transient
  <2> QED BY <1>1, <2>1, FailedType
<1> QED BY <1>1, <1>2

\* takeNonce: the cached nonce moves to the call that takes it.
LEMMA TakeKeeps ==
  ASSUME IInv, LimitType', NEW q \in Caller, NEW o, TakeNonce(q, o), nonce # NoNonce,
         call[q].nonce = NoNonce, call[q].pc \in Sending, UNCHANGED <<order, fits, late, unsent>>
  PROVE  IInv'
<1> DEFINE c == [call[q] EXCEPT !.pc = "send", !.heads = 1, !.nonce = nonce]
<1>1. call' = [call EXCEPT ![q] = c] /\ nonce' = NoNonce
  BY DEF TakeNonce
<1>2. c \in Locals
  <2>1. call[q] \in Locals /\ nonce \in Nonce /\ 1 \in 1..Attempts
    BY DEF IInv, TypeOK
  <2> QED BY <2>1 DEF Locals, Label
<1>3. c.pc = "send" /\ c.nonce = nonce /\ c.task = call[q].task /\ c.result = call[q].result
  BY CallType DEF Locals
<1> HIDE DEF c
<1>4. \A p \in Caller \ {q} :
        /\ call[p].nonce # NoNonce => call[p].nonce \in unsent' \ {nonce'}
        /\ call[p].nonce # c.nonce
  BY <1>1, <1>3 DEF IInv, NonceInv, TypeOK
<1>5. c.nonce # NoNonce /\ c.nonce \in unsent' \ {nonce'}
  BY <1>1, <1>3 DEF IInv, NonceInv
<1>6. NonceInv'
  BY <1>1, <1>3, <1>4, <1>5, NonceKeeps
<1>7. call'[q] = c
  BY <1>1 DEF IInv, TypeOK
<1>8. OrderInv(q)'
  BY <1>3, <1>7 DEF IInv, OrderInv, Sending
<1>9. /\ nonce' \in Nonce \cup {NoNonce} /\ unsent' \in SUBSET Nonce
      /\ order' \in [Caller -> Status] /\ late' \in [Caller -> {"none", "sent", "delivered"}]
  BY <1>1 DEF IInv, TypeOK
<1> QED BY <1>1, <1>2, <1>6, <1>8, <1>9, CallKeeps

LEMMA GetNonceKeeps ==
  ASSUME IInv, LimitType', NEW q \in Caller, GetNonce(q) \/ TakeHead(q)
  PROVE  IInv'
<1>1. /\ call[q].pc \in {"nonce", "take"} /\ call[q].nonce = NoNonce /\ call[q] \in Locals
      /\ UNCHANGED <<order, fits, late, unsent>>
  BY NoNonceHeld, CallType DEF GetNonce, TakeHead
<1>2. CASE nonce # NoNonce
  <2>1. CASE GetNonce(q)
    <3> DEFINE o == Goto(call[q], "head")
    <3>1. TakeNonce(q, o)
      BY <2>1 DEF GetNonce
    <3> HIDE DEF o
    <3> QED BY <1>1, <1>2, <3>1, TakeKeeps DEF Sending
  <2>2. CASE TakeHead(q)
    <3> DEFINE o == Failed(call[q], "permanent")
    <3>1. TakeNonce(q, o)
      BY <2>2 DEF TakeHead
    <3> HIDE DEF o
    <3> QED BY <1>1, <1>2, <3>1, TakeKeeps DEF Sending
  <2> QED BY <2>1, <2>2
<1>3. CASE nonce = NoNonce /\ GetNonce(q)
  <2> DEFINE c == Goto(call[q], "head")
  <2>1. call' = [call EXCEPT ![q] = c] /\ UNCHANGED <<nonce, unsent>>
    BY <1>3 DEF GetNonce, TakeNonce
  <2>2. /\ c \in Locals /\ c.nonce = NoNonce /\ c.pc = "head" /\ c.task = call[q].task
        /\ c.result = call[q].result
    BY <1>1 DEF Goto, Locals, Label
  <2> HIDE DEF c
  <2> QED BY <1>1, <2>1, <2>2, MoveKeeps DEF Sending
<1>4. CASE nonce = NoNonce /\ TakeHead(q)
  <2> DEFINE c == Failed(call[q], "permanent")
  <2>1. call' = [call EXCEPT ![q] = c] /\ UNCHANGED <<nonce, unsent>>
    BY <1>4 DEF TakeHead, TakeNonce
  <2>2. Resting(c) /\ c.result \in {"none", "failed"}
    BY CallType
  <2> HIDE DEF c
  <2> QED BY <1>1, <2>1, <2>2, RestKeeps
<1> QED BY <1>2, <1>3, <1>4

\* HEAD of newNonce, and the wait before it is repeated.
LEMMA HeadKeeps ==
  ASSUME IInv, LimitType', NEW q \in Caller, Head(q) \/ Rest(q)
  PROVE  IInv'
<1>1. /\ call[q].pc \in {"head", "rest"} /\ call[q].nonce = NoNonce /\ call[q] \in Locals
      /\ UNCHANGED <<order, fits, late>> /\ (StoreNonce(unsent) \/ UNCHANGED <<nonce, unsent>>)
  BY NoNonceHeld, CallType DEF Head, Rest
<1>2. \/ \E e \in Transient \cup {"permanent"} : call' = [call EXCEPT ![q] = Failed(call[q], e)]
      \/ call' = [call EXCEPT ![q] = Goto(call[q], "take")]
      \/ /\ call[q].heads < Attempts
         /\ \E h \in BOOLEAN : call' = [call EXCEPT ![q] = [Goto(call[q], "rest") EXCEPT !.held = h]]
      \/ call[q].pc = "rest" /\ call' = [call EXCEPT ![q] = [call[q] EXCEPT !.pc = "head", !.heads = @ + 1]]
  BY DEF Head, Rest, Transient
<1>3. ASSUME NEW e \in Transient \cup {"permanent"}, call' = [call EXCEPT ![q] = Failed(call[q], e)]
      PROVE  IInv'
  <2> DEFINE c == Failed(call[q], e)
  <2>1. Resting(c) /\ c.result \in {"none", "failed"} /\ call' = [call EXCEPT ![q] = c]
    BY <1>3, CallType
  <2> HIDE DEF c
  <2> QED BY <1>1, <2>1, RestKeeps
<1>4. CASE call' = [call EXCEPT ![q] = Goto(call[q], "take")]
  <2> DEFINE c == Goto(call[q], "take")
  <2>1. /\ c \in Locals /\ c.nonce = NoNonce /\ c.pc = "take" /\ c.task = call[q].task
        /\ c.result = call[q].result /\ call' = [call EXCEPT ![q] = c]
    BY <1>1, <1>4 DEF Goto, Locals, Label
  <2> HIDE DEF c
  <2> QED BY <1>1, <2>1, MoveKeeps DEF Sending
<1>6. ASSUME NEW h \in BOOLEAN, call[q].heads < Attempts,
             call' = [call EXCEPT ![q] = [Goto(call[q], "rest") EXCEPT !.held = h]]
      PROVE  IInv'
  <2> DEFINE c == [Goto(call[q], "rest") EXCEPT !.held = h]
  <2>1. /\ c \in Locals /\ c.nonce = NoNonce /\ c.pc = "rest" /\ c.task = call[q].task
        /\ c.result = call[q].result /\ c.heads = call[q].heads /\ call' = [call EXCEPT ![q] = c]
    BY <1>1, <1>6 DEF Goto, Locals, Label
  <2> HIDE DEF c
  <2> QED BY <1>1, <1>6, <2>1, MoveKeeps DEF Sending
<1>5. CASE /\ call[q].pc = "rest"
           /\ call' = [call EXCEPT ![q] = [call[q] EXCEPT !.pc = "head", !.heads = @ + 1]]
  <2> DEFINE c == [call[q] EXCEPT !.pc = "head", !.heads = @ + 1]
  <2>1. call[q].heads \in 1..Attempts /\ call[q].heads < Attempts
    BY <1>1, <1>5 DEF IInv, OrderInv, Locals
  <2>2. call[q].heads + 1 \in 1..Attempts
    BY <2>1
  <2>3. /\ c \in Locals /\ c.nonce = NoNonce /\ c.pc = "head" /\ c.task = call[q].task
        /\ c.result = call[q].result /\ call' = [call EXCEPT ![q] = c]
    BY <1>1, <1>5, <2>2 DEF Locals, Label
  <2> HIDE DEF c
  <2> QED BY <1>1, <2>3, MoveKeeps DEF Sending
<1> QED BY <1>2, <1>3, <1>4, <1>5, <1>6

-----------------------------------------------------------------------------
(* Requests. *)

LEMMA BadNonceKeeps ==
  ASSUME IInv, LimitType', NEW q \in Caller, BadNonce(q)
  PROVE  IInv'
<1>1. /\ call[q].pc = "send" /\ StoreNonce(unsent \ {call[q].nonce}) /\ call[q] \in Locals
      /\ UNCHANGED <<order, fits, late>>
  BY CallType DEF BadNonce
<1>2. /\ order' \in [Caller -> Status] /\ late' \in [Caller -> {"none", "sent", "delivered"}]
      /\ order'[q] \in {"processing", "valid"} => fits[q]
  BY <1>1 DEF IInv, TypeOK, OrderInv
<1>3. CASE call[q].resent
  <2> DEFINE c == Failed(call[q], "permanent")
  <2>1. Resting(c) /\ c.result \in {"none", "failed"} /\ call' = [call EXCEPT ![q] = c]
    BY <1>3, CallType DEF BadNonce
  <2> HIDE DEF c
  <2> QED BY <1>1, <1>2, <2>1, RequestEnds
<1>4. CASE ~call[q].resent
  <2> DEFINE c == [call[q] EXCEPT !.pc = "nonce", !.resent = TRUE, !.nonce = NoNonce]
  <2>1. /\ c \in Locals /\ c.pc = "nonce" /\ c.nonce = NoNonce /\ c.task = call[q].task
        /\ c.result = call[q].result /\ call' = [call EXCEPT ![q] = c]
    BY <1>1, <1>4 DEF BadNonce, Locals, Label
  <2> HIDE DEF c
  <2>2. NonceInv'
    <3>1. c.pc # "send"
      BY <2>1
    <3> QED BY <1>1, <2>1, <3>1, SentKeeps, NonceKeeps
  <2>3. call'[q] = c
    BY <2>1 DEF IInv, TypeOK
  <2>4. OrderInv(q)'
    BY <1>1, <2>1, <2>3 DEF IInv, OrderInv, Sending
  <2> QED BY <1>1, <1>2, <2>1, <2>2, <2>4, SentKeeps, CallKeeps
<1> QED BY <1>3, <1>4

\* What the CA may have done with the order, too, when no answer came.
LEMMA NoAnswerKeeps ==
  ASSUME IInv, LimitType', NEW q \in Caller, NoAnswer(q)
  PROVE  IInv'
<1>4. PICK e \in Transient : call' = [call EXCEPT ![q] = Failed(call[q], e)]
  BY DEF NoAnswer
<1> DEFINE c == Failed(call[q], e)
<1>1. /\ StoreNonce(unsent \ {call[q].nonce}) /\ call' = [call EXCEPT ![q] = c] /\ fits' = fits
  BY <1>4 DEF NoAnswer
<1>2. Resting(c) /\ c.result \in {"none", "failed"}
  BY CallType
<1>3. /\ order' \in [Caller -> Status] /\ late' \in [Caller -> {"none", "sent", "delivered"}]
      /\ \A p \in Caller \ {q} : order'[p] = order[p] /\ late'[p] = late[p]
      /\ order'[q] \in {"processing", "valid"} => fits[q]
  BY DEF IInv, TypeOK, OrderInv, NoAnswer, Accept, Status
<1> HIDE DEF c
<1> QED BY <1>1, <1>2, <1>3, RequestEnds

\* WaitOrder sees the status the order has; a submission begins while it is ready.
LEMMA ReadAnsweredKeeps ==
  ASSUME IInv, LimitType', NEW q \in Caller, ReadAnswered(q)
  PROVE  IInv'
<1>1. /\ StoreNonce(unsent \ {call[q].nonce}) /\ UNCHANGED <<order, fits, late>>
      /\ \/ call' = [call EXCEPT ![q] = Seen(q, order[q])]
         \/ call' = [call EXCEPT ![q] = Failed(call[q], "permanent")]
  BY DEF ReadAnswered
<1>2. /\ order' \in [Caller -> Status] /\ late' \in [Caller -> {"none", "sent", "delivered"}]
      /\ order'[q] \in {"processing", "valid"} => fits[q]
  BY <1>1 DEF IInv, TypeOK, OrderInv
<1>3. CASE call' = [call EXCEPT ![q] = Failed(call[q], "permanent")]
  <2> DEFINE c == Failed(call[q], "permanent")
  <2>1. Resting(c) /\ c.result \in {"none", "failed"} /\ call' = [call EXCEPT ![q] = c]
    BY <1>3, CallType
  <2> HIDE DEF c
  <2> QED BY <1>1, <1>2, <2>1, RequestEnds
<1>4. CASE call' = [call EXCEPT ![q] = Seen(q, order[q])]
  <2> DEFINE c == Seen(q, order[q])
  <2>1. /\ c \in Locals /\ c.nonce = NoNonce /\ call' = [call EXCEPT ![q] = c]
        /\ c.result \in {"none", "ready", "valid", "exhausted", "failed"}
        /\ c.result = "valid" => order[q] = "valid"
        /\ Resting(c) \/ (c.task = "submit" /\ c.pc = "nonce" /\ order[q] = "ready")
    BY <1>4, SeenType DEF IInv
  <2> HIDE DEF c
  <2>2. CASE Resting(c)
    BY <1>1, <1>2, <2>1, <2>2, RequestEnds
  <2>3. CASE c.task = "submit" /\ c.pc = "nonce" /\ order[q] = "ready"
    <3>1. NonceInv'
      <4>1. c.pc # "send"
        BY <2>3
      <4> QED BY <1>1, <2>1, <4>1, SentKeeps, NonceKeeps
    <3>2. call'[q] = c
      BY <2>1 DEF IInv, TypeOK
    <3>3. OrderInv(q)'
      BY <1>1, <2>1, <2>3, <3>2 DEF IInv, OrderInv, Sending
    <3> QED BY <1>1, <1>2, <2>1, <3>1, <3>3, SentKeeps, CallKeeps
  <2> QED BY <2>1, <2>2, <2>3
<1> QED BY <1>1, <1>3, <1>4

LEMMA AcceptedKeeps ==
  ASSUME IInv, LimitType', NEW q \in Caller, Accepted(q)
  PROVE  IInv'
<1> DEFINE c == IF order'[q] = "valid" THEN Done("valid") ELSE Wait(call[q], "backoff", 1)
<1>1. /\ StoreNonce(unsent \ {call[q].nonce}) /\ call' = [call EXCEPT ![q] = c] /\ fits' = fits
      /\ fits[q] /\ UNCHANGED late
  BY DEF Accepted, Accept
<1>2. /\ order' \in [Caller -> Status] /\ late' \in [Caller -> {"none", "sent", "delivered"}]
      /\ \A p \in Caller \ {q} : order'[p] = order[p] /\ late'[p] = late[p]
  BY DEF IInv, TypeOK, Accepted, Accept, Status
<1>3. /\ Resting(c) /\ c.result \in {"none", "valid"}
      /\ c.result = "valid" => order'[q] = "valid"
  <2>1. CASE order'[q] = "valid"
    BY <2>1, DoneType DEF Result
  <2>2. CASE order'[q] # "valid"
    <3> DEFINE w == Wait(call[q], "backoff", 1)
    <3>1. call[q] \in Locals /\ "backoff" \in Label /\ 1 \in 1..Attempts
      BY CallType DEF Label
    <3>2. /\ w \in Locals /\ w.pc = "backoff" /\ w.task = "read" /\ w.nonce = NoNonce
          /\ w.result = "none"
      BY <3>1, WaitType
    <3>3. c = w
      BY <2>2
    <3> HIDE DEF w, c
    <3> QED BY <3>2, <3>3 DEF Resting
  <2> QED BY <2>1, <2>2
<1> HIDE DEF c
<1> QED BY <1>1, <1>2, <1>3, RequestEnds

LEMMA RejectedKeeps ==
  ASSUME IInv, LimitType', NEW q \in Caller, Rejected(q)
  PROVE  IInv'
<1>1. PICK e \in {"notReady", "refused", "permanent"} :
        call' = [call EXCEPT ![q] = Failed(call[q], e)] /\ (e = "refused" => ~fits[q])
  BY DEF Rejected
<1>2. /\ StoreNonce(unsent \ {call[q].nonce}) /\ UNCHANGED <<order, fits, late>>
  BY DEF Rejected
<1> DEFINE c == Failed(call[q], e)
<1>3. /\ Resting(c) /\ c.result \in {"none", "refused", "failed"}
      /\ c.result = "refused" => e = "refused"
  BY CallType, FailedType DEF Error
<1>4. call' = [call EXCEPT ![q] = c]
  BY <1>1
<1> HIDE DEF c
<1>5. /\ order' \in [Caller -> Status] /\ late' \in [Caller -> {"none", "sent", "delivered"}]
      /\ order'[q] \in {"processing", "valid"} => fits[q]
  BY <1>2 DEF IInv, TypeOK, OrderInv
<1> QED BY <1>1, <1>2, <1>3, <1>4, <1>5, RequestEnds

-----------------------------------------------------------------------------
(* Waiting, and the CA. *)

LEMMA WaitingKeeps ==
  ASSUME IInv, LimitType', NEW q \in Caller, Delay(q) \/ Pause(q) \/ Backoff(q)
  PROVE  IInv'
<1>1. /\ call[q].pc \in {"delay", "pause", "backoff"} /\ call[q].nonce = NoNonce
      /\ call[q] \in Locals /\ UNCHANGED <<order, fits, late, nonce, unsent>>
  BY NoNonceHeld, CallType DEF Delay, Pause, Backoff
<1>2. CASE call' = [call EXCEPT ![q] = Done("failed")]
  <2> DEFINE c == Done("failed")
  <2>1. Resting(c) /\ c.result = "failed" /\ call' = [call EXCEPT ![q] = c]
    BY <1>2, DoneType DEF Result
  <2> HIDE DEF c
  <2> QED BY <1>1, <2>1, RestKeeps
<1>5. CASE call' = [call EXCEPT ![q] = Interrupted(call[q])]
  <2> DEFINE c == Interrupted(call[q])
  <2>1. Resting(c) /\ c.result = "failed" /\ call' = [call EXCEPT ![q] = c]
    BY <1>1, <1>5, InterruptedType
  <2> HIDE DEF c
  <2> QED BY <1>1, <2>1, RestKeeps
<1>3. CASE call' = [call EXCEPT ![q] = Goto(call[q], "nonce")]
  <2> DEFINE c == Goto(call[q], "nonce")
  <2>1. /\ c \in Locals /\ c.nonce = NoNonce /\ c.pc = "nonce" /\ c.task = call[q].task
        /\ c.result = call[q].result /\ call' = [call EXCEPT ![q] = c]
    BY <1>1, <1>3 DEF Goto, Locals, Label
  <2> HIDE DEF c
  <2> QED BY <1>1, <2>1, MoveKeeps DEF Sending
<1>4. CASE /\ Delay(q)
           /\ call' = [call EXCEPT ![q] = [call[q] EXCEPT !.pc = "nonce", !.reads = @ + 1]]
  <2> DEFINE c == [call[q] EXCEPT !.pc = "nonce", !.reads = @ + 1]
  <2>1. call[q].reads \in 1..Attempts /\ call[q].reads < Attempts
    BY <1>1, <1>4 DEF IInv, OrderInv, Locals, Delay
  <2>2. call[q].reads + 1 \in 1..Attempts
    BY <2>1
  <2>3. /\ c \in Locals /\ c.nonce = NoNonce /\ c.pc = "nonce" /\ c.task = call[q].task
        /\ c.result = call[q].result /\ call' = [call EXCEPT ![q] = c]
    BY <1>1, <1>4, <2>2 DEF Locals, Label
  <2> HIDE DEF c
  <2> QED BY <1>1, <2>3, MoveKeeps DEF Sending
<1> QED BY <1>2, <1>3, <1>4, <1>5 DEF Delay, Pause, Backoff

LEMMA ExpireKeeps ==
  ASSUME IInv, LimitType', NEW q \in Caller, Expire(q)
  PROVE  IInv'
<1> DEFINE c == [call[q] EXCEPT !.expired = TRUE, !.reads = 1, !.heads = 1, !.resent = FALSE,
                                !.submits = 0]
<1>1. call' = [call EXCEPT ![q] = c] /\ UNCHANGED <<order, fits, late, nonce, unsent>>
  BY DEF Expire
<1>2. call[q] \in Locals /\ 1 \in 1..Attempts /\ 0 \in 0..Attempts
  BY CallType
<1>3. /\ c \in Locals /\ c.pc = call[q].pc /\ c.nonce = call[q].nonce /\ c.task = call[q].task
      /\ c.result = call[q].result /\ c.reads = 1 /\ c.heads = 1
  BY <1>2 DEF Locals
<1> HIDE DEF c
<1>4. call'[q] = c
  BY <1>1 DEF IInv, TypeOK
<1>5. NonceInv'
  <2>1. ASSUME NEW p \in Caller  PROVE call'[p].nonce = call[p].nonce /\ call'[p].pc = call[p].pc
    BY <1>1, <1>3 DEF IInv, TypeOK
  <2> QED BY <1>1, <2>1 DEF IInv, NonceInv
<1>6. OrderInv(q)'
  <2>1. (call[q].pc = "delay" \/ call[q].pc = "rest") => 1 < Attempts
    BY <1>2 DEF IInv, OrderInv, Locals
  <2> QED BY <1>1, <1>3, <1>4, <2>1 DEF IInv, OrderInv
<1>7. /\ nonce' \in Nonce \cup {NoNonce} /\ unsent' \in SUBSET Nonce
      /\ order' \in [Caller -> Status] /\ late' \in [Caller -> {"none", "sent", "delivered"}]
  BY <1>1 DEF IInv, TypeOK
<1> QED BY <1>1, <1>3, <1>5, <1>6, <1>7, CallKeeps

LEMMA RetryTimeKeeps ==
  ASSUME IInv, LimitType', NEW q \in Caller, RetryTime(q)
  PROVE  IInv'
<1> DEFINE c == [call[q] EXCEPT !.held = FALSE]
<1>1. call' = [call EXCEPT ![q] = c] /\ UNCHANGED <<order, fits, late, nonce, unsent>>
  BY DEF RetryTime
<1>2. call[q] \in Locals
  BY CallType
<1>3. /\ c \in Locals /\ c.pc = call[q].pc /\ c.nonce = call[q].nonce /\ c.task = call[q].task
      /\ c.result = call[q].result /\ c.reads = call[q].reads /\ c.heads = call[q].heads
  BY <1>2 DEF Locals
<1> HIDE DEF c
<1>4. call'[q] = c
  BY <1>1 DEF IInv, TypeOK
<1>5. NonceInv'
  <2>1. ASSUME NEW p \in Caller  PROVE call'[p].nonce = call[p].nonce /\ call'[p].pc = call[p].pc
    BY <1>1, <1>3 DEF IInv, TypeOK
  <2> QED BY <1>1, <2>1 DEF IInv, NonceInv
<1>6. OrderInv(q)'
  BY <1>1, <1>3, <1>4 DEF IInv, OrderInv
<1>7. /\ nonce' \in Nonce \cup {NoNonce} /\ unsent' \in SUBSET Nonce
      /\ order' \in [Caller -> Status] /\ late' \in [Caller -> {"none", "sent", "delivered"}]
  BY <1>1 DEF IInv, TypeOK
<1> QED BY <1>1, <1>3, <1>5, <1>6, <1>7, CallKeeps

LEMMA CAKeeps ==
  ASSUME IInv, LimitType', NEW q \in Caller, CAAdvances(q) \/ DeliverLate(q)
  PROVE  IInv'
<1>1. UNCHANGED <<fits, nonce, unsent, call>>
  BY DEF CAAdvances, DeliverLate
<1>2. /\ order' \in [Caller -> Status] /\ late' \in [Caller -> {"none", "sent", "delivered"}]
      /\ \A p \in Caller \ {q} : order'[p] = order[p] /\ late'[p] = late[p]
  BY DEF IInv, TypeOK, CAAdvances, DeliverLate, Accept, Status
<1>3. OrderInv(q)'
  <2>1. CASE CAAdvances(q)
    BY <1>1, <2>1 DEF IInv, TypeOK, OrderInv, CAAdvances
  <2>2. CASE DeliverLate(q)
    BY <1>1, <2>2 DEF IInv, TypeOK, OrderInv, DeliverLate, Accept
  <2> QED BY <2>1, <2>2
<1>4. ASSUME NEW p \in Caller \ {q}  PROVE OrderInv(p)'
  BY <1>1, <1>2 DEF IInv, OrderInv
<1>5. TypeOK'
  BY <1>1, <1>2 DEF IInv, TypeOK, LimitType
<1>6. NonceInv'
  BY <1>1 DEF IInv, NonceInv
<1> QED BY <1>3, <1>4, <1>5, <1>6 DEF IInv

-----------------------------------------------------------------------------
(* Retry-After. *)

\* A step of q disturbs no other call's wait.
LEMMA LimitOfOne ==
  ASSUME IInv, LimitInv, NEW q \in Caller, NEW c, call' = [call EXCEPT ![q] = c],
         \A p \in Caller \ {q} : limit'[p] = limit[p],
         limit'[q] => /\ c.pc \in {"delay", "rest", "backoff", "done"}
                      /\ c.pc # "done" => c.held
  PROVE  LimitInv'
<1>1. call'[q] = c /\ \A p \in Caller \ {q} : call'[p] = call[p]
  BY DEF IInv, TypeOK
<1> QED BY <1>1 DEF LimitInv

\* Only an answer that says so makes a call wait for a Retry-After.
LEMMA LimitOfAnswer ==
  ASSUME IInv, NEW q \in Caller, NEW e \in Transient, Limit(q, e), ~limit[q]
  PROVE  /\ \A p \in Caller \ {q} : limit'[p] = limit[p]
         /\ limit'[q] => e = "limited"
BY DEF IInv, TypeOK, Limit

\* Whatever fails after an answer with a Retry-After waits for it, or ends the call.
LEMMA LimitFails ==
  ASSUME IInv, LimitInv, NEW q \in Caller, NEW e \in Error,
         call' = [call EXCEPT ![q] = Failed(call[q], e)],
         \A p \in Caller \ {q} : limit'[p] = limit[p], limit'[q] => e = "limited"
  PROVE  LimitInv'
<1> DEFINE c == Failed(call[q], e)
<1>1. call' = [call EXCEPT ![q] = c]
  OBVIOUS
<1>2. c.pc \in {"delay", "backoff", "done"} /\ (c.pc # "done" => c.held = (e = "limited"))
  BY CallType, FailedType
<1> HIDE DEF c
<1> QED BY <1>1, <1>2, LimitOfOne

\* A call that sends or is about to owes the CA no wait.
LEMMA LimitSends ==
  ASSUME IInv, LimitInv, NEW q \in Caller, NEW c, call' = [call EXCEPT ![q] = c],
         call[q].pc \in {"nonce", "head", "take", "send", "pause"}, UNCHANGED limit
  PROVE  LimitInv'
<1>1. ~limit[q]
  BY DEF LimitInv
<1> QED BY <1>1, LimitOfOne

LEMMA LimitHead ==
  ASSUME IInv, LimitInv, NEW q \in Caller, Head(q)
  PROVE  LimitInv'
<1>1. call[q].pc = "head" /\ ~limit[q] /\ call[q] \in Locals
  BY CallType DEF Head, LimitInv
<1>2. CASE UNCHANGED limit
  <2>1. PICK c : call' = [call EXCEPT ![q] = c]
    BY DEF Head
  <2> QED BY <1>1, <1>2, <2>1, LimitSends
<1>3. CASE ~UNCHANGED limit
  <2>1. PICK e \in Transient :
          /\ Limit(q, e)
          /\ \/ call' = [call EXCEPT ![q] = [Goto(call[q], "rest") EXCEPT !.held = e = "limited"]]
             \/ call' = [call EXCEPT ![q] = Failed(call[q], e)]
    BY <1>3 DEF Head
  <2>2. /\ \A p \in Caller \ {q} : limit'[p] = limit[p]
        /\ limit'[q] => e = "limited"
    BY <1>1, <2>1, LimitOfAnswer
  <2>3. CASE call' = [call EXCEPT ![q] = Failed(call[q], e)]
    BY <2>2, <2>3, LimitFails DEF Error
  <2>4. CASE call' = [call EXCEPT ![q] = [Goto(call[q], "rest") EXCEPT !.held = e = "limited"]]
    <3> DEFINE c == [Goto(call[q], "rest") EXCEPT !.held = e = "limited"]
    <3>1. call' = [call EXCEPT ![q] = c]
      BY <2>4
    <3>2. c.pc = "rest" /\ c.held = (e = "limited")
      BY <1>1 DEF Goto, Locals
    <3> HIDE DEF c
    <3> QED BY <2>2, <3>1, <3>2, LimitOfOne
  <2> QED BY <2>1, <2>3, <2>4
<1> QED BY <1>2, <1>3

LEMMA LimitNoAnswer ==
  ASSUME IInv, LimitInv, NEW q \in Caller, NoAnswer(q)
  PROVE  LimitInv'
<1>1. ~limit[q]
  BY DEF NoAnswer, LimitInv
<1>2. PICK e \in Transient : Limit(q, e) /\ call' = [call EXCEPT ![q] = Failed(call[q], e)]
  BY DEF NoAnswer
<1>3. /\ \A p \in Caller \ {q} : limit'[p] = limit[p]
      /\ limit'[q] => e = "limited"
  BY <1>1, <1>2, LimitOfAnswer
<1> QED BY <1>2, <1>3, LimitFails DEF Error

\* A wait ends before its Retry-After only with the call's context.
LEMMA LimitWaits ==
  ASSUME IInv, LimitInv, NEW q \in Caller, Rest(q) \/ Delay(q) \/ Backoff(q)
  PROVE  LimitInv'
<1>1. UNCHANGED limit
  BY DEF Rest, Delay, Backoff
<1>2. CASE ~limit[q]
  <2>1. PICK c : call' = [call EXCEPT ![q] = c]
    BY DEF Rest, Delay, Backoff
  <2> QED BY <1>1, <1>2, <2>1, LimitOfOne
<1>3. CASE limit[q]
  <2>1. call[q].held /\ call[q].expired
    BY <1>3 DEF LimitInv, Rest, Delay, Backoff
  <2>2. CASE Rest(q)
    <3>1. call' = [call EXCEPT ![q] = Failed(call[q], "limited")]
      BY <2>1, <2>2 DEF Rest
    <3> QED BY <1>1, <3>1, LimitFails DEF Error, Transient
  <2>3. CASE Delay(q) \/ Backoff(q)
    <3> DEFINE c == Interrupted(call[q])
    <3>1. call' = [call EXCEPT ![q] = c] /\ c.pc = "done"
      BY <2>1, <2>3, CallType, InterruptedType DEF Delay, Backoff
    <3> HIDE DEF c
    <3> QED BY <1>1, <3>1, LimitOfOne
  <2> QED BY <2>2, <2>3
<1> QED BY <1>2, <1>3

LEMMA LimitExpire ==
  ASSUME IInv, LimitInv, NEW q \in Caller, Expire(q)
  PROVE  LimitInv'
<1> DEFINE c == [call[q] EXCEPT !.expired = TRUE, !.reads = 1, !.heads = 1, !.resent = FALSE,
                                !.submits = 0]
<1>1. call' = [call EXCEPT ![q] = c] /\ UNCHANGED limit
  BY DEF Expire
<1>2. c.pc = call[q].pc /\ c.held = call[q].held
  BY CallType DEF Locals
<1> HIDE DEF c
<1>3. limit'[q] => /\ c.pc \in {"delay", "rest", "backoff", "done"}
                   /\ c.pc # "done" => c.held
  BY <1>1, <1>2 DEF LimitInv
<1> QED BY <1>1, <1>3, LimitOfOne

LEMMA LimitComes ==
  ASSUME IInv, LimitInv, NEW q \in Caller, RetryTime(q)
  PROVE  LimitInv'
<1> DEFINE c == [call[q] EXCEPT !.held = FALSE]
<1>1. call' = [call EXCEPT ![q] = c]
  BY DEF RetryTime
<1>2. ~limit'[q] /\ \A p \in Caller \ {q} : limit'[p] = limit[p]
  BY DEF RetryTime, IInv, TypeOK
<1> HIDE DEF c
<1> QED BY <1>1, <1>2, LimitOfOne

LEMMA LimitStep == IInv /\ LimitInv /\ [Next]_vars => LimitInv'
<1> SUFFICES ASSUME IInv, LimitInv, [Next]_vars  PROVE LimitInv'
  OBVIOUS
<1>1. ASSUME NEW q \in Caller,
             GetNonce(q) \/ TakeHead(q) \/ BadNonce(q) \/ ReadAnswered(q) \/ Accepted(q)
               \/ Rejected(q) \/ Pause(q)
      PROVE  LimitInv'
  <2>1. /\ call[q].pc \in {"nonce", "head", "take", "send", "pause"} /\ UNCHANGED limit
        /\ \E c : call' = [call EXCEPT ![q] = c]
    BY <1>1 DEF GetNonce, TakeHead, TakeNonce, BadNonce, ReadAnswered, Accepted, Rejected, Pause
  <2> QED BY <2>1, LimitSends
<1>2. ASSUME NEW q \in Caller, Step(q)  PROVE LimitInv'
  BY <1>1, <1>2, LimitHead, LimitNoAnswer, LimitWaits DEF Step
<1>3. ASSUME NEW q \in Caller, CAAdvances(q) \/ DeliverLate(q)  PROVE LimitInv'
  BY <1>3 DEF CAAdvances, DeliverLate, LimitInv
<1>4. CASE UNCHANGED vars
  BY <1>4 DEF vars, LimitInv
<1> QED BY <1>2, <1>3, <1>4, LimitExpire, LimitComes DEF Next, Returned

-----------------------------------------------------------------------------
(* The theorems. *)

LEMMA InitInvariant == Init => IInv
<1> SUFFICES ASSUME Init  PROVE IInv
  OBVIOUS
<1>1. \A q \in Caller : call[q] = Called
  BY DEF Init
<1>2. /\ Called.pc = "nonce" /\ Called.task = "read" /\ Called.nonce = NoNonce
      /\ Called.result = "none"
  BY DEF Called
<1>3. TypeOK
  BY CalledType DEF Init, TypeOK, Status
<1>4. NonceInv
  BY <1>1, <1>2 DEF Init, NonceInv
<1>5. \A q \in Caller : OrderInv(q)
  BY <1>1, <1>2 DEF Init, OrderInv
<1> QED BY <1>3, <1>4, <1>5 DEF IInv

LEMMA LimitKeeps ==
  ASSUME IInv, [Next]_vars
  PROVE  LimitType'
<1>1. ASSUME UNCHANGED limit  PROVE LimitType'
  BY <1>1 DEF LimitType, IInv, TypeOK
<1>2. ASSUME NEW q \in Caller, NEW e \in Transient, Limit(q, e)  PROVE LimitType'
  BY <1>2 DEF LimitType, IInv, TypeOK, Limit
<1>3. ASSUME NEW q \in Caller, Head(q)  PROVE LimitType'
  BY <1>1, <1>2, <1>3 DEF Head
<1>4. ASSUME NEW q \in Caller, NoAnswer(q)  PROVE LimitType'
  BY <1>2, <1>4 DEF NoAnswer
<1>5. ASSUME NEW q \in Caller, RetryTime(q)  PROVE LimitType'
  BY <1>5 DEF LimitType, IInv, TypeOK, RetryTime
<1>6. ASSUME NEW q \in Caller, Step(q), ~Head(q), ~NoAnswer(q)  PROVE UNCHANGED limit
  BY <1>6 DEF Step, GetNonce, Rest, TakeHead, BadNonce, ReadAnswered, Accepted, Rejected,
              Delay, Pause, Backoff
<1>7. ASSUME NEW q \in Caller, Expire(q) \/ CAAdvances(q) \/ DeliverLate(q)
      PROVE  UNCHANGED limit
  BY <1>7 DEF Expire, CAAdvances, DeliverLate
<1> QED BY <1>1, <1>3, <1>4, <1>5, <1>6, <1>7 DEF Next, Returned, vars

LEMMA NextInvariant == IInv /\ [Next]_vars => IInv'
<1> SUFFICES ASSUME IInv, [Next]_vars  PROVE IInv'
  OBVIOUS
<1>4. LimitType'
  BY LimitKeeps
<1>1. ASSUME NEW q \in Caller, Step(q)  PROVE IInv'
  BY <1>1, <1>4, GetNonceKeeps, HeadKeeps, BadNonceKeeps, NoAnswerKeeps, ReadAnsweredKeeps,
     AcceptedKeeps, RejectedKeeps, WaitingKeeps DEF Step
<1>2. ASSUME NEW q \in Caller, Expire(q) \/ CAAdvances(q) \/ DeliverLate(q) \/ RetryTime(q)
      PROVE  IInv'
  BY <1>2, <1>4, ExpireKeeps, CAKeeps, RetryTimeKeeps
<1>3. CASE UNCHANGED vars
  BY <1>3 DEF vars, LimitType, IInv, TypeOK, NonceInv, OrderInv
<1> QED BY <1>1, <1>2, <1>3 DEF Next, Returned

\* The inductive invariant: every nonce is in one place, and every call's progress
\* agrees with its order.
THEOREM Invariance == Spec => []IInv
BY InitInvariant, NextInvariant, PTL DEF Spec

\* Every counter stays within RetryPolicy.Attempts (retry.go:25).
THEOREM TypeCorrect == Spec => []TypeOK
<1>1. IInv => TypeOK
  BY DEF IInv
<1> QED BY Invariance, <1>1, PTL

\* No nonce is sent twice or by two calls (takeNonce, acme.go:315), however many
\* calls share the client and whatever answers overtake each other.
THEOREM NoncesAreFresh == Spec => []NonceFresh
<1>1. IInv => NonceFresh
  BY DEF IInv, NonceInv, NonceFresh
<1> QED BY Invariance, <1>1, PTL

\* FinalizeAndWait never replays a submission while the order is in processing
\* (order.go:80-82), short of the network delivering a request after its time.
THEOREM NoBlindReplay == Spec => []SubmitsOnlyReady
<1>1. IInv => SubmitsOnlyReady
  BY DEF IInv, OrderInv, SubmitsOnlyReady
<1> QED BY Invariance, <1>1, PTL

\* A lost answer is no failure and no success (order.go:81): what FinalizeAndWait
\* reports of its CSR is what the CA did with it.
THEOREM OutcomesAreTrue == Spec => []OutcomeTrue
<1>1. IInv => OutcomeTrue
  BY DEF IInv, OrderInv, OutcomeTrue
<1> QED BY Invariance, <1>1, PTL

\* No request goes out before the Retry-After of an earlier answer to its call
\* (retry.go:114, order.go:113), be it to a read, a submission or getNonce's HEAD,
\* and whichever of the nested retries waits for it.
THEOREM RetryTimesAreKept == Spec => []RetryAfterRespected
<1>1. Init => LimitInv
  BY DEF Init, LimitInv
<1>2. LimitInv => RetryAfterRespected
  BY DEF LimitInv, RetryAfterRespected
<1> QED BY InitInvariant, NextInvariant, LimitStep, <1>1, <1>2, PTL DEF Spec

-----------------------------------------------------------------------------
(* What is left of a call whose context has ended. *)

LEMMA DistanceIs ==
  /\ Distance["done"] = 0 /\ Distance["pause"] = 3
  /\ Distance["nonce"] = 2 /\ Distance["take"] = 2
  /\ \A l \in {"head", "rest", "send", "delay", "backoff"} : Distance[l] = 1
  /\ \A l \in Label : Distance[l] \in 0..3
  BY DEF Distance, Label

LEMMA FailedReturns ==
  ASSUME NEW c \in Locals, NEW e \in Error, c.expired
  PROVE  Failed(c, e).pc = "done"
  BY AbandonType DEF Failed, MayReread, MayResubmit

\* No step of the call itself waits, retries or begins anew.
LEMMA StepEndsSoon ==
  ASSUME TypeOK, NEW q \in Caller, Step(q), call[q].expired
  PROVE  /\ call'[q].expired \/ call'[q].pc = "done"
         /\ Distance[call'[q].pc] < Distance[call[q].pc]
<1> DEFINE c == call[q]
           Sooner == /\ call'[q].expired \/ call'[q].pc = "done"
                     /\ Distance[call'[q].pc] < Distance[c.pc]
<1> c \in Locals /\ c.expired /\ call \in [Caller -> Locals] /\ Transient \subseteq Error
    /\ "permanent" \in Error
  BY DEF TypeOK, Transient, Error
<1>1. ASSUME NEW e \in Error, call' = [call EXCEPT ![q] = Failed(c, e)], c.pc # "done"
      PROVE  Sooner
  BY <1>1, FailedReturns, DistanceIs DEF Locals, Label
<1>2. ASSUME GetNonce(q)  PROVE Sooner
  BY <1>2, DistanceIs DEF GetNonce, TakeNonce, Goto, Locals
<1>3. ASSUME TakeHead(q)  PROVE Sooner
  <2>1. c.pc = "take"
    BY <1>3 DEF TakeHead
  <2>2. CASE nonce # NoNonce
    BY <1>3, <2>1, <2>2, DistanceIs DEF TakeHead, TakeNonce, Locals
  <2>3. CASE nonce = NoNonce
    BY <1>1, <1>3, <2>1, <2>3 DEF TakeHead, TakeNonce
  <2> QED BY <2>2, <2>3
<1>4. ASSUME Head(q)  PROVE Sooner
  BY <1>1, <1>4 DEF Head, Live
<1>5. ASSUME Rest(q)  PROVE Sooner
  BY <1>1, <1>5 DEF Rest, Transient
<1>6. ASSUME NoAnswer(q)  PROVE Sooner
  BY <1>1, <1>6 DEF NoAnswer
<1>7. ASSUME BadNonce(q) \/ ReadAnswered(q) \/ Accepted(q) \/ Rejected(q)  PROVE Sooner
  BY <1>7 DEF BadNonce, ReadAnswered, Accepted, Rejected, Live
<1>8. ASSUME Delay(q) \/ Backoff(q)  PROVE Sooner
  BY <1>8, InterruptedType, DistanceIs DEF Delay, Backoff
<1>9. ASSUME Pause(q)  PROVE Sooner
  <2>1. Done("failed").pc = "done"
    BY DEF Done, Called
  <2> QED BY <1>9, <2>1, DistanceIs DEF Pause, Goto, Locals
<1> QED BY <1>2, <1>3, <1>4, <1>5, <1>6, <1>7, <1>8, <1>9 DEF Step

\* A call moves only by its own steps; only its deadline changes `expired'.
LEMMA MovesAlone ==
  ASSUME TypeOK, [Next]_vars, NEW q \in Caller, ~Step(q)
  PROVE  call'[q].pc = call[q].pc /\ (call[q].expired => call'[q].expired)
<1> call \in [Caller -> Locals] /\ call[q] \in Locals
  BY DEF TypeOK
<1> DEFINE Still == call'[q].pc = call[q].pc /\ (call[q].expired => call'[q].expired)
<1>1. ASSUME NEW p \in Caller \ {q}, Step(p)  PROVE Still
  <2>1. call'[q] = call[q]
    <3>1. CASE GetNonce(p) \/ TakeHead(p)
      BY <3>1 DEF GetNonce, TakeHead, TakeNonce
    <3>2. CASE Head(p) \/ Rest(p) \/ BadNonce(p) \/ NoAnswer(p)
      BY <3>2 DEF Head, Rest, BadNonce, NoAnswer
    <3>3. CASE ReadAnswered(p) \/ Accepted(p) \/ Rejected(p)
      BY <3>3 DEF ReadAnswered, Accepted, Rejected
    <3>4. CASE Delay(p) \/ Pause(p) \/ Backoff(p)
      BY <3>4 DEF Delay, Pause, Backoff
    <3> QED BY <1>1, <3>1, <3>2, <3>3, <3>4 DEF Step
  <2> QED BY <2>1
<1>2. ASSUME NEW p \in Caller, Expire(p)  PROVE Still
  BY <1>2 DEF Expire, Locals
<1>3. ASSUME NEW p \in Caller, RetryTime(p)  PROVE Still
  BY <1>3 DEF RetryTime, Locals
<1>4. ASSUME NEW p \in Caller, CAAdvances(p) \/ DeliverLate(p)  PROVE Still
  BY <1>4 DEF CAAdvances, DeliverLate
<1>5. CASE UNCHANGED vars
  BY <1>5 DEF vars
<1> QED BY <1>1, <1>2, <1>3, <1>4, <1>5 DEF Next, Returned

\* Whatever a call is doing when its context ends, three steps later it has returned:
\* what CallReturns needs besides the fairness of those steps.
THEOREM ContextEndsCall == Spec => EndsSoon
<1>1. TypeOK /\ TypeOK' /\ [Next]_vars =>
        [\A q \in Caller : call[q].expired =>
            /\ call'[q].expired \/ call'[q].pc = "done"
            /\ Distance[call'[q].pc] <= Distance[call[q].pc]
            /\ Step(q) => Distance[call'[q].pc] < Distance[call[q].pc]]_vars
  <2> SUFFICES ASSUME TypeOK, TypeOK', [Next]_vars, NEW q \in Caller, call[q].expired
               PROVE  /\ call'[q].expired \/ call'[q].pc = "done"
                      /\ Distance[call'[q].pc] <= Distance[call[q].pc]
                      /\ Step(q) => Distance[call'[q].pc] < Distance[call[q].pc]
    OBVIOUS
  <2>1. Distance[call[q].pc] \in 0..3 /\ Distance[call'[q].pc] \in 0..3
    BY DistanceIs DEF TypeOK, Locals
  <2>2. CASE Step(q)
    <3>1. /\ call'[q].expired \/ call'[q].pc = "done"
          /\ Distance[call'[q].pc] < Distance[call[q].pc]
      BY <2>2, StepEndsSoon
    <3> QED BY <2>1, <3>1
  <2>3. CASE ~Step(q)
    BY <2>1, <2>3, MovesAlone
  <2> QED BY <2>2, <2>3
<1> QED BY <1>1, TypeCorrect, PTL DEF Spec, EndsSoon
=============================================================================
