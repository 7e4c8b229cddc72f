---------------------------- MODULE Finalization ----------------------------
(***************************************************************************)
(* How Client and Issuance fit together.  A call of FinalizeAndWait that     *)
(* Client takes apart, request by request, is the worker of Issuance at its *)
(* label "finalize": whatever the call, the CA and the network do to its    *)
(* order is a step of that worker or of that CA, or nothing Issuance sees.  *)
(***************************************************************************)
EXTENDS Client

CONSTANTS
    Call,   \* one of the calls of FinalizeAndWait
    Read,   \* the order's status the worker has seen before it
    Domains \* the names the order covers

ASSUME FinalizationAssumption ==
    /\ Call \in Finalizer
    /\ Read \in {"pending", "ready", "processing", "valid", "invalid"}
    /\ Domains \in STRING

\* History: whether the CA has accepted the call's CSR, which its order no longer
\* says once it has become invalid.
VARIABLE accepted

finalVars == <<vars, accepted>>

FinalInit == Init /\ accepted = (order[Call] = "processing")

FinalNext ==
    /\ Next
    /\ accepted' = (accepted \/ order'[Call] \in {"processing", "valid"})

FinalSpec == FinalInit /\ [][FinalNext]_finalVars

FairFinalSpec == FinalSpec /\ Fairness
-----------------------------------------------------------------------------
(* The worker of the only issuance, 1, whose order is the only one, 1. *)

Returns == call[Call].pc = "done"
Succeeds == Returns /\ call[Call].result = "valid"

At == IF Succeeds THEN "download" ELSE IF Returns THEN "returned" ELSE "finalize"
Knows == IF Succeeds THEN "valid" ELSE Read

\* Whether the error is worth another attempt of the issuance is not the call's
\* business: Issuance allows both, see its StepFails.
ReturnedError == IF ~Returns \/ Succeeds THEN "nil"
                 ELSE IF call[Call].result = "refused" THEN "permanent" ELSE "transient"

\* The order as Issuance has it: key 1 was accepted, or is still on its way.
CAOrder == [status |-> order[Call], names |-> Domains, authz |-> "valid", answered |-> TRUE,
            csr |-> IF accepted THEN 1 ELSE 0, late |-> IF late[Call] = "sent" THEN 1 ELSE 0]

Submission == [cert |-> "certificate", status |-> "running", key |-> 1, order |-> 1,
               attempts |-> 1, confirmed |-> FALSE]

Worker == INSTANCE IssuanceInv WITH
    Cert <- {"certificate"}, Names <- [c \in {"certificate"} |-> Domains],
    MaxIssuance <- 1, MaxOrder <- 1, MaxAttempts <- 1, Solver <- "http-01",
    Request <- {}, Target <- [c \in {} |-> "certificate"],
    StoreMayFail <- FALSE, LateRequests <- TRUE,
    row <- [i \in 1..1 |-> Submission],
    certificate <- [c \in {"certificate"} |-> [status |-> "pending", key |-> 0, pem |-> 0]],
    record <- [o \in 1..1 |-> [issuance |-> 1, status |-> Read]],
    pc <- [i \in 1..1 |-> At],
    mem <- [i \in 1..1 |-> Submission],
    seen <- [i \in 1..1 |-> Knows],
    err <- [i \in 1..1 |-> ReturnedError],
    canceled <- [i \in 1..1 |-> FALSE],
    cleanups <- [i \in 1..1 |-> FALSE],
    served <- {},
    order <- [o \in 1..1 |-> CAOrder],
    service <- "up",
    starting <- [q \in {} |-> Submission]

\* A step the worker and its CA do not notice; most steps of the calls are.
Hidden == UNCHANGED <<At, Knows, ReturnedError, CAOrder>>

\* A call starts where a worker of Issuance may be, and does only what that worker
\* may do while it finalizes: it submits the CSR while the order is ready and before
\* it has returned, returns success only with a valid order, and what it gave up on
\* reaches the CA as a late submission or not at all.
FinalizesAsPromised == Worker!IInv /\ [][Hidden \/ Worker!Next]_(Worker!vars)
=============================================================================
