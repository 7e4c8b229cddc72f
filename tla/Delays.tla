------------------------------- MODULE Delays -------------------------------
(***************************************************************************)
(* How long is waited between two attempts: RetryPolicy.Delay (acme/retry.go) *)
(* for the reads and submissions of Client and the attempts of Issuance.    *)
(***************************************************************************)
EXTENDS Integers

CONSTANTS
    Bound,       \* a Duration has the values -Bound .. Bound - 1 (2^63)
    Second,      \* time.Second
    MaxAttempt   \* bound: attempts Deviations looks at

ASSUME DelaysAssumption ==
    /\ Bound \in Nat /\ Second \in Nat \ {0} /\ MaxAttempt \in Nat
    /\ 30 * Second < Bound

Duration == -Bound..(Bound - 1)

\* What is left of n in a Duration.
Wrap(n) == ((n + Bound) % (2 * Bound)) - Bound

Lesser(m, n) == IF m <= n THEN m ELSE n

\* The fields of a RetryPolicy, zero meaning a default; `ceiling' is the limit.
InitialDelay(initial) == IF initial <= 0 THEN Second ELSE initial
MaxDelay(ceiling) == IF ceiling <= 0 THEN 30 * Second ELSE ceiling

\* Mutant: a delay below the limit is doubled.
DoubleUnchecked(delay, ceiling) == IF delay >= ceiling THEN ceiling ELSE Wrap(2 * delay)

Double(delay, ceiling) == IF delay > ceiling \div 2 THEN ceiling ELSE Wrap(2 * delay)

\* The delays after each failed attempt, before jitter.
Unjittered(initial, ceiling) ==
    LET top == MaxDelay(ceiling)
        delay[n \in Nat \ {0}] ==
            IF n = 1 THEN Lesser(InitialDelay(initial), top)
            ELSE IF delay[n - 1] < top THEN Double(delay[n - 1], top)
            ELSE delay[n - 1]
    IN  delay

\* What equal jitter makes of a delay.
Jittered(delay) == {delay \div 2 + r : r \in 0..(delay - delay \div 2)}
-----------------------------------------------------------------------------
\* A number doubled n times, without bounds.
Doubled(first) ==
    LET double[n \in Nat] == IF n = 0 THEN first ELSE 2 * double[n - 1] IN double

\* The policies and attempts whose delay is not the initial one doubled with every
\* attempt up to the limit, or of which jitter may take more than half.
Deviations ==
    {p \in [initial : Duration, ceiling : Duration, attempt : 1..MaxAttempt] :
        LET top == MaxDelay(p.ceiling)
            first == Lesser(InitialDelay(p.initial), top)
            delay == Unjittered(p.initial, p.ceiling)[p.attempt]
        IN  \/ delay # Lesser(Doubled(first)[p.attempt - 1], top)
            \/ \E d \in Jittered(delay) : d < delay \div 2 \/ d > delay}
=============================================================================
