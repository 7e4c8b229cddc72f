------------------------------- MODULE Waits -------------------------------
(* Client with the delays of its waits. *)
EXTENDS Client, Delays

\* However a caller configures the policy, a wait before another attempt doubles with
\* every attempt up to the limit and no further, and jitter never takes more than half
\* of it: no product overflows into a negative delay, which would be no wait at all.
BackoffIsExponential ==
    \A q \in Caller : call[q].pc \in {"delay", "rest", "backoff"} => Deviations = {}
=============================================================================
