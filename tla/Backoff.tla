------------------------------ MODULE Backoff -------------------------------
(***************************************************************************)
(* The delay before a new attempt: backoff (pkg/client/client.go) and the  *)
(* two copies of backoffDelay (internal/relay/relay.go and cmd/evt2sse),   *)
(* which fix base at 1 s and max at 30 s.  Integers stand for nanoseconds; *)
(* the random part is the set of its outcomes.                             *)
(***************************************************************************)
EXTENDS Integers

Least(a, b) == IF a < b THEN a ELSE b

\* The powers of two, for the formula the loop below is compared with.
Power2[n \in Nat] == IF n = 0 THEN 1 ELSE 2 * Power2[n - 1]

Doubled_OnceMore(attempt, base, max) ==
  LET d[i \in 0 .. attempt + 1] ==
        IF i = 0 THEN base
        ELSE IF d[i - 1] < max THEN 2 * d[i - 1] ELSE d[i - 1]
  IN  d[attempt + 1]

\* The loop that doubles until attempt turns are done or max is reached.
Doubled(attempt, base, max) ==
  LET d[i \in 0..attempt] ==
        IF i = 0 THEN base
        ELSE IF d[i - 1] < max THEN 2 * d[i - 1] ELSE d[i - 1]
  IN  d[attempt]

Capped(attempt, base, max) ==
  Least(Doubled(IF attempt < 0 THEN 0 ELSE attempt, base, max), max)

Jittered_Uncapped(d, max) ==
  LET jitter == d \div 5
  IN  {d - jitter + r : r \in 0 .. 2 * jitter}

\* d moved by at most a fifth, downwards or upwards, and capped again.
Jittered(d, max) ==
  LET jitter == d \div 5
  IN  {Least(d - jitter + r, max) : r \in 0 .. 2 * jitter}

Delays(attempt, base, max) == Jittered(Capped(attempt, base, max), max)
=============================================================================
