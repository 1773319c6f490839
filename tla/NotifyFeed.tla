----------------------------- MODULE NotifyFeed -----------------------------
(***************************************************************************)
(* What the relay and the goroutine of Start promise of the notifications  *)
(* of PostgreSQL, with nothing of how it is done: some of them are         *)
(* numbered, in one sequence, each at most once for a connection it came   *)
(* through.  A channel that was never unsubscribed has each numbered once  *)
(* and in the order of the commits; of one that was, neither is promised.  *)
(***************************************************************************)
EXTENDS Naturals, Sequences

CONSTANTS
  Chans,  \* the channels
  Conns   \* the connections a notification may come through

VARIABLES
  notified,  \* Seq(Chans): the channels of the notifications, as committed
  numbered,  \* Seq(Copies): in the order of their numbers
  disturbed  \* the channels that have been unsubscribed

vars == <<notified, numbered, disturbed>>

Copies == [chan : Chans, n : Nat, conn : Conns]

Init ==
  /\ notified = <<>>
  /\ numbered = <<>>
  /\ disturbed = {}

\* A notification is committed on channel ch.
Commit(ch) ==
  /\ notified' = Append(notified, ch)
  /\ UNCHANGED <<numbered, disturbed>>

\* Channel ch is unsubscribed.
Disturb(ch) ==
  /\ disturbed' = disturbed \cup {ch}
  /\ UNCHANGED <<notified, numbered>>

\* a has its number: may b be given a later one?
MayFollow(a, b) ==
  /\ a.conn = b.conn => a.n # b.n
  /\ a.chan = b.chan /\ b.chan \notin disturbed => a.n < b.n

\* What came of notification n, through conn, is given the next number.
Number(n, conn) ==
  LET copy == [chan |-> notified[n], n |-> n, conn |-> conn]
  IN  /\ \A i \in 1..Len(numbered) : MayFollow(numbered[i], copy)
      /\ numbered' = Append(numbered, copy)
      /\ UNCHANGED <<notified, disturbed>>

Next ==
  \/ \E ch \in Chans : Commit(ch) \/ Disturb(ch)
  \/ \E n \in 1..Len(notified), conn \in Conns : Number(n, conn)

Spec == Init /\ [][Next]_vars
=============================================================================
