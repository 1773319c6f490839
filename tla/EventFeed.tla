----------------------------- MODULE EventFeed -----------------------------
(***************************************************************************)
(* What the SSE side of evt2sse promises to a listener, with nothing of    *)
(* how it is done: the server numbers the events 1, 2, 3, ... and every    *)
(* connection receives some of them, each at most once and in the order of *)
(* their ids.  A connection may be resumed after an id; it then receives   *)
(* only later ids.  Nothing is promised about completeness.                *)
(***************************************************************************)
EXTENDS Naturals, Sequences

CONSTANT Conns

VARIABLES
  published,  \* how many events have been numbered
  floor,      \* [Conns -> Nat]: the id a connection was resumed after, or 0
  received    \* [Conns -> Seq(Nat)]: the ids a connection was sent

vars == <<published, floor, received>>

Init ==
  /\ published = 0
  /\ floor = [c \in Conns |-> 0]
  /\ received = [c \in Conns |-> <<>>]

\* One more event is numbered.
Publish ==
  /\ published' = published + 1
  /\ UNCHANGED <<floor, received>>

\* A connection asks for what follows id, before it was sent anything.
Resume(c, id) ==
  /\ received[c] = <<>>
  /\ id <= published
  /\ floor' = [floor EXCEPT ![c] = id]
  /\ UNCHANGED <<published, received>>

\* A connection is sent an event it has not been sent and that is later than
\* all it has been sent.
Receive(c, id) ==
  /\ floor[c] < id
  /\ id <= published
  /\ \A i \in 1..Len(received[c]) : received[c][i] < id
  /\ received' = [received EXCEPT ![c] = Append(@, id)]
  /\ UNCHANGED <<published, floor>>

Next ==
  \/ Publish
  \/ \E c \in Conns : \E id \in 1..published : Resume(c, id) \/ Receive(c, id)

Spec == Init /\ [][Next]_vars
=============================================================================
