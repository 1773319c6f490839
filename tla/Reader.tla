------------------------------- MODULE Reader -------------------------------
(***************************************************************************)
(* The stream of pkg/client/sse.go on the text of its connections: runOnce *)
(* with readSSEEvent, lastID and the back-off of loop.  Stream models the  *)
(* same goroutine with its channels and Close, a frame at a time; here     *)
(* Events() always has room, and a connection may be cut anywhere, also    *)
(* inside a line, and end cleanly (io.EOF) or not.  A proxy that delimits  *)
(* the body by closing makes any cut a clean end.                          *)
(*                                                                         *)
(* Operators named X_Y are faulty variants of X that nothing here uses.    *)
(***************************************************************************)
EXTENDS SseFormat, Backoff, FiniteSets

CONSTANTS
  Recons,            \* pairs of minRecon and maxRecon the options may set
  HistoryRetention,  \* how many events the server keeps for a resume
  MaxID,             \* bound of the model: events broadcast
  MaxConns           \* bound of the model: connections

ASSUME ReaderAssumption ==
  /\ Recons \subseteq [min : Nat \ {0}, max : Nat \ {0}]
  /\ HistoryRetention \in Nat \ {0}
  /\ MaxID \in Nat /\ MaxConns \in Nat

VARIABLES
  recon,      \* the client's minRecon and maxRecon
  state,      \* "dial", "read" or "wait" (for the timer of the back-off)
  lastID,     \* s.lastID
  attempt,    \* loop's counter
  delivered,  \* runOnce's variable: an event was delivered
  delay,      \* the delay computed last
  rest,       \* the lines of the body still to be read
  ending,     \* how it ends: [cut, clean], cut if inside its last line
  events,     \* what was delivered: the ids
  head,       \* events the server has broadcast
  tornEOF,    \* history variable: events whose data a clean end cut
  missed,     \* history variable: events after lastID that the last connection
              \* does not carry, and those lastID has passed that way
  quiet,      \* history variable: connections since the last event delivered
  conns       \* connections so far

vars == <<recon, state, lastID, attempt, delivered, delay, rest, ending, events, head,
          tornEOF, missed, quiet, conns>>

Endings == [cut : BOOLEAN, clean : BOOLEAN]

TypeOK ==
  /\ recon \in Recons
  /\ state \in {"dial", "read", "wait"}
  /\ lastID \in 0..MaxID
  /\ attempt \in 0..MaxConns
  /\ delivered \in BOOLEAN
  /\ delay \in 0..recon.max
  /\ Len(rest) <= 6 + 4 * MaxID
  /\ ending \in Endings
  /\ events \in Seq(1..MaxID)
  /\ head \in 0..MaxID
  /\ tornEOF \subseteq 1..MaxID /\ missed \subseteq 1..MaxID
  /\ quiet \in 0..MaxConns
  /\ conns \in 0..MaxConns

Init ==
  /\ recon \in Recons
  /\ state = "dial"
  /\ lastID = 0 /\ attempt = 0 /\ delivered = FALSE /\ delay = 0
  /\ rest = <<>>
  /\ ending = [cut |-> FALSE, clean |-> TRUE]
  /\ events = <<>>
  /\ head = 0
  /\ tornEOF = {} /\ missed = {}
  /\ quiet = 0 /\ conns = 0

-----------------------------------------------------------------------------

\* replayAfter finds lastID in the history.  If not (nothing was read, or the
\* history has moved on), it returns no frames and handleListen writes none.
Resumes == lastID > 0 /\ lastID \in head - HistoryRetention + 1 .. head

\* The frames of the events after one number and up to another that are among ids.
Frames(ids, from, to) ==
  FlattenSeq([i \in 1 .. to - from |-> IF from + i \in ids THEN Broadcast(from + i)
                                                          ELSE <<>>])

\* The events a connection carries when it is sent those of got live: of the
\* ones broadcast while it lasts, those that came neither between the copy of
\* the history and the registration nor when the channel was full.
Carried(got) == got \cup (IF Resumes THEN lastID + 1 .. head ELSE {})

\* All a connection would carry: what handleListen writes first, the events
\* replayed, then those of got up to h, a heartbeat somewhere after the replay.
Bodies(h, got) ==
  {Ready \o (IF Resumes THEN Resume \o Frames(Carried(got), lastID, head) ELSE <<>>)
         \o Frames(got, head, p) \o Ping \o Frames(got, p, h) : p \in head..h}

\* http.Do succeeds: a body, of which the first k lines arrive, and perhaps a
\* part of the next (of any but the empty lines).
Dial ==
  /\ state = "dial"
  /\ conns < MaxConns
  /\ \E h \in head..MaxID : \E got \in SUBSET (head + 1 .. h) :
     \E body \in Bodies(h, got) : \E k \in 0..Len(body) : \E clean \in BOOLEAN :
       /\ head' = h
       /\ missed' = {id \in missed : id <= lastID} \cup ((lastID + 1 .. h) \ Carried(got))
       /\ \/ /\ rest' = SubSeq(body, 1, k)
             /\ ending' = [cut |-> FALSE, clean |-> clean]
             /\ UNCHANGED tornEOF
          \/ /\ k < Len(body) /\ body[k + 1] # Blank
             /\ \E part \in Beginnings(body[k + 1]) :
                  /\ rest' = Append(SubSeq(body, 1, k), part)
                  /\ tornEOF' = IF clean /\ part = Line("data", Torn)
                                THEN tornEOF \cup ({body[k + 1].v} \ {Json})
                                ELSE tornEOF
             /\ ending' = [cut |-> TRUE, clean |-> clean]
  /\ state' = "read"
  /\ delivered' = FALSE
  /\ quiet' = quiet + 1 /\ conns' = conns + 1
  /\ UNCHANGED <<recon, lastID, attempt, delay, events>>

\* The line of loop that counts: how many attempts have brought nothing.
Counted_Never(some) == attempt + 1
Counted(some) == IF some THEN 0 ELSE attempt + 1

\* runOnce returns: loop counts, computes the delay and waits.
Return(some) ==
  /\ attempt' = Counted(some)
  /\ delay' \in Delays(Counted(some) - 1, recon.min, recon.max)
  /\ state' = "wait"

\* http.Do fails, or the status is not 200.
DialFails ==
  /\ state = "dial"
  /\ conns < MaxConns
  /\ quiet' = quiet + 1 /\ conns' = conns + 1
  /\ Return(FALSE)
  /\ UNCHANGED <<recon, lastID, delivered, rest, ending, events, head, tornEOF,
                 missed>>

Event == ReadSSEEvent(rest, ending.cut, ending.clean)

Advanced_Always(id) == id
Advanced(id) == IF id > lastID THEN id ELSE lastID

\* readSSEEvent returns an event: lastID moves, and an event of type "message"
\* whose JSON parses is delivered.
Read ==
  /\ state = "read"
  /\ Event.done
  /\ lastID' = Advanced(Event.id)
  /\ IF Event.type = Message /\ Event.data # Torn
     THEN events' = Append(events, Event.data) /\ delivered' = TRUE /\ quiet' = 0
     ELSE UNCHANGED <<events, delivered, quiet>>
  /\ rest' = SubSeq(rest, Event.used + 1, Len(rest))
  /\ ending' = IF Event.used = Len(rest) THEN [ending EXCEPT !.cut = FALSE] ELSE ending
  /\ UNCHANGED <<recon, state, attempt, delay, head, tornEOF, missed, conns>>

\* readSSEEvent returns an error, and runOnce with it.
ReadFails ==
  /\ state = "read"
  /\ ~Event.done
  /\ Return(delivered)
  /\ rest' = <<>>
  /\ UNCHANGED <<recon, lastID, delivered, ending, events, head, tornEOF, missed,
                 quiet, conns>>

\* The timer of the back-off.
Timer ==
  /\ state = "wait"
  /\ state' = "dial"
  /\ UNCHANGED <<recon, lastID, attempt, delivered, delay, rest, ending, events, head,
                 tornEOF, missed, quiet, conns>>

Next == Dial \/ DialFails \/ Read \/ ReadFails \/ Timer

Spec == Init /\ [][Next]_vars

-----------------------------------------------------------------------------
(* Properties.                                                             *)

Heard == {events[i] : i \in 1..Len(events)}

\* What was delivered are events that were broadcast, in order and once each,
\* wherever the connections were cut and whatever else the frames carried; and
\* lastID has passed an event that was not delivered only if a clean end cut it
\* inside its data, or if the connection on which lastID passed it did not carry
\* it: nothing that the server writes is skipped on the way.
ReadBack ==
  /\ \A i, j \in 1..Len(events) : i < j => events[i] < events[j]
  /\ \A id \in Heard : id <= lastID
  /\ \A id \in 1..lastID : id \in Heard \cup tornEOF \cup missed

\* The delay is that of the doubling formula for the number of connections
\* since an event was last delivered, within a fifth, and never above the
\* maximum nor zero: an unreachable server is not hammered, and a stream that
\* works comes back at once.
DelayFits ==
  state = "wait" =>
    LET ideal == Least(recon.min * Power2[IF quiet = 0 THEN 0 ELSE quiet - 1], recon.max)
    IN  /\ 4 * ideal <= 5 * delay /\ 5 * delay <= 6 * ideal
        /\ 0 < delay /\ delay <= recon.max
=============================================================================
