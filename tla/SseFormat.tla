----------------------------- MODULE SseFormat ------------------------------
(***************************************************************************)
(* The text of an event stream: the frames internal/server/server.go       *)
(* writes, and readSSEEvent (pkg/client/sse.go), which reads them back.    *)
(*                                                                         *)
(* A body is a sequence of lines, and a line its field and its value: for  *)
(* "data" of a broadcast the id of the event in the JSON, for "event" a    *)
(* type other than "message".  A connection may be cut inside a line, of   *)
(* which readSSEEvent then sees the beginning.                             *)
(***************************************************************************)
EXTENDS Integers, Sequences, SequencesExt

Json == 0    \* the JSON of a frame that is not a broadcast
Message == 0 \* the type of an event without an "event" line
Torn == -1   \* JSON that was cut, and does not parse

Line(field, value) == [f |-> field, v |-> value]
Blank == Line("blank", 0)

\* The frames of handleListen and broadcast.
Ready        == <<Line("retry", 1000), Line("event", 1), Line("data", Json), Blank>>
Resume       == <<Line("event", 2), Line("data", Json), Blank>>
Ping         == <<Line("comment", 0), Blank>>
Broadcast(n) == <<Line("id", n), Line("data", n), Blank>>

\* What may be left of a line cut before its end of line: all the rest of it,
\* not even the whole name of its field, or a beginning of its value (of an id,
\* another number).
Beginnings(line) ==
  {line, Line("unknown", 0)} \cup
  CASE line.f = "id"   -> {Line("id", n) : n \in 0 .. line.v - 1}
    [] line.f = "data" -> {Line("data", Torn)}
    [] OTHER -> {}

\* The local variables of readSSEEvent before the first line.
NoEvent == [type |-> Message, id |-> 0, data |-> Json, gotData |-> FALSE,
            done |-> FALSE, used |-> 0]

\* One turn of its loop on a line.  (No frame has two data lines; the join of
\* several is left out.)  A comment or an unknown field changes nothing.
Take(ev, line) ==
  IF ev.done THEN ev
  ELSE LET e == [ev EXCEPT !.used = @ + 1]
       IN  CASE line.f = "blank" -> [e EXCEPT !.done = ev.gotData]
             [] line.f = "event" -> [e EXCEPT !.type = line.v]
             [] line.f = "id"    -> [e EXCEPT !.id = line.v]
             [] line.f = "data"  -> [e EXCEPT !.data = line.v, !.gotData = TRUE]
             [] OTHER -> e

\* The end of the body after a whole line reads as an empty line, whatever the
\* error; after a cut line only a clean end (io.EOF) ends the event.
AtEnd_AnyError(ev, cut, clean) == [ev EXCEPT !.done = ev.gotData]
AtEnd(ev, cut, clean) == [ev EXCEPT !.done = ev.gotData /\ (cut => clean)]

\* readSSEEvent on the rest of a body; done is FALSE if it returns an error.
ReadSSEEvent(lines, cut, clean) ==
  LET ev == FoldLeft(Take, NoEvent, lines)
  IN  IF ev.done THEN ev ELSE AtEnd(ev, cut, clean)
=============================================================================
