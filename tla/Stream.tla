------------------------------- MODULE Stream -------------------------------
(***************************************************************************)
(* pkg/client/sse.go: the goroutine of a Stream (loop and runOnce), the    *)
(* application that reads its channels and closes it, and, seen from       *)
(* there, a server that may be out of reach, cut the connection or start   *)
(* again with its numbering from 1.                                        *)
(*                                                                         *)
(* A frame is the pair of the life of the server that numbered it and its  *)
(* id.  The client knows only the id.  Frames with no event in them        *)
(* ("ready", "resume", heartbeats) change nothing in the client and are    *)
(* left out.                                                               *)
(*                                                                         *)
(* Operators named X_Y are faulty variants of X that nothing here uses:    *)
(* each shows what one of the properties would catch.                      *)
(***************************************************************************)
EXTENDS Integers, Sequences, Functions

CONSTANTS
  EventsCap,         \* capacity of s.events (64)
  ErrsCap,           \* capacity of s.errs (4)
  HistoryRetention,  \* of the server (256)
  PipeCap,           \* bound of the model: live frames on their way
  MaxID,             \* bound of the model: events of one life of the server
  MaxLives,          \* bound of the model: lives of the server
  MaxCuts            \* bound of the model: connections cut

ASSUME StreamAssumption ==
  /\ EventsCap \in Nat \ {0} /\ ErrsCap \in Nat \ {0}
  /\ HistoryRetention \in Nat \ {0} /\ PipeCap \in Nat \ {0}
  /\ MaxID \in Nat /\ MaxLives \in Nat \ {0} /\ MaxCuts \in Nat

VARIABLES
  pc,         \* where the goroutine stands
  err,        \* what runOnce returned: "eof", or another error
  lastID,     \* s.lastID
  hand,       \* the event being delivered, if any: <<>> or one frame
  received,   \* the frames whose events entered s.events, in that order
  buffered,   \* how many of them the application has not taken out
  errs,       \* length of s.errs
  reconnect,  \* cfg.reconnect
  ctxDone,    \* s.ctx is done: by Close, or by the caller's own context
  done,       \* s.done is closed
  conn,       \* the response body: "none", "open", "eof" or "failed"
  phase,      \* the handler of the connection in the server
  pipe,       \* the frames on their way to the client
  reachable,  \* a request would be answered with 200
  life,       \* the life of the server
  serverID,   \* its lastID
  cuts,       \* connections cut so far
  excused     \* history variable: ids of this life the server does not owe

streamVars == <<pc, err, lastID, hand, received, buffered, errs>>
appVars    == <<reconnect, ctxDone, done>>
connVars   == <<conn, phase, pipe>>
serverVars == <<reachable, life, serverID, cuts, excused>>
vars == <<streamVars, appVars, connVars, serverVars>>

Frames == (1..MaxLives) \X (1..MaxID)
StreamStates == {"dial", "read", "deliver", "return", "backoff", "ended"}

TypeOK ==
  /\ pc \in StreamStates
  /\ err \in {"eof", "error"}
  /\ lastID \in 0..MaxID
  /\ hand \in Seq(Frames) /\ Len(hand) = (IF pc = "deliver" THEN 1 ELSE 0)
  /\ received \in Seq(Frames)
  /\ buffered \in 0..EventsCap
  /\ errs \in 0..ErrsCap
  /\ reconnect \in BOOLEAN /\ ctxDone \in BOOLEAN /\ done \in BOOLEAN
  /\ conn \in {"none", "open", "eof", "failed"}
  /\ phase \in {"none", "replayed", "registered"}
  /\ pipe \in Seq(Frames)
  /\ reachable \in BOOLEAN
  /\ life \in 1..MaxLives
  /\ serverID \in 0..MaxID
  /\ cuts \in 0..MaxCuts
  /\ excused \subseteq 1..MaxID

\* Listen has started the goroutine; the server has been up for some time.
Init ==
  /\ pc = "dial" /\ err = "eof"
  /\ lastID = 0
  /\ hand = <<>>
  /\ received = <<>>
  /\ buffered = 0
  /\ errs = 0
  /\ reconnect \in BOOLEAN
  /\ ctxDone = FALSE /\ done = FALSE
  /\ conn = "none" /\ phase = "none" /\ pipe = <<>>
  /\ reachable \in BOOLEAN
  /\ life = 1
  /\ serverID \in 0..MaxID
  /\ cuts = 0
  /\ excused = {}

-----------------------------------------------------------------------------
(* runOnce.                                                                *)

Header_Omitted == 0

\* The Last-Event-ID it sends; 0 for none.
Header == lastID

\* What the server keeps, and what it writes first (Server's HistoryInv and
\* replayAfter).
Kept == {id \in 1..serverID : id > serverID - HistoryRetention}

Resumed(id) ==
  IF id \in Kept THEN [i \in 1..serverID - id |-> <<life, id + i>>] ELSE <<>>

\* The newest event of this life that the client has been given, if any.
Newest ==
  LET mine == {id \in 1..MaxID : <<life, id>> \in Range(received)}
  IN  IF mine = {} THEN 0 ELSE CHOOSE id \in mine : \A k \in mine : k <= id

\* The request is answered with 200.  From here the server owes the client
\* what followed the newest event it got, if the server still keeps that one.
Dial ==
  /\ pc = "dial"
  /\ reachable /\ ~ctxDone
  /\ pc' = "read"
  /\ conn' = "open" /\ phase' = "replayed"
  /\ pipe' = Resumed(Header)
  /\ excused' = IF Newest \in Kept THEN excused ELSE 1..serverID
  /\ UNCHANGED <<err, lastID, hand, received, buffered, errs, appVars,
                 reachable, life, serverID, cuts>>

\* runOnce returns, and closes the body if it has one.
Return(e) ==
  /\ pc' = "return"
  /\ err' = e
  /\ hand' = <<>>
  /\ conn' = "none" /\ phase' = "none" /\ pipe' = <<>>
  /\ UNCHANGED <<lastID, received, buffered, errs, appVars, serverVars>>

\* No answer, an answer that is not 200, or a context already done.
DialFails ==
  /\ pc = "dial"
  /\ ~reachable \/ ctxDone
  /\ Return("error")

Read_KeepsFirst ==
  /\ pc = "read"
  /\ pipe # <<>>
  /\ hand' = <<Head(pipe)>>
  /\ lastID' = IF lastID = 0 THEN Head(pipe)[2] ELSE lastID
  /\ pipe' = Tail(pipe)
  /\ pc' = "deliver"
  /\ UNCHANGED <<err, received, buffered, errs, appVars, conn, phase,
                 serverVars>>

\* readSSEEvent returns an event; its id is remembered if it is above lastID.
Read ==
  /\ pc = "read"
  /\ pipe # <<>>
  /\ hand' = <<Head(pipe)>>
  /\ lastID' = IF Head(pipe)[2] > lastID THEN Head(pipe)[2] ELSE lastID
  /\ pipe' = Tail(pipe)
  /\ pc' = "deliver"
  /\ UNCHANGED <<err, received, buffered, errs, appVars, conn, phase,
                 serverVars>>

\* It returns an error: the end of the body, at the end of a frame; a broken
\* connection, with what was still on its way; or the context.
ReadFails ==
  /\ pc = "read"
  /\ \/ conn = "eof" /\ pipe = <<>> /\ Return("eof")
     \/ (conn = "failed" \/ ctxDone) /\ Return("error")

Deliver_Overfills ==
  /\ pc = "deliver"
  /\ buffered <= EventsCap
  /\ received' = received \o hand
  /\ buffered' = buffered + 1
  /\ hand' = <<>>
  /\ pc' = "read"
  /\ UNCHANGED <<err, lastID, errs, appVars, connVars, serverVars>>

\* select: the event enters s.events.
Deliver ==
  /\ pc = "deliver"
  /\ buffered < EventsCap
  /\ received' = received \o hand
  /\ buffered' = buffered + 1
  /\ hand' = <<>>
  /\ pc' = "read"
  /\ UNCHANGED <<err, lastID, errs, appVars, connVars, serverVars>>

DeliverStops_Never == FALSE

\* select: the context is done, or the stream closed.
DeliverStops ==
  /\ pc = "deliver"
  /\ \/ ctxDone /\ Return("error")
     \/ done /\ Return("eof")

-----------------------------------------------------------------------------
(* loop.                                                                   *)

AfterRun_Waits ==
  /\ pc = "return"
  /\ IF ctxDone \/ done
     THEN pc' = "ended" /\ UNCHANGED errs
     ELSE /\ err = "error" => errs < ErrsCap
          /\ errs' = IF err = "error" THEN errs + 1 ELSE errs
          /\ pc' = IF reconnect THEN "backoff" ELSE "ended"
  /\ UNCHANGED <<err, lastID, hand, received, buffered, appVars, connVars,
                 serverVars>>

\* From the return of runOnce to the back-off, or to the end of the stream.
\* An error other than the end of the body is offered to s.errs.
AfterRun ==
  /\ pc = "return"
  /\ IF ctxDone \/ done
     THEN pc' = "ended" /\ UNCHANGED errs
     ELSE /\ errs' = IF err = "error" /\ errs < ErrsCap THEN errs + 1 ELSE errs
          /\ pc' = IF reconnect THEN "backoff" ELSE "ended"
  /\ UNCHANGED <<err, lastID, hand, received, buffered, appVars, connVars,
                 serverVars>>

\* The select of the back-off, any of whose ready cases may be taken.
Backoff ==
  /\ pc = "backoff"
  /\ \/ pc' = "dial"
     \/ (ctxDone \/ done) /\ pc' = "ended"
  /\ UNCHANGED <<err, lastID, hand, received, buffered, errs, appVars,
                 connVars, serverVars>>

-----------------------------------------------------------------------------
(* The application.                                                        *)

TakeEvent ==
  /\ buffered > 0
  /\ buffered' = buffered - 1
  /\ UNCHANGED <<pc, err, lastID, hand, received, errs, appVars, connVars,
                 serverVars>>

TakeError ==
  /\ errs > 0
  /\ errs' = errs - 1
  /\ UNCHANGED <<pc, err, lastID, hand, received, buffered, appVars, connVars,
                 serverVars>>

\* The first half of Close, or the cancellation of the caller's context.
Cancel ==
  /\ ~ctxDone
  /\ ctxDone' = TRUE
  /\ UNCHANGED <<streamVars, reconnect, done, connVars, serverVars>>

\* The second half of Close.
CloseDone ==
  /\ ctxDone /\ ~done
  /\ done' = TRUE
  /\ UNCHANGED <<streamVars, reconnect, ctxDone, connVars, serverVars>>

-----------------------------------------------------------------------------
(* The server and the network.                                             *)

\* The handler, its replay taken, registers its channel.
Register ==
  /\ phase = "replayed"
  /\ phase' = "registered"
  /\ UNCHANGED <<streamVars, appVars, conn, pipe, serverVars>>

\* An event is broadcast.  A registered connection gets it unless its channel
\* is full; one between its replay and its registration never does.
Broadcast ==
  /\ serverID < MaxID
  /\ serverID' = serverID + 1
  /\ \/ /\ phase = "registered" /\ Len(pipe) < PipeCap
        /\ pipe' = Append(pipe, <<life, serverID + 1>>)
        /\ UNCHANGED excused
     \/ /\ phase \in {"registered", "replayed"}
        /\ excused' = excused \cup {serverID + 1}
        /\ UNCHANGED pipe
     \/ phase = "none" /\ UNCHANGED <<pipe, excused>>
  /\ UNCHANGED <<streamVars, appVars, conn, phase, reachable, life, cuts>>

\* The connection ends: closed by the server or by a proxy, broken, or cut by
\* the timeout of the HTTP client, which covers the body.
Cut ==
  /\ conn = "open"
  /\ cuts < MaxCuts
  /\ cuts' = cuts + 1
  /\ conn' \in {"eof", "failed"}
  /\ phase' = "none"
  /\ UNCHANGED <<streamVars, appVars, pipe, reachable, life, serverID, excused>>

ReachableTurns ==
  /\ reachable' = ~reachable
  /\ UNCHANGED <<streamVars, appVars, connVars, life, serverID, cuts, excused>>

\* The server starts again: nothing is left of its numbering.
Restart ==
  /\ life < MaxLives
  /\ life' = life + 1
  /\ serverID' = 0
  /\ excused' = {}
  /\ conn' = IF conn = "open" THEN "failed" ELSE conn
  /\ phase' = "none"
  /\ UNCHANGED <<streamVars, appVars, pipe, reachable, cuts>>

-----------------------------------------------------------------------------

StreamMoves ==
  \/ Dial \/ DialFails \/ Read \/ ReadFails \/ Deliver \/ DeliverStops
  \/ AfterRun \/ Backoff

Next ==
  \/ StreamMoves
  \/ TakeEvent \/ TakeError \/ Cancel \/ CloseDone
  \/ Register \/ Broadcast \/ Cut \/ ReachableTurns \/ Restart

Spec == Init /\ [][Next]_vars

\* Go runs the goroutine when it can run, and time.After fires.  Nothing is
\* assumed of the application, the network and the server.
FairSpec == Spec /\ WF_vars(StreamMoves)

-----------------------------------------------------------------------------
(* Properties.                                                             *)

Earlier(f, g) == f[1] < g[1] \/ (f[1] = g[1] /\ f[2] < g[2])

\* The application gets no event twice and none after a later one, whatever
\* is cut, resumed and restarted: s.lastID is never behind what was delivered.
DeliveredInOrder ==
  \A i, j \in 1..Len(received) : i < j => Earlier(received[i], received[j])

\* A connected client has, or is about to get, every event the server owes
\* it.  It does not owe those its full channel refused, those it broadcast
\* between the replay and the registration, and those before a connection
\* whose last event it no longer kept.
Complete ==
  phase = "registered" =>
    \A id \in 1..serverID :
      \/ <<life, id>> \in Range(received \o hand \o pipe)
      \/ id \in excused

\* As long as the server has not been restarted, a stream is complete.
FirstLifeComplete == life = 1 => Complete

\* A stream that is closed, or whose context is done, ends, even if nobody
\* reads its channels and whatever the network does.
StreamEnds == (ctxDone \/ done) ~> (pc = "ended")

\* A stream with reconnection, once the server stays reachable, is connected
\* again and again, even if nobody reads its errors.
Reconnects ==
  <>[]reachable =>
    []<>(conn = "open" \/ pc \in {"deliver", "ended"})
=============================================================================
