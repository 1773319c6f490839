------------------------------- MODULE Server -------------------------------
(***************************************************************************)
(* internal/server/server.go: one broadcasting goroutine (Start,           *)
(* broadcast) and one handler goroutine per GET /api/listen request        *)
(* (handleListen), sharing clients, lastID and history under s.mu.         *)
(*                                                                         *)
(* A critical section of s.mu is one step; what a goroutine does between   *)
(* two critical sections, or between two channel operations, is another.   *)
(* A frame is represented by its id: within the life of a process the id   *)
(* determines the event.  The module covers one such life: lastID starts   *)
(* at 0, and a Last-Event-ID above lastID is one of an earlier life.       *)
(*                                                                         *)
(* Operators named X_Y are faulty variants of X that nothing here uses:    *)
(* each shows what one of the properties would catch.                      *)
(***************************************************************************)
EXTENDS Integers, Sequences, FiniteSets, Functions

CONSTANTS
  Conns,             \* the requests on GET /api/listen, each served once
  HistoryRetention,  \* historyRetention (256): frames kept for a resume
  QueueCap,          \* capacity of a client's channel (64)
  MaxID              \* bound of the model: broadcasts in the process's life

ASSUME ServerAssumption ==
  /\ HistoryRetention \in Nat \ {0}
  /\ QueueCap \in Nat \ {0}
  /\ MaxID \in Nat

VARIABLES
  lastID,       \* s.lastID
  history,      \* s.history, oldest first
  clients,      \* the connections in s.clients
  closed,       \* the connections whose channel was closed
  queue,        \* [Conns -> Seq(Nat)]: the buffered channel of a connection
  bpc,          \* where the broadcasting goroutine stands
  snapshot,     \* broadcast's local clients still to be offered the frame
  pc,           \* [Conns -> HandlerStates]: where a handler stands
  lastEventID,  \* [Conns -> Nat]: the id parsed from the header, 0 if none
  resume,       \* [Conns -> ResumeKinds]: the replayResult of a handler
  replay,       \* [Conns -> Seq(Nat)]: its frames still to be written
  announced,    \* [Conns -> ...]: what the "resume" event said, if written
  sent,         \* [Conns -> Seq(Nat)]: ids whose Write succeeded
  gone,         \* the connections whose peer went away
  noticed,      \* those of them whose request context net/http cancelled
  alive,        \* FALSE once a panic outside a handler killed the process
  seenTo,       \* history variable: lastID when a handler took its replay
  regAt,        \* history variable: lastID when a handler registered
  dropped       \* history variable: ids a full channel refused

bcastVars   == <<lastID, history, bpc, snapshot>>
handlerVars == <<pc, lastEventID, resume, replay, announced, seenTo, regAt>>
peerVars    == <<gone, noticed>>
vars == <<bcastVars, handlerVars, peerVars, clients, closed, queue, sent,
          alive, dropped>>

HandlerStates == {"new", "replay", "register", "greet", "resend", "stream",
                  "leave", "close", "done"}
\* The zero replayResult, "nothing in history", "not in history", and frames.
ResumeKinds == {"none", "empty", "gap", "frames"}
BroadcastStates == {"select", "sending", "stopped"}

\* What strconv makes of a Last-Event-ID header: -1 stands for every header
\* parseLastEventID rejects (too long, not a decimal number, negative).
Headers == -1 .. MaxID + 1

TypeOK ==
  /\ lastID \in 0..MaxID
  /\ history \in Seq(1..MaxID) /\ Len(history) <= HistoryRetention
  /\ clients \subseteq Conns
  /\ closed \subseteq Conns
  /\ queue \in [Conns -> Seq(1..MaxID)]
  /\ \A c \in Conns : Len(queue[c]) <= QueueCap
  /\ bpc \in BroadcastStates
  /\ snapshot \subseteq Conns
  /\ pc \in [Conns -> HandlerStates]
  /\ lastEventID \in [Conns -> 0..MaxID + 1]
  /\ resume \in [Conns -> ResumeKinds]
  /\ replay \in [Conns -> Seq(1..MaxID)]
  /\ announced \in [Conns -> {"nothing", "contiguous", "gap"}]
  /\ sent \in [Conns -> Seq(1..MaxID)]
  /\ gone \subseteq Conns
  /\ noticed \subseteq gone
  /\ alive \in BOOLEAN
  /\ seenTo \in [Conns -> 0..MaxID]
  /\ regAt \in [Conns -> 0..MaxID]
  /\ dropped \in [Conns -> SUBSET (1..MaxID)]

Init ==
  /\ lastID = 0
  /\ history = <<>>
  /\ clients = {}
  /\ closed = {}
  /\ queue = [c \in Conns |-> <<>>]
  /\ bpc = "select"
  /\ snapshot = {}
  /\ pc = [c \in Conns |-> "new"]
  /\ lastEventID = [c \in Conns |-> 0]
  /\ resume = [c \in Conns |-> "none"]
  /\ replay = [c \in Conns |-> <<>>]
  /\ announced = [c \in Conns |-> "nothing"]
  /\ sent = [c \in Conns |-> <<>>]
  /\ gone = {}
  /\ noticed = {}
  /\ alive = TRUE
  /\ seenTo = [c \in Conns |-> 0]
  /\ regAt = [c \in Conns |-> 0]
  /\ dropped = [c \in Conns |-> {}]

-----------------------------------------------------------------------------
(* The broadcasting goroutine.                                             *)

PushHistory(id) ==
  LET all == Append(history, id)
  IN  IF Len(all) > HistoryRetention
      THEN SubSeq(all, Len(all) - HistoryRetention + 1, Len(all))
      ELSE all

\* broadcast up to the unlock: number the notification, copy the set of
\* channels, keep the frame for later resumes.
Broadcast ==
  /\ bpc = "select"
  /\ lastID < MaxID
  /\ lastID' = lastID + 1
  /\ history' = PushHistory(lastID + 1)
  /\ snapshot' = clients
  /\ bpc' = "sending"
  /\ UNCHANGED <<handlerVars, peerVars, clients, closed, queue, sent, alive,
                 dropped>>

\* The two cases of the select of broadcast's loop: the frame is queued, or
\* dropped when the channel is full.  The goroutine that sends is the only
\* writer of lastID, so lastID is the id of the frame it holds.
Room_OffByOne(c) == Len(queue[c]) <= QueueCap
Room(c) == Len(queue[c]) < QueueCap

Enqueue(c) ==
  /\ Room(c)
  /\ queue' = [queue EXCEPT ![c] = Append(@, lastID)]
  /\ UNCHANGED dropped

Drop_Waits(c) == FALSE
Drop(c) ==
  /\ ~Room(c)
  /\ dropped' = [dropped EXCEPT ![c] = @ \cup {lastID}]
  /\ UNCHANGED queue

\* One turn of that loop, outside the lock.  The channel may have been closed
\* since the copy was taken: sending on it panics, in a goroutine nothing
\* recovers.
Offer(c) ==
  /\ bpc = "sending"
  /\ c \in snapshot
  /\ snapshot' = snapshot \ {c}
  /\ IF c \in closed
     THEN alive' = FALSE /\ UNCHANGED <<queue, dropped>>
     ELSE (Enqueue(c) \/ Drop(c)) /\ UNCHANGED alive
  /\ UNCHANGED <<lastID, history, bpc, handlerVars, peerVars, clients, closed,
                 sent>>

\* broadcast returns and the goroutine of Start selects again.
EndBroadcast ==
  /\ bpc = "sending"
  /\ snapshot = {}
  /\ bpc' = "select"
  /\ UNCHANGED <<lastID, history, snapshot, handlerVars, peerVars, clients,
                 closed, queue, sent, alive, dropped>>

\* main cancels the context of Start: the goroutine returns, for good.
StopBroadcasting ==
  /\ bpc = "select"
  /\ bpc' = "stopped"
  /\ UNCHANGED <<lastID, history, snapshot, handlerVars, peerVars, clients,
                 closed, queue, sent, alive, dropped>>

-----------------------------------------------------------------------------
(* The handler of one GET /api/listen request.                             *)

ParseLastEventID(h) == IF h < 0 THEN 0 ELSE h

Goto(c, state) == pc' = [pc EXCEPT ![c] = state]

Connect_RegistersFirst(c, h) ==
  /\ pc[c] = "new"
  /\ lastEventID' = [lastEventID EXCEPT ![c] = ParseLastEventID(h)]
  /\ clients' = clients \cup {c}
  /\ Goto(c, IF ParseLastEventID(h) > 0 THEN "replay" ELSE "register")
  /\ UNCHANGED <<bcastVars, resume, replay, announced, seenTo, regAt,
                 peerVars, closed, queue, sent, alive, dropped>>

\* The request arrives; only a positive Last-Event-ID asks for a replay.
Connect(c, h) ==
  /\ pc[c] = "new"
  /\ lastEventID' = [lastEventID EXCEPT ![c] = ParseLastEventID(h)]
  /\ Goto(c, IF ParseLastEventID(h) > 0 THEN "replay" ELSE "register")
  /\ UNCHANGED <<bcastVars, resume, replay, announced, seenTo, regAt,
                 peerVars, clients, closed, queue, sent, alive, dropped>>

FramesAfter_Skips(i)    == SubSeq(history, i + 2, Len(history))
FramesAfter_Inclusive(i) == SubSeq(history, i, Len(history))
FramesAfter(i) == SubSeq(history, i + 1, Len(history))

\* replayAfter: the frames kept after the one numbered id, if it is kept.
ReplayAfter(id) ==
  LET at == {i \in 1..Len(history) : history[i] = id}
  IN  IF history = <<>> THEN [kind |-> "empty", frames |-> <<>>]
      ELSE IF at = {} THEN [kind |-> "gap", frames |-> <<>>]
      ELSE [kind |-> "frames", frames |-> FramesAfter(CHOOSE i \in at : TRUE)]

\* First critical section of a resuming handler.
Replay(c) ==
  /\ pc[c] = "replay"
  /\ LET result == ReplayAfter(lastEventID[c])
     IN  /\ resume' = [resume EXCEPT ![c] = result.kind]
         /\ replay' = [replay EXCEPT ![c] = result.frames]
  /\ seenTo' = [seenTo EXCEPT ![c] = lastID]
  /\ Goto(c, "register")
  /\ UNCHANGED <<bcastVars, lastEventID, announced, regAt, peerVars, clients,
                 closed, queue, sent, alive, dropped>>

\* Critical section that puts the channel in s.clients.
Register(c) ==
  /\ pc[c] = "register"
  /\ clients' = clients \cup {c}
  /\ regAt' = [regAt EXCEPT ![c] = lastID]
  /\ Goto(c, "greet")
  /\ UNCHANGED <<bcastVars, lastEventID, resume, replay, announced, seenTo,
                 peerVars, closed, queue, sent, alive, dropped>>

\* The headers, the "ready" event and, when the replay has a non-nil slice of
\* frames, the "resume" event.  Errors of these writes are not looked at.
Greet(c) ==
  /\ pc[c] = "greet"
  /\ IF resume[c] = "frames"
     THEN /\ announced' = [announced EXCEPT ![c] = "contiguous"]
          /\ Goto(c, "resend")
     ELSE /\ Goto(c, "stream")
          /\ UNCHANGED announced
  /\ UNCHANGED <<bcastVars, lastEventID, resume, replay, seenTo, regAt,
                 peerVars, clients, closed, queue, sent, alive, dropped>>

\* The loop that writes the replayed frames, one at a time.
Resend(c) ==
  /\ pc[c] = "resend"
  /\ replay[c] # <<>>
  /\ sent' = [sent EXCEPT ![c] = Append(@, Head(replay[c]))]
  /\ replay' = [replay EXCEPT ![c] = Tail(@)]
  /\ UNCHANGED <<bcastVars, pc, lastEventID, resume, announced, seenTo, regAt,
                 peerVars, clients, closed, queue, alive, dropped>>

ResendDone(c) ==
  /\ pc[c] = "resend"
  /\ replay[c] = <<>>
  /\ Goto(c, "stream")
  /\ UNCHANGED <<bcastVars, lastEventID, resume, replay, announced, seenTo,
                 regAt, peerVars, clients, closed, queue, sent, alive, dropped>>

\* A write of a replayed frame fails: the handler returns.
ResendFails(c) ==
  /\ pc[c] = "resend"
  /\ replay[c] # <<>>
  /\ c \in gone
  /\ Goto(c, "leave")
  /\ UNCHANGED <<bcastVars, lastEventID, resume, replay, announced, seenTo,
                 regAt, peerVars, clients, closed, queue, sent, alive, dropped>>

Deliver_Loses(c) ==
  /\ pc[c] = "stream"
  /\ queue[c] # <<>>
  /\ queue' = [queue EXCEPT ![c] = Tail(@)]
  /\ UNCHANGED <<bcastVars, handlerVars, peerVars, clients, closed, sent,
                 alive, dropped>>

\* select: a frame is received from the channel and written.
Deliver(c) ==
  /\ pc[c] = "stream"
  /\ queue[c] # <<>>
  /\ queue' = [queue EXCEPT ![c] = Tail(@)]
  /\ sent' = [sent EXCEPT ![c] = Append(@, Head(queue[c]))]
  /\ UNCHANGED <<bcastVars, handlerVars, peerVars, clients, closed, alive,
                 dropped>>

\* select: a frame is received from the channel and its write fails.
DeliverFails(c) ==
  /\ pc[c] = "stream"
  /\ queue[c] # <<>>
  /\ c \in gone
  /\ queue' = [queue EXCEPT ![c] = Tail(@)]
  /\ Goto(c, "leave")
  /\ UNCHANGED <<bcastVars, lastEventID, resume, replay, announced, seenTo,
                 regAt, peerVars, clients, closed, sent, alive, dropped>>

HeartbeatFails_Ignored(c) == FALSE

\* select: the heartbeat fires and its write fails.  (A heartbeat whose write
\* succeeds changes nothing the model keeps.)
HeartbeatFails(c) ==
  /\ pc[c] = "stream"
  /\ c \in gone
  /\ Goto(c, "leave")
  /\ UNCHANGED <<bcastVars, lastEventID, resume, replay, announced, seenTo,
                 regAt, peerVars, clients, closed, queue, sent, alive, dropped>>

\* select: the request context was cancelled.
ContextDone(c) ==
  /\ pc[c] = "stream"
  /\ c \in noticed
  /\ Goto(c, "leave")
  /\ UNCHANGED <<bcastVars, lastEventID, resume, replay, announced, seenTo,
                 regAt, peerVars, clients, closed, queue, sent, alive, dropped>>

\* The deferred function of the handler: delete under the lock ...
Unregister(c) ==
  /\ pc[c] = "leave"
  /\ clients' = clients \ {c}
  /\ Goto(c, "close")
  /\ UNCHANGED <<bcastVars, lastEventID, resume, replay, announced, seenTo,
                 regAt, peerVars, closed, queue, sent, alive, dropped>>

\* ... then close the channel, the lock released.
CloseQueue(c) ==
  /\ pc[c] = "close"
  /\ closed' = closed \cup {c}
  /\ Goto(c, "done")
  /\ UNCHANGED <<bcastVars, lastEventID, resume, replay, announced, seenTo,
                 regAt, peerVars, clients, queue, sent, alive, dropped>>

-----------------------------------------------------------------------------
(* The peers, and net/http below the handlers.                             *)

\* A peer goes away: closes, is cut off, or times out.
PeerLeaves(c) ==
  /\ pc[c] \notin {"new", "done"}
  /\ gone' = gone \cup {c}
  /\ UNCHANGED <<bcastVars, handlerVars, noticed, clients, closed, queue, sent,
                 alive, dropped>>

\* net/http notices it and cancels the request context.  A silent cut is never
\* noticed this way.
Notice(c) ==
  /\ c \in gone
  /\ pc[c] # "done"
  /\ noticed' = noticed \cup {c}
  /\ UNCHANGED <<bcastVars, handlerVars, gone, clients, closed, queue, sent,
                 alive, dropped>>

-----------------------------------------------------------------------------

Broadcasting == alive /\ ((\E c \in Conns : Offer(c)) \/ EndBroadcast)

\* Steps of a handler that wait for nothing.
HandlerMoves(c) ==
  alive /\ (\/ Replay(c) \/ Register(c) \/ Greet(c) \/ ResendDone(c)
            \/ Unregister(c) \/ CloseQueue(c))

\* Its writes of a frame, which last as long as the peer does not read, those
\* that fail, and the end of the request's context.
Writes(c)     == alive /\ (Resend(c) \/ Deliver(c))
WritesFail(c) == alive /\ (ResendFails(c) \/ DeliverFails(c) \/ HeartbeatFails(c))
SeesDone(c)   == alive /\ ContextDone(c)

Environment ==
  /\ alive
  /\ \/ Broadcast
     \/ StopBroadcasting
     \/ \E c \in Conns : \/ \E h \in Headers : Connect(c, h)
                         \/ PeerLeaves(c)
                         \/ Notice(c)

Next ==
  \/ Environment
  \/ Broadcasting
  \/ \E c \in Conns : \/ HandlerMoves(c)
                      \/ Writes(c)
                      \/ WritesFail(c)
                      \/ SeesDone(c)

Spec == Init /\ [][Next]_vars

\* The Go scheduler runs every goroutine that can run.  A write to a lost peer
\* ends by failing, and the ticker that makes the handler try one fires again
\* and again: a select takes one of its ready cases at random, so none is put
\* off for ever.  Nothing is assumed of the peers, not even that they read.
FairSpec ==
  /\ Spec
  /\ WF_vars(Broadcasting)
  /\ \A c \in Conns : WF_vars(HandlerMoves(c)) /\ WF_vars(WritesFail(c))

-----------------------------------------------------------------------------
(* Properties.                                                             *)

\* The ids of the part of the stream of c that is past the client map: sent,
\* still to be replayed, waiting in the channel, or held by broadcast.
Accounted(c) ==
  UNION {Range(sent[c]), Range(replay[c]), Range(queue[c]), dropped[c],
         IF c \in snapshot THEN {lastID} ELSE {}}

\* The registered connections whose handler has met no failing write.
Serving == {c \in clients : pc[c] # "leave"}

\* The id a connection's stream starts after: Last-Event-ID when the server
\* found it in its history, 0 otherwise.
Floor(c) == IF resume[c] = "frames" THEN lastEventID[c] ELSE 0

Increasing(s) == \A i, j \in 1..Len(s) : i < j => s[i] < s[j]

\* Each connection is sent an event at most once, in the order of the ids, and
\* nothing at or before the event it resumed after, whatever was broadcast
\* between the replay, the registration and the writes of the handler.
InOrderOnce ==
  \A c \in Conns :
    /\ Increasing(sent[c] \o replay[c] \o queue[c])
    /\ \A id \in Range(sent[c]) : Floor(c) < id

\* A registered connection misses an event only if its channel was full or if
\* the event was broadcast between the replay and the registration of its
\* handler: every other event after the one it resumed after, and every event
\* since its registration, was sent or is on its way.
LossOnlyInWindow ==
  \A c \in Serving :
    /\ regAt[c] + 1 .. lastID \subseteq Accounted(c)
    /\ resume[c] = "frames" =>
         lastEventID[c] + 1 .. seenTo[c] \subseteq Accounted(c)

\* A connection that was told its resume is contiguous misses no event since
\* its Last-Event-ID, full channels aside.
ResumeComplete ==
  \A c \in Serving :
    announced[c] = "contiguous" =>
      lastEventID[c] + 1 .. lastID \subseteq Accounted(c)

\* A client that leaves never takes the process down.
ClientsCannotKill == alive

\* A broadcast comes to its end whatever the peers do: a peer that never reads,
\* its handler stuck in a write and its channel full, delays nobody.
SlowClientsDoNotBlock ==
  (bpc = "sending") ~> (bpc # "sending" \/ ~alive)

\* The handler of a peer that went away ends, its channel out of the client
\* map and closed, even if net/http never noticed the peer's departure.
LostPeersAreReaped ==
  \A c \in Conns :
    (c \in gone) ~> ((pc[c] = "done" /\ c \notin clients) \/ ~alive)

\* A frame that entered the channel of a connection is written to it, if its
\* peer goes on reading.
QueuedIsSent ==
  \A c \in Conns : WF_vars(Writes(c)) =>
    \A id \in 1..MaxID :
      (id \in Range(queue[c])) ~>
        (id \in Range(sent[c]) \/ c \in gone \/ ~alive)

\* Refinement: the server implements the feed.
Feed == INSTANCE EventFeed WITH
          published <- lastID,
          floor     <- [c \in Conns |-> Floor(c)],
          received  <- sent

ImplementsFeed == Feed!Spec
=============================================================================
