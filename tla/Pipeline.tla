------------------------------ MODULE Pipeline ------------------------------
(***************************************************************************)
(* The way of a notification from PostgreSQL to its number: it travels on  *)
(* the connections that LISTEN on its channel, a listenLoop receives it,   *)
(* dispatch takes r.mu and puts it in the watcher's buffered channel       *)
(* without waiting for room (internal/relay/relay.go), and the goroutine   *)
(* of Start takes it out and has it numbered (internal/server/server.go).  *)
(*                                                                         *)
(* The loops, the connections and r.mu are those of Relay, whose steps are *)
(* taken over one by one: here each also says what becomes of the          *)
(* notifications.  Several loops, and several connections, may be at work  *)
(* on one channel.  From its number on, an event is in Server.             *)
(*                                                                         *)
(* Operators named X_Y are faulty variants of X that nothing here uses.    *)
(***************************************************************************)
EXTENDS Relay, Sequences, Functions

CONSTANTS
  Posts, Deletes,  \* the handlers of POST /api/channels and of DELETE
  WatcherCap,      \* capacity of a watcher's channel (64)
  MaxNotified,     \* bound of the model: notifications committed
  MaxTroubles      \* bound of the model: channels unsubscribed and
                   \* connections broken, together

ASSUME PipelineAssumption ==
  /\ Posts \subseteq Handlers /\ Deletes \subseteq Handlers
  /\ WatcherCap \in Nat \ {0}
  /\ MaxNotified \in Nat /\ MaxTroubles \in Nat

VARIABLES
  notified,  \* Seq(Chans): the channels of the notifications, as committed
  line,      \* [Gens -> Seq(Copies)]: on a connection, still to be received
  inhand,    \* [Gens -> Seq(Copies)]: received by a loop, not dispatched: 0 or 1
  start,     \* the goroutine of Start: "none", in its "select", or "ended"
  watcher,   \* Seq(Copies): its watcher's buffered channel
  ctxDone,   \* main has cancelled the context of Start
  origin,       \* history variable: origin[id] is what was numbered id
  lost,         \* history variable: ranks of which a copy was lost, or all were
  unsubscribed, \* history variable: the channels unsubscribed so far
  troubles      \* how often channels were unsubscribed and connections broken

wayVars   == <<notified, line, inhand, lost>>
startVars == <<start, watcher, ctxDone, origin>>
pastVars  == <<unsubscribed, troubles>>
pvars     == <<vars, wayVars, startVars, pastVars>>

\* A notification as one connection delivers it: its channel, its rank in the
\* order of the commits, the connection, and the loop that received it.
Copies == [chan : Chans, n : 1..MaxNotified, conn : Gens, loop : Gens \cup {None}]

Ranks(copies) == {copy.n : copy \in Range(copies)}

PTypeOK ==
  /\ notified \in Seq(Chans) /\ Len(notified) <= MaxNotified
  /\ line \in [Gens -> Seq(Copies)]
  /\ inhand \in [Gens -> Seq(Copies)]
  /\ \A g \in Gens : Len(inhand[g]) = IF loop[g] = "dispatch" THEN 1 ELSE 0
  /\ start \in {"none", "select", "ended"}
  /\ watcher \in Seq(Copies) /\ Len(watcher) <= WatcherCap
  /\ ctxDone \in BOOLEAN
  /\ origin \in Seq(Copies)
  /\ lost \subseteq 1..MaxNotified
  /\ unsubscribed \subseteq Chans
  /\ troubles \in 0..MaxTroubles

PInit ==
  /\ Init
  /\ notified = <<>>
  /\ line = [c \in Gens |-> <<>>]
  /\ inhand = [g \in Gens |-> <<>>]
  /\ start = "none"
  /\ watcher = <<>>
  /\ ctxDone = FALSE
  /\ origin = <<>>
  /\ lost = {}
  /\ unsubscribed = {}
  /\ troubles = 0

-----------------------------------------------------------------------------
(* PostgreSQL.                                                             *)

Listeners(ch) == {c \in Gens : conn[c] = "up" /\ chan[c] = ch}

\* A notification is committed on ch: every connection that LISTENs on it is
\* sent a copy.
Commit(ch) ==
  LET n == Len(notified) + 1
      copy(c) == [chan |-> ch, n |-> n, conn |-> c, loop |-> None]
  IN  /\ n <= MaxNotified
      /\ notified' = Append(notified, ch)
      /\ line' = [c \in Gens |-> IF c \in Listeners(ch)
                                 THEN Append(line[c], copy(c)) ELSE line[c]]
      /\ lost' = IF Listeners(ch) = {} THEN lost \cup {n} ELSE lost
      /\ UNCHANGED <<vars, inhand, startVars, pastVars>>

-----------------------------------------------------------------------------
(* The relay.                                                              *)

\* In a step of the relay that moves no notification: a connection that breaks
\* or is closed loses what it had not delivered.
LinesFollow ==
  LET gone == {c \in Gens : conn'[c] # "up"}
  IN  /\ line' = [c \in Gens |-> IF c \in gone THEN <<>> ELSE line[c]]
      /\ lost' = lost \cup UNION {Ranks(line[c]) : c \in gone}
      /\ UNCHANGED <<notified, inhand, startVars>>

\* WaitForNotification returns one; the loop names it after its own channel.
ReceiveCopy(g) ==
  LET c == reads[g]
  IN  /\ Receive(g)
      /\ line[c] # <<>>
      /\ line' = [line EXCEPT ![c] = Tail(@)]
      /\ inhand' = [inhand EXCEPT ![g] =
                      <<[Head(line[c]) EXCEPT !.chan = chan[g], !.loop = g]>>]
      /\ UNCHANGED <<notified, lost, startVars, pastVars>>

\* There is a watcher, and room in its channel.
WatcherTakes_OffByOne == start = "select" /\ Len(watcher) <= WatcherCap
WatcherTakes == start = "select" /\ Len(watcher) < WatcherCap

DispatchCopy_TwoWatchers(g) ==
  /\ Dispatch(g)
  /\ IF WatcherTakes
     THEN watcher' = watcher \o inhand[g] \o inhand[g] /\ UNCHANGED lost
     ELSE lost' = lost \cup Ranks(inhand[g]) /\ UNCHANGED watcher
  /\ inhand' = [inhand EXCEPT ![g] = <<>>]
  /\ UNCHANGED <<notified, line, start, ctxDone, origin, pastVars>>

\* dispatch, under r.mu: into the watcher's channel, or dropped.
DispatchCopy(g) ==
  /\ Dispatch(g)
  /\ IF WatcherTakes
     THEN watcher' = watcher \o inhand[g] /\ UNCHANGED lost
     ELSE lost' = lost \cup Ranks(inhand[g]) /\ UNCHANGED watcher
  /\ inhand' = [inhand EXCEPT ![g] = <<>>]
  /\ UNCHANGED <<notified, line, start, ctxDone, origin, pastVars>>

-----------------------------------------------------------------------------
(* main, and the goroutine of Start.                                       *)

\* r.Start has returned: a channel is subscribed.  Start calls Notifications,
\* which takes r.mu, then the go statement.
StartWatching ==
  /\ start = "none"
  /\ made > 0
  /\ mu = None
  /\ start' = "select"
  /\ UNCHANGED <<vars, wayVars, watcher, ctxDone, origin, pastVars>>

\* main cancels the context of Start.
CancelStart ==
  /\ start # "none"
  /\ ~ctxDone
  /\ ctxDone' = TRUE
  /\ UNCHANGED <<vars, wayVars, start, watcher, origin, pastVars>>

Number_Peeks ==
  /\ start = "select"
  /\ watcher # <<>>
  /\ origin' = Append(origin, Head(watcher))
  /\ UNCHANGED <<vars, wayVars, start, watcher, ctxDone, pastVars>>

\* select: a notification is received, and broadcast numbers it.
Number ==
  /\ start = "select"
  /\ watcher # <<>>
  /\ watcher' = Tail(watcher)
  /\ origin' = Append(origin, Head(watcher))
  /\ UNCHANGED <<vars, wayVars, start, ctxDone, pastVars>>

\* select: the context is done (Go picks either case when both are ready); the
\* deferred stop() takes the watcher out of r.watchers under r.mu and closes
\* it.  Waiting for r.mu, the goroutine cannot be told from one in its select
\* that does not run.
Stop ==
  /\ start = "select"
  /\ ctxDone
  /\ mu = None
  /\ start' = "ended"
  /\ lost' = lost \cup Ranks(watcher)
  /\ watcher' = <<>>
  /\ UNCHANGED <<vars, notified, line, inhand, ctxDone, origin, pastVars>>

-----------------------------------------------------------------------------
(* The steps of Relay that move no notification.  Readiness requests are   *)
(* left out: they touch nothing that is here.                              *)

\* The default channel is subscribed before Start, the others by requests,
\* which are served after it.
SubscribeCall(p, n) ==
  /\ start # "none" \/ made = 0
  /\ Subscribe(p, n)
  /\ LinesFollow
  /\ UNCHANGED pastVars

UnsubscribeCall(p, n) ==
  /\ start # "none"
  /\ troubles < MaxTroubles
  /\ Unsubscribe(p, n)
  /\ LinesFollow
  /\ unsubscribed' = unsubscribed \cup {n}
  /\ troubles' = troubles + 1

\* Deferred before the cancellation of the context, hence run after it.
CloseCall == ctxDone /\ Close /\ LinesFollow /\ UNCHANGED pastVars

CallMoves(p) == ProcMoves(p) /\ LinesFollow /\ UNCHANGED pastVars

LoopSteps(g) ==
  /\ Lookup(g) \/ Reconnect(g) \/ LoopMoves(g)
  /\ LinesFollow
  /\ UNCHANGED pastVars

DatabaseTurns ==
  /\ \E state \in {"up"} \cup Outages : DbTurns(state)
  /\ LinesFollow
  /\ UNCHANGED pastVars

ConnectionBreaks(g) ==
  /\ troubles < MaxTroubles
  /\ Break(g)
  /\ LinesFollow
  /\ troubles' = troubles + 1
  /\ UNCHANGED unsubscribed

PNext ==
  \/ \E ch \in Chans : Commit(ch)
  \/ \E p \in Posts, n \in Chans : SubscribeCall(p, n)
  \/ \E p \in Deletes, n \in Chans : UnsubscribeCall(p, n)
  \/ CloseCall
  \/ \E p \in Procs : CallMoves(p)
  \/ \E g \in Gens : \/ LoopSteps(g) \/ ReceiveCopy(g) \/ DispatchCopy(g)
                      \/ ConnectionBreaks(g)
  \/ DatabaseTurns
  \/ StartWatching \/ CancelStart \/ Number \/ Stop

PSpec == PInit /\ [][PNext]_pvars

-----------------------------------------------------------------------------
(* Properties.                                                             *)

\* Copies that must not overtake one another: of a channel that was never
\* unsubscribed, any two; of another, two that one loop received from one
\* connection.  Around an unsubscribe and a subscribe two loops may be at work
\* on a channel, each with a notification of its own in hand.
Ordered(a, b) ==
  /\ a.chan = b.chan
  /\ \/ a.chan \notin unsubscribed
     \/ a.conn = b.conn /\ a.loop = b.loop

\* Notifications are numbered in the order of their commits wherever that can
\* be promised, whatever subscribes, unsubscribes and reconnects cross.
ChannelOrder ==
  \A i, j \in 1..Len(origin) :
    i < j /\ Ordered(origin[i], origin[j]) => origin[i].n < origin[j].n

\* The places where there may be a copy: a stage of the way, whose, how far.
Places ==
  {<<"id", None, i>> : i \in 1..Len(origin)}
  \cup {<<"watcher", None, i>> : i \in 1..Len(watcher)}
  \cup UNION {{<<"hand", g, i>> : i \in 1..Len(inhand[g])}
               \cup {<<"line", g, i>> : i \in 1..Len(line[g])} : g \in Gens}

CopyAt(place) ==
  CASE place[1] = "id"      -> origin[place[3]]
    [] place[1] = "watcher" -> watcher[place[3]]
    [] place[1] = "hand"    -> inhand[place[2]][place[3]]
    [] place[1] = "line"    -> line[place[2]][place[3]]

\* Where copies of the notification of rank k are, under its own channel.
Whereabouts(k) ==
  {place \in Places : CopyAt(place).n = k /\ CopyAt(place).chan = notified[k]}

\* No notification vanishes: none is lost but to a connection that went before
\* it was received, a full or closed watcher, or a dispatch before Start has
\* its watcher.  A connection brings it to one place; and all together bring it
\* to one place or lose it, hence it is numbered once at most, on a channel
\* that was never unsubscribed.
NothingVanishes ==
  \A k \in 1..Len(notified) :
    /\ Whereabouts(k) # {} \/ k \in lost
    /\ \A x, y \in Whereabouts(k) :
         CopyAt(x).conn = CopyAt(y).conn \/ notified[k] \notin unsubscribed
           => x = y
    /\ notified[k] \notin unsubscribed /\ k \in lost => Whereabouts(k) = {}

\* Refinement: the numbers are given as NotifyFeed promises.
Numbered ==
  [i \in 1..Len(origin) |->
     [chan |-> origin[i].chan, n |-> origin[i].n, conn |-> origin[i].conn]]

Feed == INSTANCE NotifyFeed WITH
  Conns     <- Gens,
  numbered  <- Numbered,
  disturbed <- unsubscribed

ImplementsNotifyFeed == Feed!Spec
=============================================================================
