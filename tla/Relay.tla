------------------------------- MODULE Relay --------------------------------
(***************************************************************************)
(* internal/relay/relay.go: the channels the relay LISTENs on.  One        *)
(* goroutine per connection (listenLoop), the goroutines of the HTTP       *)
(* handlers that subscribe, unsubscribe and ask for readiness, and the     *)
(* main goroutine that closes the relay, all sharing subs under r.mu,      *)
(* which SubscribeChannel and reconnectChannel hold while they connect.    *)
(*                                                                         *)
(* A connection, the context made with it and the listenLoop started on    *)
(* that context are born together and are given one number, a generation.  *)
(* A *sub is named by the generation it was created with; reconnectChannel *)
(* changes its fields in place, which is what cur records.                 *)
(*                                                                         *)
(* Operators named X_Y are faulty variants of X that nothing here uses:    *)
(* each shows what one of the properties would catch.                      *)
(***************************************************************************)
EXTENDS Integers, FiniteSets

CONSTANTS
  Chans,      \* the channel names in use
  Handlers,   \* goroutines of HTTP handlers
  Main,       \* the main goroutine, which closes the relay
  Outages,    \* the states of the database besides "up": "down", "hang"
  MaxGen,     \* bound of the model: connections ever opened
  MaxSubs,    \* bound of the model: of these, by SubscribeChannel
  MaxBreaks   \* bound of the model: connections that break by themselves

Gens  == 1..MaxGen
Procs == Handlers \cup {Main}
None  == 0     \* no generation, no *sub, nobody

ASSUME RelayAssumption ==
  /\ Main \notin Handlers
  /\ Procs \cap (Gens \cup {None}) = {}
  /\ Outages \subseteq {"down", "hang"}
  /\ MaxGen \in Nat /\ MaxSubs \in Nat /\ MaxBreaks \in Nat

\* Where a listenLoop stands; "born" once its go statement has run.
LoopStates == {"none", "born", "wait", "waiting", "dispatch", "backoff",
               "reconnect", "connecting", "closeold", "ended"}
ProcStates == {"idle", "connecting", "teardown", "healthy", "ping"}

VARIABLES
  mu,         \* the holder of r.mu across steps, or None
  closed,     \* r.closed
  subs,       \* [Chans -> Gens or None]: r.subs
  cur,        \* [Gens -> Gens or None]: generation of the fields of a *sub
  chan,       \* [Gens -> Chans or None]: the name a generation LISTENs on
  conn,       \* [Gens -> state of its connection]
  cancelled,  \* the generations whose context is cancelled
  loop,       \* [Gens -> LoopStates]: its listenLoop
  held,       \* [Gens -> Gens or None]: the *sub a loop holds in s
  reads,      \* [Gens -> Gens or None]: the connection a loop waits on
  old, heir,  \* [Gens -> Gens or None]: in reconnectChannel, the generation
              \* to close and the one whose loop is to start
  proc,       \* [Procs -> ProcStates]
  arg,        \* [Procs -> Chans or None]: the channel being subscribed
  toClose,    \* [Procs -> SUBSET Gens]: *subs taken out of r.subs to close
  db,         \* the database: "up", "down" or "hang"
  made, opened, broken  \* how many generations, of them by SubscribeChannel,
                        \* and connections broken so far

relayVars == <<closed, subs, cur, chan, conn, cancelled>>
loopVars  == <<loop, held, reads, old, heir>>
procVars  == <<proc, arg, toClose>>
countVars == <<made, opened, broken>>
vars == <<mu, relayVars, loopVars, procVars, db, countVars>>

TypeOK ==
  /\ mu \in {None} \cup Gens \cup Procs
  /\ closed \in BOOLEAN
  /\ subs \in [Chans -> Gens \cup {None}]
  /\ cur \in [Gens -> Gens \cup {None}]
  /\ chan \in [Gens -> Chans \cup {None}]
  /\ conn \in [Gens -> {"none", "up", "broken", "closed"}]
  /\ cancelled \subseteq Gens
  /\ loop \in [Gens -> LoopStates]
  /\ held \in [Gens -> Gens \cup {None}]
  /\ reads \in [Gens -> Gens \cup {None}]
  /\ old \in [Gens -> Gens \cup {None}]
  /\ heir \in [Gens -> Gens \cup {None}]
  /\ proc \in [Procs -> ProcStates]
  /\ arg \in [Procs -> Chans \cup {None}]
  /\ toClose \in [Procs -> SUBSET Gens]
  /\ db \in {"up"} \cup Outages
  /\ made \in 0..MaxGen /\ opened \in 0..MaxSubs /\ broken \in 0..MaxBreaks

\* Start has opened the pool and subscribes to nothing yet: its call of
\* SubscribeChannel is one of those the handlers make.
Init ==
  /\ mu = None
  /\ closed = FALSE
  /\ subs = [n \in Chans |-> None]
  /\ cur = [g \in Gens |-> None]
  /\ chan = [g \in Gens |-> None]
  /\ conn = [g \in Gens |-> "none"]
  /\ cancelled = {}
  /\ loop = [g \in Gens |-> "none"]
  /\ held = [g \in Gens |-> None]
  /\ reads = [g \in Gens |-> None]
  /\ old = [g \in Gens |-> None]
  /\ heir = [g \in Gens |-> None]
  /\ proc = [p \in Procs |-> "idle"]
  /\ arg = [p \in Procs |-> None]
  /\ toClose = [p \in Procs |-> {}]
  /\ db = "up"
  /\ made = 0 /\ opened = 0 /\ broken = 0

\* The connection of generation g has a goroutine in WaitForNotification.
Busy(g) == \E l \in Gens : loop[l] = "waiting" /\ reads[l] = g

-----------------------------------------------------------------------------
(* SubscribeChannel.                                                       *)

Subscribe_AfterClose(p, n) ==
  /\ p \in Handlers
  /\ proc[p] = "idle"
  /\ mu = None
  /\ subs[n] = None
  /\ opened < MaxSubs
  /\ mu' = p
  /\ proc' = [proc EXCEPT ![p] = "connecting"]
  /\ arg' = [arg EXCEPT ![p] = n]
  /\ UNCHANGED <<relayVars, loopVars, toClose, db, countVars>>

Subscribe_Twice(p, n) ==
  /\ p \in Handlers
  /\ proc[p] = "idle"
  /\ mu = None
  /\ ~closed
  /\ opened < MaxSubs
  /\ mu' = p
  /\ proc' = [proc EXCEPT ![p] = "connecting"]
  /\ arg' = [arg EXCEPT ![p] = n]
  /\ UNCHANGED <<relayVars, loopVars, toClose, db, countVars>>

\* It takes r.mu and goes on to connect; closed, or already subscribed, it
\* returns nil and changes nothing.
Subscribe(p, n) ==
  /\ p \in Handlers
  /\ proc[p] = "idle"
  /\ mu = None
  /\ ~closed
  /\ subs[n] = None
  /\ opened < MaxSubs
  /\ mu' = p
  /\ proc' = [proc EXCEPT ![p] = "connecting"]
  /\ arg' = [arg EXCEPT ![p] = n]
  /\ UNCHANGED <<relayVars, loopVars, toClose, db, countVars>>

\* Connect and LISTEN succeed: generation made + 1 is born, its *sub entered,
\* its loop started, r.mu released.
SubscribeDone(p) ==
  /\ proc[p] = "connecting"
  /\ db = "up"
  /\ made < MaxGen
  /\ LET g == made + 1
     IN  /\ made' = g
         /\ conn' = [conn EXCEPT ![g] = "up"]
         /\ chan' = [chan EXCEPT ![g] = arg[p]]
         /\ cur' = [cur EXCEPT ![g] = g]
         /\ subs' = [subs EXCEPT ![arg[p]] = g]
         /\ loop' = [loop EXCEPT ![g] = "born"]
  /\ opened' = opened + 1
  /\ mu' = None
  /\ proc' = [proc EXCEPT ![p] = "idle"]
  /\ arg' = [arg EXCEPT ![p] = None]
  /\ UNCHANGED <<closed, cancelled, held, reads, old, heir, toClose,
                 db, broken>>

SubscribeFails_KeepsLock(p) ==
  /\ proc[p] = "connecting"
  /\ db = "down"
  /\ proc' = [proc EXCEPT ![p] = "idle"]
  /\ arg' = [arg EXCEPT ![p] = None]
  /\ UNCHANGED <<mu, relayVars, loopVars, toClose, db, countVars>>

SubscribeFails(p) ==
  /\ proc[p] = "connecting"
  /\ db = "down"
  /\ mu' = None
  /\ proc' = [proc EXCEPT ![p] = "idle"]
  /\ arg' = [arg EXCEPT ![p] = None]
  /\ UNCHANGED <<relayVars, loopVars, toClose, db, countVars>>

-----------------------------------------------------------------------------
(* UnsubscribeChannel and Close: both take *subs out of the map under r.mu,*)
(* then cancel and close them with the lock released.                      *)

Unsubscribe_Unknown(p, n) ==
  /\ p \in Handlers
  /\ proc[p] = "idle"
  /\ mu = None
  /\ subs' = [subs EXCEPT ![n] = None]
  /\ toClose' = [toClose EXCEPT ![p] = {subs[n]}]
  /\ proc' = [proc EXCEPT ![p] = "teardown"]
  /\ UNCHANGED <<mu, closed, cur, chan, conn, cancelled, loopVars, arg, db,
                 countVars>>

Unsubscribe(p, n) ==
  /\ p \in Handlers
  /\ proc[p] = "idle"
  /\ mu = None
  /\ subs[n] # None
  /\ subs' = [subs EXCEPT ![n] = None]
  /\ toClose' = [toClose EXCEPT ![p] = {subs[n]}]
  /\ proc' = [proc EXCEPT ![p] = "teardown"]
  /\ UNCHANGED <<mu, closed, cur, chan, conn, cancelled, loopVars, arg, db,
                 countVars>>

Close_Unlocked ==
  /\ ~closed
  /\ closed' = TRUE
  /\ subs' = [n \in Chans |-> None]
  /\ toClose' = [toClose EXCEPT ![Main] = {subs[n] : n \in Chans} \ {None}]
  /\ proc' = [proc EXCEPT ![Main] = "teardown"]
  /\ UNCHANGED <<mu, cur, chan, conn, cancelled, loopVars, arg, db, countVars>>

Close ==
  /\ ~closed
  /\ mu = None
  /\ closed' = TRUE
  /\ subs' = [n \in Chans |-> None]
  /\ toClose' = [toClose EXCEPT ![Main] = {subs[n] : n \in Chans} \ {None}]
  /\ proc' = [proc EXCEPT ![Main] = "teardown"]
  /\ UNCHANGED <<mu, cur, chan, conn, cancelled, loopVars, arg, db, countVars>>

\* s.cancel(), one *sub after the other
Cancel(p, o) ==
  /\ o \in toClose[p]
  /\ \A q \in toClose[p] : cur[q] \notin cancelled
  /\ cancelled' = cancelled \cup {cur[o]}
  /\ UNCHANGED <<mu, closed, subs, cur, chan, conn, loopVars, procVars, db,
                 countVars>>

\* s.conn.Close()
CloseConn(p, o) ==
  /\ o \in toClose[p]
  /\ cur[o] \in cancelled
  /\ conn' = [conn EXCEPT ![cur[o]] = "closed"]
  /\ toClose' = [toClose EXCEPT ![p] = @ \ {o}]
  /\ UNCHANGED <<mu, closed, subs, cur, chan, cancelled, loopVars, proc, arg,
                 db, countVars>>

TeardownDone(p) ==
  /\ proc[p] = "teardown"
  /\ toClose[p] = {}
  /\ proc' = [proc EXCEPT ![p] = "idle"]
  /\ UNCHANGED <<mu, relayVars, loopVars, arg, toClose, db, countVars>>

-----------------------------------------------------------------------------
(* Healthy: r.mu, then a ping that its own timeout bounds.                 *)

AskHealthy(p) ==
  /\ p \in Handlers
  /\ proc[p] = "idle"
  /\ proc' = [proc EXCEPT ![p] = "healthy"]
  /\ UNCHANGED <<mu, relayVars, loopVars, arg, toClose, db, countVars>>

ReadPool(p) ==
  /\ proc[p] = "healthy"
  /\ mu = None
  /\ proc' = [proc EXCEPT ![p] = "ping"]
  /\ UNCHANGED <<mu, relayVars, loopVars, arg, toClose, db, countVars>>

Answer(p) ==
  /\ proc[p] = "ping"
  /\ proc' = [proc EXCEPT ![p] = "idle"]
  /\ UNCHANGED <<mu, relayVars, loopVars, arg, toClose, db, countVars>>

-----------------------------------------------------------------------------
(* listenLoop, of generation g.                                            *)

GoLoop(g, state) == loop' = [loop EXCEPT ![g] = state]

\* The loop returns.
End(g) ==
  /\ GoLoop(g, "ended")
  /\ held' = [held EXCEPT ![g] = None]
  /\ reads' = [reads EXCEPT ![g] = None]

\* s := r.sub(name)
Lookup(g) ==
  /\ loop[g] = "born"
  /\ mu = None
  /\ IF subs[chan[g]] = None
     THEN End(g)
     ELSE /\ held' = [held EXCEPT ![g] = subs[chan[g]]]
          /\ GoLoop(g, "wait")
          /\ UNCHANGED reads
  /\ UNCHANGED <<mu, relayVars, old, heir, procVars, db, countVars>>

WaitError_GivesUp(g) == End(g)

\* An error of WaitForNotification: the loop returns if its own context is
\* cancelled, whatever the error, and backs off otherwise.
WaitError(g) ==
  IF g \in cancelled
  THEN End(g)
  ELSE /\ GoLoop(g, "backoff")
       /\ held' = [held EXCEPT ![g] = None]
       /\ reads' = [reads EXCEPT ![g] = None]

\* s.conn.WaitForNotification(ctx) begins: s.conn is read with no lock.  The
\* connection refuses a second reader, and a cancelled context at once.
Wait(g) ==
  /\ loop[g] = "wait"
  /\ LET c == cur[held[g]]
     IN  IF g \in cancelled \/ conn[c] = "closed" \/ Busy(c)
         THEN WaitError(g)
         ELSE /\ reads' = [reads EXCEPT ![g] = c]
              /\ GoLoop(g, "waiting")
              /\ UNCHANGED held
  /\ UNCHANGED <<mu, relayVars, old, heir, procVars, db, countVars>>

\* A notification arrives.
Receive(g) ==
  /\ loop[g] = "waiting"
  /\ conn[reads[g]] = "up"
  /\ GoLoop(g, "dispatch")
  /\ held' = [held EXCEPT ![g] = None]
  /\ reads' = [reads EXCEPT ![g] = None]
  /\ UNCHANGED <<mu, relayVars, old, heir, procVars, db, countVars>>

\* The wait ends with an error: cancelled, closed under it, or broken.
WaitFails(g) ==
  /\ loop[g] = "waiting"
  /\ g \in cancelled \/ conn[reads[g]] # "up"
  /\ WaitError(g)
  /\ UNCHANGED <<mu, relayVars, old, heir, procVars, db, countVars>>

\* dispatch takes r.mu and puts the notification in the watchers' channels.
Dispatch(g) ==
  /\ loop[g] = "dispatch"
  /\ mu = None
  /\ GoLoop(g, "born")
  /\ UNCHANGED <<mu, relayVars, held, reads, old, heir, procVars, db, countVars>>

\* The select of the back-off.  When the timer has fired and the context is
\* cancelled as well, Go picks either case.
Timer(g) ==
  /\ loop[g] = "backoff"
  /\ GoLoop(g, "reconnect")
  /\ UNCHANGED <<mu, relayVars, held, reads, old, heir, procVars, db, countVars>>

BackoffDone(g) ==
  /\ loop[g] = "backoff"
  /\ g \in cancelled
  /\ End(g)
  /\ UNCHANGED <<mu, relayVars, old, heir, procVars, db, countVars>>

-----------------------------------------------------------------------------
(* reconnectChannel, called by the loop of generation g.                   *)

\* It takes r.mu; with the channel gone it returns nil and the loop returns.
Reconnect(g) ==
  /\ loop[g] = "reconnect"
  /\ mu = None
  /\ IF subs[chan[g]] = None
     THEN End(g) /\ UNCHANGED mu
     ELSE /\ mu' = g
          /\ GoLoop(g, "connecting")
          /\ UNCHANGED <<held, reads>>
  /\ UNCHANGED <<relayVars, old, heir, procVars, db, countVars>>

ReconnectFails_GivesUp(g) ==
  /\ loop[g] = "connecting"
  /\ db = "down"
  /\ mu' = None
  /\ End(g)
  /\ UNCHANGED <<relayVars, old, heir, procVars, db, countVars>>

ReconnectFails_KeepsLock(g) ==
  /\ loop[g] = "connecting"
  /\ db = "down"
  /\ GoLoop(g, "born")
  /\ UNCHANGED <<mu, relayVars, held, reads, old, heir, procVars, db,
                 countVars>>

\* Connect or LISTEN fails: the lock is released and the loop goes round.
ReconnectFails(g) ==
  /\ loop[g] = "connecting"
  /\ db = "down"
  /\ mu' = None
  /\ GoLoop(g, "born")
  /\ UNCHANGED <<relayVars, held, reads, old, heir, procVars, db, countVars>>

\* They succeed: the context of the *sub is cancelled, its connection and its
\* cancel function replaced, the lock released.
ReconnectDone(g) ==
  /\ loop[g] = "connecting"
  /\ db = "up"
  /\ made < MaxGen
  /\ LET o == subs[chan[g]]
         h == made + 1
     IN  /\ made' = h
         /\ cancelled' = cancelled \cup {cur[o]}
         /\ old' = [old EXCEPT ![g] = cur[o]]
         /\ heir' = [heir EXCEPT ![g] = h]
         /\ cur' = [cur EXCEPT ![o] = h]
         /\ conn' = [conn EXCEPT ![h] = "up"]
         /\ chan' = [chan EXCEPT ![h] = chan[g]]
  /\ mu' = None
  /\ GoLoop(g, "closeold")
  /\ UNCHANGED <<closed, subs, held, reads, procVars, db, opened, broken>>

CloseOld_Forgets(g) ==
  /\ loop[g] = "closeold"
  /\ loop' = [loop EXCEPT ![g] = "ended", ![heir[g]] = "born"]
  /\ old' = [old EXCEPT ![g] = None]
  /\ heir' = [heir EXCEPT ![g] = None]
  /\ UNCHANGED <<mu, relayVars, held, reads, procVars, db, countVars>>

\* The replaced connection is closed, the loop of its successor started, and
\* the loop that reconnected returns.
CloseOld(g) ==
  /\ loop[g] = "closeold"
  /\ conn' = [conn EXCEPT ![old[g]] = "closed"]
  /\ loop' = [loop EXCEPT ![g] = "ended", ![heir[g]] = "born"]
  /\ old' = [old EXCEPT ![g] = None]
  /\ heir' = [heir EXCEPT ![g] = None]
  /\ UNCHANGED <<mu, closed, subs, cur, chan, cancelled, held, reads,
                 procVars, db, countVars>>

-----------------------------------------------------------------------------
(* PostgreSQL, and the network to it.                                      *)

\* Connecting succeeds while the database is up, fails while it is down, and
\* does neither while it hangs.
DbTurns(state) ==
  /\ db # state
  /\ db' = state
  /\ UNCHANGED <<mu, relayVars, loopVars, procVars, countVars>>

\* An open connection is cut.
Break(g) ==
  /\ conn[g] = "up"
  /\ broken < MaxBreaks
  /\ conn' = [conn EXCEPT ![g] = "broken"]
  /\ broken' = broken + 1
  /\ UNCHANGED <<mu, closed, subs, cur, chan, cancelled, loopVars, procVars,
                 db, made, opened>>

-----------------------------------------------------------------------------

\* The steps of a loop that wait for r.mu, and the others.
LoopLocks(g) == Lookup(g) \/ Dispatch(g) \/ Reconnect(g)
LoopMoves(g) ==
  \/ Wait(g) \/ WaitFails(g) \/ Timer(g) \/ BackoffDone(g)
  \/ ReconnectFails(g) \/ ReconnectDone(g) \/ CloseOld(g)

\* The same of a handler or of main, once its call has begun.
ProcLocks(p) == ReadPool(p)
ProcMoves(p) ==
  \/ SubscribeDone(p) \/ SubscribeFails(p)
  \/ \E o \in toClose[p] : Cancel(p, o) \/ CloseConn(p, o)
  \/ TeardownDone(p) \/ Answer(p)

Environment ==
  \/ Close
  \/ \E p \in Procs : \/ \E n \in Chans : Subscribe(p, n) \/ Unsubscribe(p, n)
                      \/ AskHealthy(p)
  \/ \E state \in {"up"} \cup Outages : DbTurns(state)
  \/ \E g \in Gens : Receive(g) \/ Break(g)

Next ==
  \/ Environment
  \/ \E g \in Gens : LoopLocks(g) \/ LoopMoves(g)
  \/ \E p \in Procs : ProcLocks(p) \/ ProcMoves(p)

Spec == Init /\ [][Next]_vars

\* The Go scheduler runs every goroutine that can run, and a sync.Mutex hands
\* itself over to a goroutine that has waited too long (its starvation mode):
\* no goroutine that keeps asking for r.mu is passed over for ever.  Nothing
\* is assumed of clients, notifications, breaks and the database.
FairSpec ==
  /\ Spec
  /\ \A g \in Gens : SF_vars(LoopLocks(g)) /\ WF_vars(LoopMoves(g))
  /\ \A p \in Procs : SF_vars(ProcLocks(p)) /\ WF_vars(ProcMoves(p))

-----------------------------------------------------------------------------
(* Properties.                                                             *)

\* A channel in r.subs always has a goroutine to listen on it: the loop of its
\* current generation, not cancelled, runs or is about to be started by the
\* reconnectChannel that made it, whatever subscribes, unsubscribes and
\* reconnects cross.
EveryChannelHasItsLoop ==
  \A n \in Chans : subs[n] # None =>
    LET g == cur[subs[n]]
    IN  /\ chan[g] = n
        /\ g \notin cancelled
        /\ \/ loop[g] \notin {"none", "ended"}
           \/ \E l \in Gens : loop[l] = "closeold" /\ heir[l] = g

\* No connection is forgotten: one that is not closed is the current one of a
\* subscribed channel, or some goroutine is on its way to close it.
NoLeakedConnection ==
  \A g \in Gens : conn[g] \in {"up", "broken"} =>
    \/ \E n \in Chans : subs[n] # None /\ cur[subs[n]] = g
    \/ \E p \in Procs : \E o \in toClose[p] : cur[o] = g
    \/ \E l \in Gens : old[l] = g

\* Once Close has emptied the map, no connection is opened any more and no
\* channel subscribed: neither by a SubscribeChannel or a reconnectChannel that
\* was connecting when Close was called, nor by one that comes after it.
ClosedForGood == [][closed => made' = made /\ subs' = subs]_vars

\* The current connection of a channel is up, and a loop waits on it.
Listening(n) ==
  /\ subs[n] # None
  /\ conn[cur[subs[n]]] = "up"
  /\ Busy(cur[subs[n]])

\* Once the database stays up, every channel that stays subscribed is listened
\* on again and again, whatever broke before.
Recovers ==
  <>[](db = "up") => \A n \in Chans : []<>(subs[n] = None \/ Listening(n))

\* A loop whose context is cancelled ends: no goroutine outlives its
\* subscription.
CancelledLoopsEnd ==
  \A g \in Gens : (g \in cancelled) ~> (loop[g] = "ended")

\* Close leaves no connection open and no loop running, those that a
\* reconnection was making at the time included.
NothingSurvivesClose ==
  closed ~> [](\A g \in Gens : /\ conn[g] \in {"none", "closed"}
                               /\ loop[g] \in {"none", "ended"})

\* A notification that a loop has received gets through dispatch, though that
\* waits for r.mu and r.mu is held over whole attempts to connect, provided they
\* come to an end (the database is up or down, and does not hang).
DispatchGetsThrough ==
  \A g \in Gens : (loop[g] = "dispatch") ~> (loop[g] # "dispatch")

\* A readiness request is answered.
HealthyAnswers ==
  \A p \in Handlers : (proc[p] = "healthy") ~> (proc[p] # "healthy")
=============================================================================
