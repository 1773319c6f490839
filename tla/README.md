# evt2sse in TLA+

evt2sse turns PostgreSQL notifications into a stream of server-sent events: a
program publishes with `POST /api/send`, the server executes `pg_notify`, hears
the notification on a `LISTEN` connection and writes it to every client of
`GET /api/listen`. This directory holds TLA+ models of its core, the TLC
configurations that check them, and proofs that TLAPS checks.

    tlc -config MCServer.cfg MCServer    # any of the runs below
    tlapm ServerProofs.tla               # the proofs

## The system

| Part (source) | State | Operations | Talks to |
|---|---|---|---|
| SSE server (`internal/server/server.go`) | `clients`, `lastID`, `history` under `s.mu`; per request a channel of 64 frames and local variables | one goroutine that broadcasts; one `handleListen` per connection: replay, register, write, clean up | watcher of the relay, net/http, peers |
| Relay, listening (`internal/relay/relay.go`) | `subs`, `closed` under `r.mu`; each `*sub`'s `conn` and `cancel`; one `listenLoop` per connection | subscribe, unsubscribe, Close, Healthy; receive, dispatch, back off, reconnect | PostgreSQL, HTTP handlers, main |
| Relay, watchers | `watchers` under `r.mu`, a channel of 64 notifications each | `Notifications`, `dispatch` | server's goroutine |
| Relay, publishing | `idemStore` under its own mutex | `PublishWithID`: seen, exec, add; purge | pool of PostgreSQL connections |
| Client, sends (`pkg/client/client.go`) | attempt counter and id of a call | `SendWithID` with retries and back-off | `POST /api/send` |
| Client, stream (`pkg/client/sse.go`) | `lastID`, event and error channels, `done` | connect, read, deliver, reconnect, `Close` | `GET /api/listen` |
| SSE wire format | none | frames of `broadcast`, `readSSEEvent` | server, stream |
| Back-off delays (three copies) | none | `backoff`, `backoffDelay` | loops that retry |
| Programs (`cmd/evt2sse`, `cmd/simulator`) | stop channel, contexts | start with retries, signal, Shutdown, deferred Close | all of the above |
| Routes without state, page, build information, deployment, `motion/` | none | reading, formatting, presentation | – |

What is hard, and what makes each part correct:

* **Server.** The broadcast copies the set of channels under the lock and sends
  after releasing it; a handler takes its replay and registers in two critical
  sections, writes with no lock, and closes its channel when it leaves. Correct
  means: a connection gets an event at most once and in order, loses only what
  the design says it may lose, a slow client delays nobody, a lost client is
  forgotten, and no client can harm the process.
* **Relay.** Loops find their `*sub` by name, read its connection without the
  lock, and a reconnection changes it in place and hands over to a new
  goroutine; the lock is held while connecting. Correct means: a subscribed
  channel always has its loop, no connection is forgotten, service comes back
  after any outage, Close leaves nothing, readiness answers.
* **From a commit to its number.** Several loops, and around an unsubscribe
  several connections of one channel, receive notifications and dispatch them
  under the same lock into a channel that may be full. Correct means: they are
  numbered in the order of their commits, once each, or are lost where the code
  may lose them.
* **Publication.** Retries cross attempts that are still running; the id is
  looked up, the statement executed and the id recorded in three steps; the
  store is bounded and lost at a restart. Correct means: what was acknowledged
  was published, what is recent is remembered, a call returns.
* **Stream.** The last id moves when a frame is read, the event is delivered
  later, and in between or after the connection may be cut; the server's
  numbering starts again with its process. Correct means: the application gets
  nothing twice nor out of order, misses nothing it is owed, a closed stream
  ends even if nobody reads it, another comes back.
* **Wire format and delays.** A connection may be cut anywhere, also inside a
  line. Correct means: what is delivered is what was written, and the delays
  follow the attempts that brought nothing.
* **Programs.** The signal may come while the start waits for the database,
  while requests are served, or between two steps of either. Correct means: the
  start goes on until the database answers, a program told to stop ends, leaves
  no pool open, and what the simulator counts is true.

`PROJECT.json` lists the components, and under `hazards` every place where this
code is hard to test, with the properties that watch it.

## Modules

### `EventFeed`, `Server`, `MCServer`, `ServerProofs`

`Server` has one action per critical section of `s.mu`, per channel operation
and per write. The broadcasting goroutine is `Broadcast` (up to the unlock),
`Offer` (one turn of the loop that sends, with `Enqueue` and `Drop` as the two
cases of its `select`) and `EndBroadcast`. A handler goes through the states
`new, replay, register, greet, resend, stream, leave, close, done`, which are
the stretches of `handleListen` between two steps another goroutine can see;
each case of its `select` is an action (`Deliver`, `DeliverFails`,
`HeartbeatFails`, `ContextDone`), and the deferred function is two actions,
`Unregister` under the lock and `CloseQueue` after it. `PeerLeaves` and
`Notice` stand for the peer and for net/http: a peer can leave without net/http
noticing, which is what the heartbeat is for.

A frame is represented by its id, which within one life of the process
determines the event. `alive` becomes FALSE when `Offer` sends on a closed
channel: the panic is in the goroutine of `Start`, outside `recoverPanic`, and
nothing moves afterwards. `seenTo`, `regAt` and `dropped` are history variables
used only by properties. Headers that `parseLastEventID` refuses are the single
value `-1`; the value `MaxID + 1` is the id of an earlier life.

`EventFeed` is what a listener may rely on, without replay, channels or
handlers: numbers grow, a connection starts after a floor, and is sent later
and later ids. `ImplementsFeed` maps `lastID`, `sent` and the id a handler
resumed after to it.

### `Relay`, `MCRelay`, `RelayProofs`

A connection, the context made with it and the loop started on that context are
born together and get one number, a *generation*. A `*sub` is named by the
generation it was created with, and `cur` gives the generation its fields hold
now, which `reconnectChannel` changes in place. `mu` records who holds `r.mu`
across steps: `SubscribeChannel` and `reconnectChannel` hold it while they
connect, everything else takes and releases it within an action. A loop reads
the map (`Lookup`), then the connection (`Wait`), in two steps: between them
the subscription may be gone or its connection replaced. pgx refuses a second
reader on a connection (`Busy`), an external fact the model takes from pgconn's
own lock; a wait that is cancelled leaves the connection usable, another one.
`DbTurns` and `Break` are PostgreSQL and the network: connecting succeeds while
the database is `up`, fails while it is `down` and never ends while it `hang`s.

The initial state is the one after `Start` has opened the pool; its own call of
`SubscribeChannel` is one of the calls of the handlers. `TeardownDone` stands
for the end of `UnsubscribeChannel` or `Close`.

### `Publish`, `MCPublish`, `PublishProofs`

One module for the way of an event into PostgreSQL, since its guarantees are
about client and server together. A request is the pair of a send and the
number of its attempt, and lives on in the server when the client gives it up
(`NoResponse`, `GiveUp`). `Arrive` is the look-up in the store, `ExecSucceeds`
and `ExecFails` the statement, which may fail after it committed, `Add` the
recording of the id with the purge. `Crash` empties the store and ends the
requests. The store maps an id to the time it was added, as in the code;
`Purged` is a set, because ties between equally old entries are broken by the
order of a Go map.

### `Stream`, `MCStream`, `StreamProofs`

The client's goroutine: `Dial` and `DialFails` are `http.Do` with its status
check, `Read` and `ReadFails` the call of `readSSEEvent` and the update of
`lastID`, `Deliver` and `DeliverStops` the `select` on `s.events`, `AfterRun`
and `Backoff` the two halves of `loop`. `TakeEvent`, `TakeError`, `Cancel` and
`CloseDone` are the application, which may never take anything. A frame is the
pair of the life of the server that numbered it and its id, of which the client
sees the id only. The server is reduced to what `Server` shows of it: it keeps
the last `HistoryRetention` ids (`HistoryInv`, proved), replays those after a
known id, registers the connection in a later step, and may then refuse an
event to a full channel. `excused` collects the ids it does not owe: refused,
broadcast between replay and registration, or before a connection whose last
event it no longer keeps (the server then replays nothing).

### `Pipeline`, `NotifyFeed`, `MCPipeline`, `PipelineProofs`

The way of a notification from its commit to its number, as a composition:
`Pipeline` extends `Relay`, takes its steps over one by one, with all its loops,
connections and the holder of `r.mu`, and says of each what it does to the
notifications. `Commit` sends a copy to every connection that `LISTEN`s on the
channel at that moment (`Listeners`), whichever loop reads it; a connection that
breaks or is closed loses what it had not delivered (`LinesFollow`).
`ReceiveCopy` is the loop's `WaitForNotification`, `DispatchCopy` the `dispatch`
under `r.mu`, which waits for whoever is connecting under it, `StartWatching`,
`Number` and `Stop` the goroutine of `Start` with its deferred `stop()`, and
`CancelStart` and `CloseCall` are main's. The default channel is subscribed
before `Start` has its watcher, the others after it; `Posts` and `Deletes` are
the handlers of the two requests. A copy carries the connection it came on and
the loop that took it; these two, `origin` (what got which number), `lost` and
`unsubscribed` are history variables. From the number on, the event is in
`Server`, whose `InOrderOnce` carries the order on to the clients: the ids a
connection is sent grow.

What can be promised depends on `UnsubscribeChannel`. It takes the channel out
of the map, and only later cancels the loop and closes the connection: if the
channel is subscribed again in between, two connections `LISTEN` on it, so that
a notification may be numbered twice; and the old loop may dispatch what it
holds after what the new one received. No comment or document of the
repository promises order or uniqueness there, so `ChannelOrder` and
`NothingVanishes` promise both for channels that were never unsubscribed,
however they break and reconnect, and for the others what remains true: order
for what one loop received from one connection, and one place for what one
connection brought. `NotifyFeed` is the same promise as a specification, with
no loop, lock or watcher; `ImplementsNotifyFeed` maps the numbered copies to it.

### `SseFormat`, `Backoff`, `Reader`, `MCReader`, `ReaderProofs`, `DataProofs`

`SseFormat` holds the frames of the server as sequences of lines (a field and a
value) and `readSSEEvent` as a fold over the lines of a body, with what a
connection cut inside a line leaves of it. `Backoff` is the computation of which
the code has three copies; the random part is the set of its outcomes. `Reader`
is the goroutine of a stream on such bodies: `runOnce` with `lastID`, and `loop`
with its counter and its delays. It differs from `Stream` in what it looks at:
`Stream` has the channels, the application and `Close`, a frame at a time;
`Reader` has the text and the delays. `Bodies` are what `handleListen` may
write: the resume event and the frames replayed only if `lastID` is still in the
history (`Resumes`), otherwise neither; then any of the events broadcast while
the connection lasts, since a full channel drops some and others fall between
the replay and the registration. `missed` collects, as a history variable, what a
connection did not carry. A `clean` end is `io.EOF`, which a proxy that
delimits the body by closing makes of any cut.

### `Lifecycle`, `Simulator`, `MCSimulator`, `SimulatorProofs`

`Lifecycle` is `cmd/evt2sse`: `startWithRetry` with the relay's `Start`
(`StartSucceeds`, `StartFails`, `Retry`, `StopsStarting`), the goroutine that
waits for the signal (`CancelsServer`, `ShutsDown`), `ListenAndServe`
(`Listens`, `ServeReturns`), the deferred `Close` (`ClosesRelay`) and the end of
the process (`Exits`), once the pool's connections are given back: requests not
yet answered then fail for who sent them. Handlers of sends hold connections of
the pool while they execute. `Simulator` extends it by `cmd/simulator`: `run`
with its goroutine that sends and its goroutine that receives, whose `Posts` are
the requests of `Lifecycle`.

The operators `X_Y` of these modules are variants of `X` with a plausible
mistake; nothing uses them. Each is there so that the property it breaks is
known to depend on the line it changes.

## Runs

All pass unless marked. Sizes are of the state graph TLC explores.

| Run | Instance | Shows |
|---|---|---|
| `server` | 1 connection, history 3, channel 2, 5 broadcasts, `FairSpec`; 72 000 states | `TypeOK`, `InOrderOnce`; `LossOnlyInWindow`: only a full channel, or the window between replay and registration, costs an event; `ImplementsFeed`; `SlowClientsDoNotBlock`; `LostPeersAreReaped`; `QueuedIsSent` |
| `server_kill` | violated | `ClientsCannotKill` |
| `server_window` | violated | `ResumeComplete` |
| `relay` | 1 handler, 1 channel, database down and up, 5 generations, 2 subscriptions, 1 break, `FairSpec`; 11 000 states | `TypeOK`, `EveryChannelHasItsLoop`, `NoLeakedConnection`, `ClosedForGood`: nothing is opened after `Close`; `Recovers`, `CancelledLoopsEnd`, `NothingSurvivesClose`; `DispatchGetsThrough`: a notification received waits for `r.mu` no longer than connections are being made; `HealthyAnswers` |
| `relay_healthy` | violated; database that hangs | `HealthyAnswers` |
| `pipeline` | 2 handlers, one that subscribes and one that unsubscribes, 1 channel, database down and up, 3 generations, 2 subscriptions, 1 unsubscription or break, watcher of 1, 2 notifications; 1 765 000 states | `PTypeOK`, `ChannelOrder`, `NothingVanishes`: what a connection brings is numbered once or lost where the code may lose it; `ImplementsNotifyFeed`; `EveryChannelHasItsLoop` and `NoLeakedConnection` with two handlers that cross |
| `reader` | 4 events, history 2, 4 connections cut anywhere, 3 pairs of delays; 959 000 states | `TypeOK`, `ReadBack`: what is delivered is in order and once, and what `lastID` passes undelivered was torn at a clean end or not written by the server; `DelayFits` |
| `programs` | both programs, 2 sends, `-count` 1 or none, start delays of 3 to 5, `FairSpec`; 138 000 states | `TypeOK`, `NoLeakedPool`, `TallyIsTrue`, `StopEnds`, `StartsInTheEnd`, `SimulatorEnds` |
| `publish` | 2 sends, 1 id chosen by callers, 1 retry, store of 1, TTL 0, 2 instants, 1 restart, `FairSpec`; 460 000 states | `TypeOK`, `AckImpliesPublished`, `StoreKeepsRecent`, `SendsEnd` |
| `publish_once` | violated | `PublishedOnce` |
| `stream` | channels of 1, history 2, 3 events a life, 2 lives, 2 cuts, `FairSpec`; 350 000 states | `TypeOK`, `DeliveredInOrder`, `FirstLifeComplete`, `StreamEnds`, `Reconnects` |
| `stream_restart` | violated | `Complete` |

**Why the bounds are enough.** In `Server` connections interact only through the
client map and the broadcast's copy of it, so one connection shows every
interleaving of a handler with broadcasts; that others change nothing for it is
in the proofs, which hold for any set of connections. A history of 1 to 3 frames
and 5 broadcasts make ids leave the history, a channel of 1 or 2 makes it
overflow. In `Relay` the hazards need one name subscribed twice (a channel's own
state is touched by its own loops only, and `RelayProofs` covers any channels
and handlers), one broken connection, and enough generations for a loop to meet
its successor and the subscription after it; `MaxGen` stops reconnections for
good in no behaviour, since 2 subscriptions and 1 break cannot use five
generations up. The second handler, whose subscribe falls between the delete and
the cancel of an unsubscribe, is in the run of `Pipeline`, where
`EveryChannelHasItsLoop` and `NoLeakedConnection` are checked again; to keep it
small `h1` only subscribes and `h2` only unsubscribes. There `MaxTroubles` is 1:
a behaviour has an unsubscription or a break, after each of which a second
connection of the channel may be made, and the third generation replaces either.
Channels share only `r.mu`, the watcher and the goroutine of `Start`, which one
channel already disputes to itself, and the proofs hold for any. A watcher of 1
overflows, and two notifications are what order and uniqueness compare; more of
both made the run too long. In `Reader` four events and a history of 2 make an
id be resumed after, leave the history, be skipped and repeated, and four
connections take the delay through all its doublings up to the cap; the three
pairs of delays are one that doubles before it is capped, one whose jitter is 0,
and one that starts above its maximum. In `Lifecycle` the counter of attempts
stops at `MaxAttempt`, where the delay is already the greatest
(`LifecycleAssumption`), so starts may fail without bound; a second send is what
the end of a program may meet while the first is executing. In `Publish` two
senders with one common id and one retry each make every pair of attempts cross;
two ids overflow a store of 1, and one tick makes an id older than a TTL of 0.
In `Stream` two cuts make a resumed connection be resumed again, three events
make an id leave a history of 2, channels of 1 are full after one event or
error, and two lives are what a restart is. `MaxID`, `MaxGen`, `MaxSubs`,
`MaxBreaks`, `MaxTroubles`, `MaxNotified`, `MaxConns`, `MaxAttempt`, `MaxSends`,
`MaxTime`, `MaxCrashes`, `MaxLives` and `MaxCuts` are the bounds of the models;
none is in the code. `HistoryRetention`, `QueueCap`, `WatcherCap`, `Recons`,
`StartBase`, `StartMax`, `SendRetry`, `IdemMax`, `IdemTTL`, `EventsCap` and
`ErrsCap` are the code's constants and options.

**Deadlock** is checked in the runs of `Relay`, `Stream` and `Simulator`. It is
not in the others because the modelled system may stop: the broadcast goroutine
is cancelled and every connection served, the relay is closed, every send has
returned, the process is dead.

**Fairness.** `Server!FairSpec`: goroutines that can run do run; a `select`
picks among ready cases at random, so that a case that stays ready is not put
off for ever; the ticker fires again and again, and a write to a lost peer ends
by failing, since TCP gives up. Peers need not read: the code sets no write
timeout, and a write to a peer that neither reads nor leaves lasts. So writes
that succeed are not fair, `SlowClientsDoNotBlock` includes handlers stuck in
one, and `QueuedIsSent` has the reading peer as its hypothesis.
`Relay!FairSpec`: strong fairness for the steps that take `r.mu`, because Go's
mutex hands itself to a waiter it has starved for a millisecond; weak fairness
for the rest; nothing about clients, notifications, breaks and the database.
`DispatchGetsThrough`, like `HealthyAnswers`, needs attempts to connect that
end: `r.mu` is held over `pgx.Connect`, which has no deadline, so while the
database hangs a notification that was received is neither numbered nor lost
(`relay_healthy` shows it of readiness). `Pipeline` therefore states no progress
of its own, and no fairness. `Publish!FairSpec`: the client only, whose attempts
are bounded by the timeout of its HTTP client. `Stream!FairSpec`: the stream's
goroutine only. `Simulator!FairSpec` with `LifecycleFairness`: every goroutine
of both programs runs when it can, and handlers and their statements end; strong
fairness for the two `select`s that look at the stop channel or the context only
in between other work (`StopsStarting`, `SenderStops`), as Go picks among ready
cases at random. The database, the signal and the end of `-duration` are not
fair: `StopEnds` holds whether the database answers or refuses, `StartsInTheEnd`
has the database that stays up as its hypothesis.

## Findings

The runs marked *violated* state what a comment, a test or the README says and
the code does not do; `PROJECT.json` quotes both.

1. `server_kill`: a client that leaves during a broadcast can end the process.
2. `server_window`: a resume announced as contiguous may miss an event.
3. `relay_healthy`: readiness has no bounded delay while a connection attempt hangs.
4. `publish_once`: a retried send may be published twice.
5. `stream_restart`: after a restart of the server, a stream resumes after an id
   of the earlier life and skips events the server still keeps.

Noted while modelling, without a run:

* A resume with a gap is never announced: `replayAfter` returns nothing when the
  id has left the history, and the event is written only with frames, always
  with `gap = false` (`server.go:202`, `server.go:377`).
* `main` does not wait for `Shutdown`: `ListenAndServe` returns when it begins
  (`main.go:67`), the deferred `Close` waits for the statements being executed,
  and the process may end before their answers are written. A send that was
  published may be told failed, where `README.md:51` says the stop is clean.
* `cancel()` comes before `Shutdown`: a send accepted in between is acknowledged,
  and its notification broadcast to nobody.
* The signal is read once, and only between the attempts of the start: while
  the database hangs, `Start` does, and a second signal changes nothing.
* The wait of 600 ms that the simulator's comment says lets the stream connect
  before the first send is not in the goroutine that sends
  (`simulator/main.go:140-142`). That goroutine also reports `-count` events
  sent although some failed; the totals printed at the end are right.
* Behind a proxy that delimits the body by closing, an event cut inside its data
  moves `lastID` and is then dropped as bad JSON: it is never replayed
  (`sse.go:229`). `ReadBack` allows exactly this loss.
* `seen` does not look at the age of an id (`relay.go:325`): below 4096 ids an
  id is a duplicate for ever, where `README.md:17` says 5 minutes.
* A channel unsubscribed and subscribed again before the old loop's context is
  cancelled has two loops for a while: the new one finds its connection busy,
  backs off and replaces a healthy connection. `Relay` has these behaviours, and
  they break none of its properties; `Pipeline` shows what becomes of the
  notifications: what the replaced connection had not delivered is lost, one
  that came on both connections is numbered twice, and one in the hands of the
  old loop is numbered after those the new one received.
* The HTTP client's default timeout of 30 s also cuts streams.
* `SubscribeChannel` answers success after `Close`, having done nothing.
* `NOMENCLATURE.md:157` says the server refuses channel names that do not follow
  the nomenclature; `handleSubscribe` refuses only the empty name.

## Proofs

`ServerProofs` proves, for every value of the constants,

* `TypeCorrect`: `Spec => []TypeOK`,
* `Ordered`: `Spec => []InOrderOnce`,
* `Refinement`: `Spec => ImplementsFeed`,
* `OnlyInWindow`: `Spec => []LossOnlyInWindow`,

from `ServerAssumption` alone. `InOrderOnce` is not inductive: it must know that
what may still enter a connection's stream is later than what is in it. The
invariant `IInv` adds that the history is the last `Len(history)` ids
(`HistoryInv`), what each state of a handler implies for its replay, its
channel and its presence in the client map and in the broadcast's copy
(`PhaseInv`), and that everything in `sent \o replay \o queue` is at most
`lastID`, and below it while the connection is still in the broadcast's copy
(`OrderInv`). Lemmas about increasing sequences (append, concatenation,
suffix) come first; then one lemma per action, since an action touches one
connection and leaves the invariant of the others as it was. The refinement
follows from the invariant: a write appends an id above the floor and above all
that was sent, `Replay` sets the floor while nothing was sent. For
`OnlyInWindow` a second invariant, `WindowInv`, says for every place of a
handler what is accounted for there: an id enters the connection with
`Broadcast` (the copy taken of the client map contains every registered
connection) or with `Replay` (the history after `Last-Event-ID` is all the ids
after it, by `HistoryInv`), and then only moves from the copy to the channel or
to `dropped`, and from the replay or the channel to `sent`. It also says that a
closed channel belongs to a handler that is done, so that the panic of `Offer`
loses nothing of a connection still served.

`PublishProofs` proves `TypeCorrect`, `AcksAreTrue`
(`Spec => []AckImpliesPublished`) and `StoreKeeps`
(`Spec => []StoreKeepsRecent`). The strengthening says that an id in the
store was published, that a request in state `add` or `ok` was, and that the
requests of a send not begun are untouched. `StoreInv` adds what the store
remembers: an id it holds is there with the time it was added last, and an id
evicted for want of room has `IdemMax` others in the store added as late as it.

`RelayProofs` proves, from `RelayAssumption` (goroutines and generations are
told apart), `TypeCorrect`, `AlwaysALoop` (`Spec => []EveryChannelHasItsLoop`),
`NoLeak` (`Spec => []NoLeakedConnection`) and `ClosedStays`
(`Spec => ClosedForGood`). The two invariants are not inductive.
The invariant adds who owns what: whoever connects holds `r.mu`, and so finds
the map unchanged when it is done (`LockInv`); a generation to come has left no
trace (`FreshInv`), so that one that is born is nobody's; two `*sub`s never
share a generation, and those in the map are not cancelled (`NameInv`); a
`*sub` about to be closed is out of the map (`TeardownInv`); a loop that has
reconnected is not the current one any more, and alone starts its heir
(`HeirInv`). Most actions only move one loop or one handler: `LoopStep` and
`ProcStep` say what such a move may do, one lemma each proves that the
invariant survives it, and the actions are shown to be such moves. Those that
change the map, a `*sub` or a connection have lemmas of their own. For
`ClosedStays`, a closed relay has no channel and no handler that connects
(`ClosedInv`): whoever connects holds `r.mu`, for which `Close` waited, and a loop
connects only for a channel that is in the map.

`StreamProofs` proves `TypeCorrect`, `InOrder`
(`Spec => []DeliveredInOrder`) and `FirstLifeOfAll`
(`Spec => []FirstLifeComplete`). The invariant is that what was received, what is
in hand and what is on its way are ordered and one before the other, that
`lastID` is at least every id read, and that the server has numbered all of it,
in this life or before. For completeness `CompleteInv` adds, of the first life:
below an id that was received, is in hand or is on its way, every other one is
too or is excused (`DownInv`); while a handler runs this goes up to the server's
last id (`AllInv`); and when the loop is to dial again, `lastID` is the newest
event received (`LastInv`), which fails only once the stream is closed: an
event in hand is then given up, and the loop does not dial any more.

`PipelineProofs` builds on `RelayProofs`. `RelayInside` (`PSpec => Spec`): a step
of the pipeline is one of the relay or none, so that what is proved of `Relay`
holds in it, `EveryChannelHasItsLoop` and `NoLeakedConnection` included.
`PTypeCorrect`, `OrderKept` (`PSpec => []ChannelOrder`), `OnePlace`
(`PSpec => []NothingVanishes`) and `NotifyFeedRefinement`
(`PSpec => ImplementsNotifyFeed`) follow from `PipelineAssumption` and
`RelayAssumption`. The first part is about the relay alone (`SteadyInv`): as long
as a channel was never unsubscribed, at most one loop is active for it and one
connection of it is open; the open one is the current one, the loop waits on no
other, and it is replaced only after it was lost. None of this is obvious, as
`r.mu` is free from the break to the replacement, and it is what fails after an
unsubscription. The second part follows the copies. `CopyInv` says that each is of
a notification of its channel and with a connection and a loop of that channel;
`OrderInv` orders the stages, copies with a number before those in the watcher's
channel, these before those in hand, and these before those on a connection,
where `Fits` says which two copies have to be different or in order;
`PlaceInv` says that a committed notification is in some stage or lost, and not
both on a channel that was never unsubscribed. A step moves a copy from one
stage to the next, and a commit adds one copy to each connection of a channel,
of which `SteadyInv` leaves one. For the refinement, `Number` may follow all
that was numbered because what is in the watcher's channel fits after it.

`SimulatorProofs` proves `TypeCorrect`, `PoolsClosed`
(`Spec => []NoLeakedPool`) and `Tallies` (`Spec => []TallyIsTrue`) for any set of
sends: where main stands tells
what became of the pool and whether handlers run, and what a send has come to
tells whether it was committed. The types include the delays of the start, which
are those of `DataProofs`.

`DataProofs` is about what the models compute with. The induction theorems of
the library take a predicate as a parameter, which the provers cannot
instantiate; `Induction` is about a set of naturals instead, and follows from
the well-foundedness of `<`, which the library states without a predicate;
`IterationExists`, `IterationUnique` and `Recursion` are about a recursive
function whose step is itself a function. With them, `CappedIs`: for every
attempt, base and maximum, the doubling loop of `backoff` and `backoffDelay` is
the formula `base * 2^attempt`, capped. `JitterBounds`: for every maximum and
every delay up to it, the jitter moves the delay by at most a fifth, never above
the maximum and never to 0.

`ReaderProofs` proves `TypeCorrect`, `InOrderAndOnce` (`Spec => []ReadBack`) and
`DelayIsFormula` (`Spec => []DelayFits`), for any size of the history, any
number of broadcasts and connections, any events dropped or missed by the
registration, any delays, and a cut at any place. The text is described line by
line: `Run` gives each line the phase of the frame it is in and the number of
the broadcast begun last, and `Follows` says which lines may come next, where a
frame may pass over numbers the connection does not carry (`Gap`, `Skips`), so
that the bodies the server writes are runs from one number to another, whether
they resume or not (`RunOfFrames`, `RunOfBodies`). `Left` describes what a cut
leaves of a run, whole lines and perhaps a part of one, and what remains after
reading some of it is again so described (`LeftSuffix`). `Take` is then followed
one line at a time (`Reading`: what its variables hold in each phase), which
gives `ReadsEvent`: what `readSSEEvent` returns as an event is a header without
an id or the next broadcast the connection carries, whose data are whole unless
a clean end tore them. The invariant of the loop (`IInv`) is that what is to be
read starts after `lastID`, passing over nothing but what is in `missed`
(`Coming`), and that the counter of attempts is the number of connections since
the last event (`Counting`), from which `CappedIs` and `JitterBounds` give the
delay.

Only model-checked: liveness, which states what must happen under fairness and is
out of reach of this prover, as is `ENABLED`. Every invariant and action property
of the passing runs and both refinements are proved. No
module declares a `RECURSIVE` operator: the recursive functions and the folds of
the models are reasoned about through their defining equations.

## Not modelled

The payload, the wording of frames and answers, the choice of the default
channel, the quoting of identifiers and literals, HTTP bodies that are refused.
The join of several `data` lines by `readSSEEvent`: no frame has two. The
client's `Channels`, `Subscribe`, `Unsubscribe` and `Status`, and the read-only
routes: each is one request, with no state, retry or order of its own, and what
they do on the server is in `Relay`. The embedded page, build information,
deployment files and the presentation under `motion/`: no program logic. A
database that hangs is in `Relay` (`relay_healthy`), not in `Lifecycle`: there it
would stop the start, whose `pgx.Connect` has no deadline, and the end, whose
`Close` waits for `r.mu` and then, in `pool.Close`, for the statements in
execution. `StopEnds` holds for a database that answers or refuses. What
`PublishWithID` and the listening connections do while the process ends is in
`Lifecycle` and `Relay`, each without the other.

## Plan

Done: the server, the relay's channels, the publication path, the client's
stream, the way from a commit to its number with every loop and connection of
the relay, the wire format and the delays, the two programs, and a proof of
every safety property of the runs. Left, in this order:

1. `Pipeline` joined to `Server` and to the clients of `Stream`, for a
   refinement from the application that sends to the one that reads; the state
   graph of the three is beyond TLC, so that it needs proofs first.
2. A database that hangs in `Lifecycle`, with the start and the end it delays.
