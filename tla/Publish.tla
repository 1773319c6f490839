------------------------------ MODULE Publish -------------------------------
(***************************************************************************)
(* The way of an event into PostgreSQL: the client's SendWithID and its    *)
(* retries (pkg/client/client.go), POST /api/send (internal/server), and   *)
(* PublishWithID with the store of recent ids (internal/relay).            *)
(*                                                                         *)
(* A send is one call of SendWithID.  Each of its attempts is a request,   *)
(* the pair of the send and the number of the attempt, with a handler of   *)
(* its own in the server: an attempt the client has given up may still be  *)
(* running there.                                                          *)
(*                                                                         *)
(* Operators named X_Y are faulty variants of X that nothing here uses:    *)
(* each shows what one of the properties would catch.                      *)
(***************************************************************************)
EXTENDS Integers, FiniteSets

CONSTANTS
  Sends,       \* the calls of SendWithID
  Ids,         \* the ids callers choose; two sends may choose the same
  NoId,        \* the empty id
  SendRetry,   \* sendRetry: attempts after the first
  IdemMax,     \* idemMax (4096)
  IdemTTL,     \* idemTTL (5 minutes), in ticks of the clock
  MaxTime,     \* bound of the model: ticks of the clock
  MaxCrashes   \* bound of the model: restarts of the server

ASSUME PublishAssumption ==
  /\ NoId \notin Ids \cup Sends
  /\ SendRetry \in Nat /\ IdemMax \in Nat \ {0} /\ IdemTTL \in Nat
  /\ MaxTime \in Nat /\ MaxCrashes \in Nat

\* newRequestID draws an id nobody else has: the send stands for its own.
AllIds   == Ids \cup Sends
Requests == Sends \X (0..SendRetry)
Never    == -1   \* no time

VARIABLES
  client,    \* [Sends -> state of the call]
  id,        \* [Sends -> AllIds or NoId]: the id its requests carry
  attempt,   \* [Sends -> 0..SendRetry]
  request,   \* [Requests -> state of the handler, or of the request]
  ids,       \* [AllIds -> time or Never]: idemStore.ids, Never when absent
  notified,  \* [Sends -> Nat]: pg_notify of its payload committed
  now,       \* the clock
  crashes,   \* restarts so far
  added      \* history variable: when this life of the server last added an id

clientVars == <<client, id, attempt>>
vars == <<clientVars, request, ids, notified, now, crashes, added>>

ClientStates  == {"idle", "waiting", "backoff", "ok", "failed"}
RequestStates == {"none", "flying", "exec", "add", "ok", "error", "gone"}

TypeOK ==
  /\ client \in [Sends -> ClientStates]
  /\ id \in [Sends -> AllIds \cup {NoId}]
  /\ attempt \in [Sends -> 0..SendRetry]
  /\ request \in [Requests -> RequestStates]
  /\ ids \in [AllIds -> 0..MaxTime \cup {Never}]
  /\ notified \in [Sends -> Nat]
  /\ now \in 0..MaxTime
  /\ crashes \in 0..MaxCrashes
  /\ added \in [AllIds -> 0..MaxTime \cup {Never}]

Init ==
  /\ client = [s \in Sends |-> "idle"]
  /\ id = [s \in Sends |-> NoId]
  /\ attempt = [s \in Sends |-> 0]
  /\ request = [q \in Requests |-> "none"]
  /\ ids = [i \in AllIds |-> Never]
  /\ notified = [s \in Sends |-> 0]
  /\ now = 0
  /\ crashes = 0
  /\ added = [i \in AllIds |-> Never]

-----------------------------------------------------------------------------
(* The client.                                                             *)

Current(s) == <<s, attempt[s]>>

\* SendWithID: a send that may retry and was given no id makes itself one.
SendWithID(s, i) ==
  /\ client[s] = "idle"
  /\ id' = [id EXCEPT ![s] = IF i = NoId /\ SendRetry > 0 THEN s ELSE i]
  /\ client' = [client EXCEPT ![s] = "waiting"]
  /\ request' = [request EXCEPT ![Current(s)] = "flying"]
  /\ UNCHANGED <<attempt, ids, notified, now, crashes, added>>

AfterError_OneMore(s) ==
  client' = [client EXCEPT ![s] =
               IF attempt[s] > SendRetry THEN "failed" ELSE "backoff"]

\* sendOnce returned an error: the last attempt gives up, another backs off.
AfterError(s) ==
  client' = [client EXCEPT ![s] =
               IF attempt[s] >= SendRetry THEN "failed" ELSE "backoff"]

\* The answer of the current attempt comes back.
Response(s) ==
  /\ client[s] = "waiting"
  /\ request[Current(s)] \in {"ok", "error"}
  /\ IF request[Current(s)] = "ok"
     THEN client' = [client EXCEPT ![s] = "ok"]
     ELSE AfterError(s)
  /\ UNCHANGED <<id, attempt, request, ids, notified, now, crashes, added>>

\* The attempt fails below HTTP or meets the timeout of the HTTP client,
\* whatever became of the request.
NoResponse(s) ==
  /\ client[s] = "waiting"
  /\ AfterError(s)
  /\ UNCHANGED <<id, attempt, request, ids, notified, now, crashes, added>>

Retry_NotCounted(s) ==
  /\ client[s] = "backoff"
  /\ client' = [client EXCEPT ![s] = "waiting"]
  /\ request' = [request EXCEPT ![Current(s)] = "flying"]
  /\ UNCHANGED <<id, attempt, ids, notified, now, crashes, added>>

\* The back-off is over: the next attempt carries the same id.
Retry(s) ==
  /\ client[s] = "backoff"
  /\ attempt' = [attempt EXCEPT ![s] = @ + 1]
  /\ client' = [client EXCEPT ![s] = "waiting"]
  /\ request' = [request EXCEPT ![<<s, attempt[s] + 1>>] = "flying"]
  /\ UNCHANGED <<id, ids, notified, now, crashes, added>>

\* The caller cancels the context of the call.
GiveUp(s) ==
  /\ client[s] \in {"waiting", "backoff"}
  /\ client' = [client EXCEPT ![s] = "failed"]
  /\ UNCHANGED <<id, attempt, request, ids, notified, now, crashes, added>>

-----------------------------------------------------------------------------
(* The server.                                                             *)

IdOf(q) == id[q[1]]

Arrive_Burns(q) ==
  /\ request[q] = "flying"
  /\ IF IdOf(q) # NoId /\ ids[IdOf(q)] # Never
     THEN request' = [request EXCEPT ![q] = "ok"] /\ UNCHANGED ids
     ELSE /\ request' = [request EXCEPT ![q] = "exec"]
          /\ ids' = [i \in AllIds |-> IF i = IdOf(q) THEN now ELSE ids[i]]
  /\ UNCHANGED <<clientVars, notified, now, crashes, added>>

\* handleSend calls PublishWithID, which asks the store first.  An id the
\* store has, however old, is acknowledged with nothing published.
Arrive(q) ==
  /\ request[q] = "flying"
  /\ IF IdOf(q) # NoId /\ ids[IdOf(q)] # Never
     THEN request' = [request EXCEPT ![q] = "ok"]
     ELSE request' = [request EXCEPT ![q] = "exec"]
  /\ UNCHANGED <<clientVars, ids, notified, now, crashes, added>>

Commit(q) == notified' = [notified EXCEPT ![q[1]] = @ + 1]

\* pool.Exec returns nil: the notification is committed.
ExecSucceeds(q) ==
  /\ request[q] = "exec"
  /\ Commit(q)
  /\ request' = [request EXCEPT ![q] = IF IdOf(q) = NoId THEN "ok" ELSE "add"]
  /\ UNCHANGED <<clientVars, ids, now, crashes, added>>

\* pool.Exec returns an error: the statement failed, or its connection was
\* lost or its context cancelled before or after the commit.
ExecFails(q) ==
  /\ request[q] = "exec"
  /\ Commit(q) \/ UNCHANGED notified
  /\ request' = [request EXCEPT ![q] = "error"]
  /\ UNCHANGED <<clientVars, ids, now, crashes, added>>

Known(store) == {i \in AllIds : store[i] # Never}

Without(store, gone) ==
  [i \in AllIds |-> IF i \in gone THEN Never ELSE store[i]]

Purged_Newest(store) ==
  LET newest == {i \in Known(store) :
                   \A k \in Known(store) : store[i] >= store[k]}
  IN  {Without(store, {i}) : i \in newest}

\* What purgeLocked may leave of a store: nothing older than the TTL, then
\* one of the oldest entries less if that is still one too many.  (It is
\* called as soon as the store has one too many.)
Purged(store) ==
  LET fresh  == Without(store, {i \in Known(store) : store[i] < now - IdemTTL})
      oldest == {i \in Known(fresh) :
                   \A k \in Known(fresh) : fresh[i] <= fresh[k]}
  IN  IF Cardinality(Known(fresh)) > IdemMax
      THEN {Without(fresh, {i}) : i \in oldest}
      ELSE {fresh}

\* idemStore.add, then the answer 200.
Add(q) ==
  /\ request[q] = "add"
  /\ LET store == [ids EXCEPT ![IdOf(q)] = now]
     IN  IF Cardinality(Known(store)) > IdemMax
         THEN ids' \in Purged(store)
         ELSE ids' = store
  /\ added' = [added EXCEPT ![IdOf(q)] = now]
  /\ request' = [request EXCEPT ![q] = "ok"]
  /\ UNCHANGED <<clientVars, notified, now, crashes>>

\* The process is restarted: its requests are gone, and its store.
Crash ==
  /\ crashes < MaxCrashes
  /\ crashes' = crashes + 1
  /\ request' = [q \in Requests |->
                   IF request[q] = "none" THEN "none" ELSE "gone"]
  /\ ids' = [i \in AllIds |-> Never]
  /\ added' = [i \in AllIds |-> Never]
  /\ UNCHANGED <<clientVars, notified, now>>

\* A request is lost on its way.
Lose(q) ==
  /\ request[q] = "flying"
  /\ request' = [request EXCEPT ![q] = "gone"]
  /\ UNCHANGED <<clientVars, ids, notified, now, crashes, added>>

Tick ==
  /\ now < MaxTime
  /\ now' = now + 1
  /\ UNCHANGED <<clientVars, request, ids, notified, crashes, added>>

-----------------------------------------------------------------------------

\* What a client does by itself: an attempt ends at the latest with the
\* timeout of the HTTP client (30 s unless WithTimeout changed it), a back-off
\* with its timer.
ClientMoves(s) == Response(s) \/ NoResponse(s) \/ Retry(s)

Next ==
  \/ \E s \in Sends : \/ \E i \in Ids \cup {NoId} : SendWithID(s, i)
                      \/ ClientMoves(s)
                      \/ GiveUp(s)
  \/ \E q \in Requests : \/ Arrive(q) \/ ExecSucceeds(q) \/ ExecFails(q)
                         \/ Add(q) \/ Lose(q)
  \/ Crash
  \/ Tick

Spec == Init /\ [][Next]_vars

\* Nothing is assumed of the server.
FairSpec == Spec /\ \A s \in Sends : WF_vars(ClientMoves(s))

-----------------------------------------------------------------------------
(* Properties.                                                             *)

\* A notification carrying the id i was committed.
Published(i) == \E s \in Sends : id[s] = i /\ notified[s] > 0

\* A send that returned nil was published: itself, or a send with its id.  The
\* id is remembered only after the commit, so that no failed attempt makes a
\* later one be acknowledged as a duplicate.
AckImpliesPublished ==
  \A s \in Sends : client[s] = "ok" =>
    IF id[s] = NoId THEN notified[s] > 0 ELSE Published(id[s])

\* The store never holds more than IdemMax ids, and an id added less than the
\* TTL ago is there as long as no more than IdemMax ids were added as late as
\* it was: a retry within these limits is recognised.
StoreKeepsRecent ==
  /\ Cardinality(Known(ids)) <= IdemMax
  /\ \A i \in Known(added) :
       /\ now - added[i] <= IdemTTL
       /\ Cardinality({k \in Known(added) : added[k] >= added[i]}) <= IdemMax
       => ids[i] = added[i]

\* SendWithID returns.
SendsEnd == \A s \in Sends : (client[s] = "waiting") ~> (client[s] \in {"ok", "failed"})

\* The event of a send is published once at most, however often it is retried.
PublishedOnce == \A s \in Sends : notified[s] <= 1
=============================================================================
