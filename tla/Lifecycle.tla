----------------------------- MODULE Lifecycle ------------------------------
(***************************************************************************)
(* The server program (cmd/evt2sse/main.go): startWithRetry and the Start  *)
(* of the relay, the signal, ListenAndServe and Shutdown, the deferred     *)
(* Close of the relay, and around them the handlers of the sends, whose    *)
(* statements hold connections of the pool.  The streams the program has   *)
(* open hold nothing: its end cuts them.                                   *)
(*                                                                         *)
(* The database answers or refuses.  (While it hangs, so do the start,     *)
(* where the signal is not looked at, and the end: Close waits for the     *)
(* mutex of the relay, which a connection attempt holds, and for the       *)
(* statements in execution.)                                               *)
(*                                                                         *)
(* Operators named X_Y are faulty variants of X that nothing here uses.    *)
(***************************************************************************)
EXTENDS Backoff

CONSTANTS
  StartBase, StartMax,  \* of backoffDelay (1 s and 30 s)
  MaxAttempt,           \* attempts counted: the delay does not grow after it
  Sends                 \* the requests to send

ASSUME LifecycleAssumption ==
  /\ StartBase \in Nat \ {0} /\ StartMax \in Nat /\ StartBase <= StartMax
  /\ MaxAttempt \in Nat /\ StartBase * 2 ^ MaxAttempt >= StartMax

VARIABLES
  main,       \* where main stands
  attempt,    \* of startWithRetry
  delay,      \* what it waits for
  stop,       \* stop is closed: the signal was received
  shutdown,   \* what the goroutine that waits for stop has done
  pool,       \* r.pool: "nil", "open" or "closed"
  pools,      \* how many pools are not closed
  db,         \* the database accepts connections
  send,       \* [Sends -> SendStates]
  committed   \* history variable: the sends whose statement committed

startVars == <<attempt, delay>>
sendVars  == <<send, committed>>
lifeVars  == <<main, startVars, stop, shutdown, pool, pools, db, sendVars>>

MainStates ==
  {"start", "backoff", "ready", "serve", "return", "close", "exited", "fatal"}

\* A request to send: not made, on its way, in the handler, its statement in
\* execution, executed but not answered, and what its client learns.
SendStates == {"none", "asked", "handler", "exec", "executed", "ok", "failed"}

LifecycleTypeOK ==
  /\ main \in MainStates
  /\ attempt \in 0..MaxAttempt
  /\ delay \in 0..StartMax
  /\ stop \in BOOLEAN
  /\ shutdown \in {"none", "cancelled", "begun"}
  /\ pool \in {"nil", "open", "closed"}
  /\ pools \in {0, 1}
  /\ db \in BOOLEAN
  /\ send \in [Sends -> SendStates]
  /\ committed \subseteq Sends

LifecycleInit ==
  /\ main = "start"
  /\ attempt = 0 /\ delay = 0
  /\ stop = FALSE
  /\ shutdown = "none"
  /\ pool = "nil" /\ pools = 0
  /\ db \in BOOLEAN
  /\ send = [n \in Sends |-> "none"]
  /\ committed = {}

Ended == main \in {"exited", "fatal"}
Accepting == main = "serve" /\ shutdown # "begun"

\* The end of the process cuts the requests that were not answered; it would
\* not end a statement in execution, which the database finishes on its own.
CutSends ==
  send' = [n \in Sends |-> IF send[n] \in {"none", "exec", "ok"} THEN send[n]
                                                               ELSE "failed"]

-----------------------------------------------------------------------------
(* startWithRetry.                                                         *)

\* The pool is created and the default channel listened on.
StartSucceeds ==
  /\ main = "start" /\ db
  /\ main' = "ready"
  /\ attempt' = 0
  /\ pool' = "open" /\ pools' = pools + 1
  /\ UNCHANGED <<delay, stop, shutdown, db, sendVars>>

StartDelays(a) == Delays(a, StartBase, StartMax)

StartFails_LeavesPool ==
  /\ main = "start"
  /\ main' = "backoff"
  /\ delay' \in StartDelays(attempt)
  /\ pool' = "open" /\ pools' = pools + 1
  /\ UNCHANGED <<attempt, stop, shutdown, db, sendVars>>

StartFails_GivesUp ==
  /\ main = "start"
  /\ main' = "exited"
  /\ UNCHANGED <<startVars, stop, shutdown, pool, pools, db, sendVars>>

\* No pool could be made, or the one made is closed again (r.pool remains):
\* the database refuses, or breaks the connection before its LISTEN.
StartFails ==
  /\ main = "start" /\ ~db
  /\ main' = "backoff"
  /\ delay' \in StartDelays(attempt)
  /\ pool' \in {pool, "closed"}
  /\ UNCHANGED <<attempt, stop, shutdown, pools, db, sendVars>>

\* The select: a new attempt, ...
Retry ==
  /\ main = "backoff"
  /\ main' = "start"
  /\ attempt' = Least(attempt + 1, MaxAttempt)
  /\ delay' = 0
  /\ UNCHANGED <<stop, shutdown, pool, pools, db, sendVars>>

StopsStarting_Never == FALSE

\* ... or the signal; the deferred calls of main are not set up yet.
StopsStarting ==
  /\ main = "backoff" /\ stop
  /\ main' = "exited"
  /\ attempt' = 0 /\ delay' = 0
  /\ UNCHANGED <<stop, shutdown, pool, pools, db, sendVars>>

-----------------------------------------------------------------------------
(* Serving, and the end.                                                   *)

\* ListenAndServe; Shutdown may have come first.
Listens ==
  /\ main = "ready"
  /\ main' \in IF shutdown = "begun" THEN {"return"} ELSE {"serve", "fatal"}
  /\ UNCHANGED <<startVars, stop, shutdown, pool, pools, db, sendVars>>

\* The goroutine that waits for stop cancels the context of Start ...
CancelsServer ==
  /\ main \in {"ready", "serve"} /\ stop
  /\ shutdown = "none"
  /\ shutdown' = "cancelled"
  /\ UNCHANGED <<main, startVars, stop, pool, pools, db, sendVars>>

\* ... and calls Shutdown, which takes no new request, and whose wait for the
\* handlers nothing waits for.
ShutsDown ==
  /\ shutdown = "cancelled" /\ ~Ended
  /\ shutdown' = "begun"
  /\ UNCHANGED <<main, startVars, stop, pool, pools, db, sendVars>>

\* ListenAndServe returns ErrServerClosed as soon as Shutdown has begun.
ServeReturns ==
  /\ main = "serve" /\ shutdown = "begun"
  /\ main' = "return"
  /\ UNCHANGED <<startVars, stop, shutdown, pool, pools, db, sendVars>>

\* The deferred Close of the relay: pool.Close refuses new statements ...
ClosesRelay ==
  /\ main = "return"
  /\ main' = "close"
  /\ pool' = "closed"
  /\ UNCHANGED <<startVars, stop, shutdown, pools, db, sendVars>>

\* ... and waits for those in execution; then main returns.
Exits ==
  /\ main = "close"
  /\ \A n \in Sends : send[n] # "exec"
  /\ main' = "exited"
  /\ pools' = pools - 1
  /\ CutSends
  /\ UNCHANGED <<startVars, stop, shutdown, pool, db, committed>>

-----------------------------------------------------------------------------
(* The handlers of the sends.                                              *)

Becomes(n, state) == send' = [send EXCEPT ![n] = state]

\* The request reaches a handler, or nobody listens.
Arrives(n) ==
  /\ send[n] = "asked"
  /\ Becomes(n, IF Accepting THEN "handler" ELSE "failed")
  /\ UNCHANGED committed

\* Exec gets a connection of the pool, or an error once the pool is closed.
Executes(n) ==
  /\ send[n] = "handler"
  /\ Becomes(n, IF pool = "open" THEN "exec" ELSE "failed")
  /\ UNCHANGED committed

\* It returns: done, or an error, whatever became of the statement then.
Executed(n) ==
  /\ send[n] = "exec"
  /\ \/ db /\ Becomes(n, "executed") /\ committed' = committed \cup {n}
     \/ Becomes(n, "failed") /\ committed' \in {committed, committed \cup {n}}

Answers(n) ==
  /\ send[n] = "executed"
  /\ Becomes(n, "ok")
  /\ UNCHANGED committed

Handles(n) ==
  /\ ~Ended
  /\ Arrives(n) \/ Executes(n) \/ Executed(n) \/ Answers(n)
  /\ UNCHANGED <<main, startVars, stop, shutdown, pool, pools, db>>

-----------------------------------------------------------------------------
(* The signal and the database.                                            *)

Signal ==
  /\ ~stop /\ ~Ended
  /\ stop' = TRUE
  /\ UNCHANGED <<main, startVars, shutdown, pool, pools, db, sendVars>>

DbTurns ==
  /\ db' = ~db
  /\ UNCHANGED <<main, startVars, stop, shutdown, pool, pools, sendVars>>

MainMoves ==
  \/ StartSucceeds \/ StartFails \/ Retry \/ StopsStarting
  \/ Listens \/ ServeReturns \/ ClosesRelay \/ Exits

StopMoves == CancelsServer \/ ShutsDown

LifecycleNext ==
  \/ MainMoves \/ StopMoves \/ Signal \/ DbTurns
  \/ \E n \in Sends : Handles(n)

\* Go runs main, the goroutine and the handlers, and a statement returns.
\* With stop closed, the select of startWithRetry finds it ready before its
\* new timer: it cannot go on taking the timer.
LifecycleFairness ==
  /\ WF_lifeVars(MainMoves) /\ WF_lifeVars(StopMoves)
  /\ SF_lifeVars(StopsStarting)
  /\ \A n \in Sends : WF_lifeVars(Handles(n))

-----------------------------------------------------------------------------
(* Properties.                                                             *)

\* However many starts failed and wherever the signal came, at most the pool
\* in use is open, and a main that returns has left none.
NoLeakedPool ==
  /\ pools = IF pool = "open" \/ main = "close" THEN 1 ELSE 0
  /\ main = "exited" => pools = 0

\* Once signalled the program ends, be it in the start, before it listens or
\* while handlers and streams are busy, and whether the database is up or not.
StopEnds == stop ~> Ended

\* The start does not give up: with a database that stays up the program
\* serves, unless it is told to stop or cannot listen on its address.
StartsInTheEnd == <>[]db => <>(stop \/ main \in {"serve", "fatal"})
=============================================================================
