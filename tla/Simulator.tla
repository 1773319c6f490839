----------------------------- MODULE Simulator ------------------------------
(***************************************************************************)
(* The simulator (cmd/simulator/main.go) against the server program of     *)
(* Lifecycle: run, its goroutine that receives and its goroutine that      *)
(* sends.  The client's stream is reduced to where its goroutine stands    *)
(* (Stream has the whole of it), and to its connection.                    *)
(*                                                                         *)
(* Operators named X_Y are faulty variants of X that nothing here uses.    *)
(***************************************************************************)
EXTENDS Lifecycle

CONSTANTS
  Counts,   \* the values of -count considered; 0 is no limit
  MaxSends  \* bound of the model: sends

ASSUME SimulatorAssumption ==
  /\ Counts \subseteq Nat
  /\ MaxSends \in Nat /\ Sends = 1..MaxSends

VARIABLES
  run,       \* where run stands
  ctxDone,   \* ctx is done: the signal, or the end of -duration
  count,     \* cfg.count
  sender,    \* where the goroutine that sends stands
  i,         \* its loop variable
  sent,      \* the sends it has counted
  receiver,  \* the goroutine that receives
  stream     \* the goroutine of the stream

simVars == <<run, ctxDone, count, sender, i, sent, receiver, stream>>
vars == <<lifeVars, simVars>>

TypeOK ==
  /\ LifecycleTypeOK
  /\ run \in {"status", "sleep", "wait", "returned"}
  /\ ctxDone \in BOOLEAN
  /\ count \in Counts
  /\ sender \in {"none", "turn", "select", "send", "ended"}
  /\ i \in 1 .. MaxSends + 1
  /\ sent \subseteq Sends
  /\ receiver \in {"none", "select", "ended"}
  /\ stream \in {"none", "dial", "open", "backoff", "ended"}

Init ==
  /\ LifecycleInit
  /\ run = "status"
  /\ ctxDone = FALSE
  /\ count \in Counts
  /\ sender = "none" /\ receiver = "none" /\ stream = "none"
  /\ i = 1
  /\ sent = {}

-----------------------------------------------------------------------------
(* run.                                                                    *)

\* Status has answered or failed; the stream is opened and the goroutines are
\* started, the one that sends if cfg.send says so.
Begins ==
  /\ run = "status"
  /\ run' = "sleep"
  /\ stream' = "dial"
  /\ receiver' = "select"
  /\ sender' \in {"turn", "ended"}
  /\ UNCHANGED <<lifeVars, ctxDone, count, i, sent>>

\* The sleep, which the goroutines do not wait for.
Wakes ==
  /\ run = "sleep"
  /\ run' = "wait"
  /\ UNCHANGED <<lifeVars, ctxDone, count, sender, i, sent, receiver, stream>>

\* ctx is done and wg.Wait returns.
Returns ==
  /\ run = "wait" /\ ctxDone
  /\ sender = "ended" /\ receiver = "ended"
  /\ run' = "returned"
  /\ UNCHANGED <<lifeVars, ctxDone, count, sender, i, sent, receiver, stream>>

\* The signal, or the timeout of -duration.
Expires ==
  /\ ~ctxDone
  /\ ctxDone' = TRUE
  /\ UNCHANGED <<lifeVars, run, count, sender, i, sent, receiver, stream>>

-----------------------------------------------------------------------------
(* The goroutine that sends.                                               *)

\* cli.Send: a request, which a context already done keeps back.
Posts(n) ==
  /\ n \in Sends
  /\ sender' = "send"
  /\ IF ctxDone THEN UNCHANGED send ELSE Becomes(n, "asked")
  /\ UNCHANGED <<main, startVars, stop, shutdown, pool, pools, db, committed>>

LastTurn == count > 0 /\ i > count

\* The top of the loop: the end, the first send at once, or the select.
Turns ==
  /\ sender = "turn"
  /\ \/ LastTurn /\ sender' = "ended" /\ UNCHANGED lifeVars
     \/ ~LastTurn /\ i = 1 /\ Posts(1)
     \/ ~LastTurn /\ i > 1 /\ sender' = "select" /\ UNCHANGED lifeVars
  /\ UNCHANGED <<run, ctxDone, count, i, sent, receiver, stream>>

\* select: the ticker.
TakesTick ==
  /\ sender = "select"
  /\ Posts(i)
  /\ UNCHANGED <<run, ctxDone, count, i, sent, receiver, stream>>

SenderStops_Never == FALSE

\* select: the context.
SenderStops ==
  /\ sender = "select" /\ ctxDone
  /\ sender' = "ended"
  /\ UNCHANGED <<lifeVars, run, ctxDone, count, i, sent, receiver, stream>>

SendReturns_Counts ==
  /\ sender = "send"
  /\ sender' = "turn"
  /\ i' = i + 1
  /\ sent' = sent \cup {i}
  /\ UNCHANGED <<lifeVars, run, ctxDone, count, receiver, stream>>

\* Send returns: answered, or an error (of the server, or because the context
\* is done or the timeout of the HTTP client over); either way the loop goes on.
SendReturns ==
  /\ sender = "send"
  /\ sent' \in {sent} \cup (IF send[i] = "ok" THEN {sent \cup {i}} ELSE {})
  /\ sender' = "turn"
  /\ i' = i + 1
  /\ UNCHANGED <<lifeVars, run, ctxDone, count, receiver, stream>>

-----------------------------------------------------------------------------
(* The goroutine that receives, and the stream.                            *)

\* ctx is done or events is closed.  (An event or an error is printed.)
ReceiverStops ==
  /\ receiver = "select"
  /\ ctxDone \/ stream = "ended"
  /\ receiver' = "ended"
  /\ UNCHANGED <<lifeVars, run, ctxDone, count, sender, i, sent, stream>>

\* The stream is connected; its connection fails or ends; its back-off ends.
StreamMoves ==
  /\ \/ stream = "dial" /\ Accepting /\ ~ctxDone /\ stream' = "open"
     \/ /\ stream = "dial" => ~Accepting \/ ctxDone
        /\ stream \in {"dial", "open"}
        /\ stream' = IF ctxDone THEN "ended" ELSE "backoff"
     \/ stream = "backoff" /\ stream' = IF ctxDone THEN "ended" ELSE "dial"
  /\ UNCHANGED <<lifeVars, run, ctxDone, count, sender, i, sent, receiver>>

-----------------------------------------------------------------------------

RunMoves == Begins \/ Wakes \/ Returns
SenderMoves == Turns \/ TakesTick \/ SenderStops \/ SendReturns

Next ==
  \/ LifecycleNext /\ UNCHANGED simVars
  \/ /\ run # "returned"
     /\ \/ RunMoves \/ SenderMoves \/ ReceiverStops \/ StreamMoves
        \/ Expires

Spec == Init /\ [][Next]_vars

\* The goroutines of the simulator run when they can; a select with ctx done
\* does not take the ticker for ever.
FairSpec ==
  /\ Spec
  /\ LifecycleFairness
  /\ WF_vars(RunMoves) /\ WF_vars(SenderMoves) /\ SF_vars(SenderStops)
  /\ WF_vars(ReceiverStops)

-----------------------------------------------------------------------------
(* Properties.                                                             *)

\* What the simulator prints at its end is true, whenever either program is
\* stopped: the sends it has counted were published, and never more than
\* -count of them.
TallyIsTrue ==
  /\ sent \subseteq committed
  /\ count > 0 => committed \subseteq 1..count

\* Told to stop, or at the end of its duration, the simulator ends, whatever
\* has become of the server.
SimulatorEnds == ctxDone ~> (run = "returned")
=============================================================================
