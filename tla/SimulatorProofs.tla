-------------------------- MODULE SimulatorProofs ---------------------------
(***************************************************************************)
(* Theorems about Simulator and Lifecycle, for every value of their        *)
(* constants: NoLeakedPool, TallyIsTrue, and TypeOK.                       *)
(*                                                                         *)
(* The argument: the place of main says what became of the pool and that   *)
(* no handler runs before it serves; what a send has come to says whether  *)
(* it was committed.  The delays of the start play no part in it but in    *)
(* TypeOK, where DelaysType bounds them.                                   *)
(***************************************************************************)
EXTENDS Simulator, DataProofs

Types ==
  /\ main \in MainStates
  /\ pool \in {"nil", "open", "closed"}
  /\ send \in [Sends -> SendStates]
  /\ committed \subseteq Sends
  /\ sender \in {"none", "turn", "select", "send", "ended"}
  /\ i \in Nat /\ count \in Nat

\* r.pool is open from the success of Start to Close.
PoolInv ==
  /\ NoLeakedPool
  /\ main \in {"start", "backoff", "close", "exited"} => pool # "open"
  /\ main \in {"ready", "serve", "return"} => pool = "open"

\* A handler runs only once main serves, and not after its end.
HandlersInv ==
  main \in {"start", "backoff", "ready", "exited", "fatal"} =>
    \A n \in Sends : send[n] \notin {"handler", "exec", "executed"}

\* What a send has come to, its number, and the counts.
SendsInv ==
  /\ sent \subseteq committed
  /\ \A n \in Sends :
       /\ send[n] \in {"executed", "ok"} => n \in committed
       /\ n \in committed => send[n] # "none"
       /\ count > 0 /\ send[n] # "none" => n <= count
  /\ sender \in {"select", "send"} /\ count > 0 => i <= count
  /\ sender = "send" => i \in Sends

IInv == Types /\ PoolInv /\ HandlersInv /\ SendsInv

-----------------------------------------------------------------------------

LEMMA InvInit == Init => IInv
<1> SUFFICES ASSUME Init PROVE IInv
  OBVIOUS
<1> USE SimulatorAssumption DEF Init, LifecycleInit
<1>1. Types
  BY DEF Types, MainStates, SendStates
<1>2. PoolInv
  BY DEF PoolInv, NoLeakedPool
<1>3. HandlersInv
  BY DEF HandlersInv
<1>4. SendsInv
  BY DEF SendsInv
<1> QED BY <1>1, <1>2, <1>3, <1>4 DEF IInv

\* A step of main, of the goroutine that waits for the signal, of the signal
\* or of the database, which does not end the process on requests.
LEMMA InvMain ==
  ASSUME IInv, UNCHANGED simVars,
         \/ StartSucceeds \/ StartFails \/ Retry \/ StopsStarting \/ Listens
         \/ ServeReturns \/ ClosesRelay \/ StopMoves \/ Signal \/ DbTurns
  PROVE  IInv'
<1>1. UNCHANGED sendVars /\ UNCHANGED simVars
  BY DEF StartSucceeds, StartFails, Retry, StopsStarting, Listens, ServeReturns,
         ClosesRelay, StopMoves, CancelsServer, ShutsDown, Signal, DbTurns
<1> USE DEF IInv
<1>2. Types'
  BY <1>1 DEF Types, MainStates, sendVars, simVars, StartSucceeds, StartFails, Retry,
              StopsStarting, Listens, ServeReturns, ClosesRelay, StopMoves,
              CancelsServer, ShutsDown, Signal, DbTurns
<1>3. PoolInv'
  BY DEF PoolInv, NoLeakedPool, Types, MainStates, StartSucceeds, StartFails, Retry,
         StopsStarting, Listens, ServeReturns, ClosesRelay, StopMoves,
         CancelsServer, ShutsDown, Signal, DbTurns
<1>4. HandlersInv'
  BY <1>1 DEF HandlersInv, sendVars, StartSucceeds, StartFails, Retry,
              StopsStarting, Listens, ServeReturns, ClosesRelay, StopMoves,
              CancelsServer, ShutsDown, Signal, DbTurns
<1>5. SendsInv'
  BY <1>1 DEF SendsInv, sendVars, simVars
<1> QED BY <1>2, <1>3, <1>4, <1>5

\* The end of the process, which cuts the requests without an answer.
LEMMA InvExits == IInv /\ Exits /\ UNCHANGED simVars => IInv'
<1> SUFFICES ASSUME IInv, Exits, UNCHANGED simVars PROVE IInv'
  OBVIOUS
<1> USE DEF IInv
<1>1. /\ send' \in [Sends -> SendStates]
      /\ \A n \in Sends : send'[n] = IF send[n] \in {"none", "ok"} THEN send[n] ELSE "failed"
  <2>1. \A n \in Sends : send[n] # "exec"
    BY DEF Exits
  <2>2. /\ send' \in [Sends -> SendStates]
        /\ \A n \in Sends : send'[n] = IF send[n] \in {"none", "exec", "ok"}
                                       THEN send[n] ELSE "failed"
    BY DEF Exits, CutSends, Types, SendStates
  <2> QED BY <2>1, <2>2
<1>2. Types'
  BY <1>1 DEF Types, MainStates, Exits, simVars
<1>3. PoolInv'
  BY DEF PoolInv, NoLeakedPool, Exits
<1>4. HandlersInv'
  BY <1>1 DEF HandlersInv
<1>5. SendsInv'
  BY <1>1 DEF SendsInv, Exits, simVars
<1> QED BY <1>2, <1>3, <1>4, <1>5

LEMMA InvHandles ==
  ASSUME NEW n \in Sends, IInv, Handles(n), UNCHANGED simVars
  PROVE  IInv'
<1> USE DEF IInv
<1>1. PICK s \in SendStates \ {"none"} :
        /\ send' = [send EXCEPT ![n] = s]
        /\ s \in {"handler", "exec", "executed"} =>
             main \notin {"start", "backoff", "ready", "exited", "fatal"}
        /\ s \in {"executed", "ok"} => n \in committed'
        /\ send[n] # "none"
  <2>1. CASE Arrives(n)
    BY <2>1 DEF Arrives, Becomes, Accepting, SendStates, Handles
  <2>2. CASE Executes(n)
    BY <2>2 DEF Executes, Becomes, SendStates, HandlersInv, Handles
  <2>3. CASE Executed(n)
    BY <2>3 DEF Executed, Becomes, SendStates, HandlersInv, Handles
  <2>4. CASE Answers(n)
    BY <2>4 DEF Answers, Becomes, SendStates, SendsInv, Handles
  <2> QED BY <2>1, <2>2, <2>3, <2>4 DEF Handles
<1>2. committed' \in {committed, committed \cup {n}}
  BY DEF Handles, Arrives, Executes, Executed, Answers
<1>3. /\ send' \in [Sends -> SendStates]
      /\ send'[n] = s
      /\ \A m \in Sends : m # n => send'[m] = send[m]
  BY <1>1 DEF Types
<1>4. UNCHANGED <<main, pool, pools>>
  BY DEF Handles
<1>5. Types'
  BY <1>2, <1>3, <1>4 DEF Types, simVars
<1>6. PoolInv'
  BY <1>4 DEF PoolInv, NoLeakedPool
<1>7. HandlersInv'
  BY <1>1, <1>3, <1>4 DEF HandlersInv
<1>8. SendsInv'
  BY <1>1, <1>2, <1>3 DEF SendsInv, simVars
<1> QED BY <1>5, <1>6, <1>7, <1>8

\* A step of the simulator, which may make a request.
LEMMA InvSimulator ==
  ASSUME IInv,
         RunMoves \/ SenderMoves \/ ReceiverStops \/ StreamMoves \/ Expires
  PROVE  IInv'
<1> USE DEF IInv
<1>1. UNCHANGED <<main, pool, pools, committed, count>>
  BY DEF RunMoves, Begins, Wakes, Returns, SenderMoves, Turns, Posts, TakesTick,
         SenderStops, SendReturns, ReceiverStops, StreamMoves, Expires, lifeVars, sendVars
<1>2. PoolInv'
  BY <1>1 DEF PoolInv, NoLeakedPool
<1>3. CASE UNCHANGED send
  <2>1. HandlersInv'
    BY <1>1, <1>3 DEF HandlersInv
  <2>2. /\ sender' \in {"none", "turn", "select", "send", "ended"}
        /\ i' \in Nat
        /\ sender' \in {"select", "send"} /\ count > 0 => i' <= count
        /\ sender' = "send" => i' \in Sends
        /\ sent' \subseteq committed
    <3>1. CASE RunMoves \/ ReceiverStops \/ StreamMoves \/ Expires
      BY <3>1 DEF RunMoves, Begins, Wakes, Returns, ReceiverStops, StreamMoves,
                  Expires, Types, SendsInv
    <3>2. CASE Turns
      BY <3>2 DEF Turns, Posts, LastTurn, Types, SendsInv
    <3>3. CASE TakesTick \/ SenderStops
      BY <3>3 DEF TakesTick, SenderStops, Posts, Types, SendsInv
    <3>4. CASE SendReturns
      <4>1. sent' = sent \/ (send[i] = "ok" /\ sent' = sent \cup {i})
        BY <3>4 DEF SendReturns
      <4>2. sent' \subseteq committed
        BY <3>4, <4>1 DEF SendReturns, SendsInv
      <4> QED BY <3>4, <4>2 DEF SendReturns, Types
    <3> QED BY <3>1, <3>2, <3>3, <3>4 DEF SenderMoves
  <2>3. Types'
    BY <1>1, <1>3, <2>2 DEF Types
  <2>4. SendsInv'
    BY <1>1, <1>3, <2>2 DEF SendsInv
  <2> QED BY <1>2, <2>1, <2>3, <2>4
<1>4. CASE send' # send
  <2>1. /\ i \in Sends
        /\ send' = [send EXCEPT ![i] = "asked"]
        /\ sender' = "send" /\ UNCHANGED <<i, sent>>
        /\ count > 0 => i <= count
    BY <1>4 DEF RunMoves, Begins, Wakes, Returns, SenderMoves, Turns, Posts, Becomes,
                TakesTick, SenderStops, SendReturns, ReceiverStops, StreamMoves, Expires,
                lifeVars, sendVars, LastTurn, SendsInv, Types
  <2>2. /\ send' \in [Sends -> SendStates]
        /\ send'[i] = "asked"
        /\ \A m \in Sends : m # i => send'[m] = send[m]
    BY <2>1 DEF Types, SendStates
  <2>3. Types'
    BY <1>1, <2>1, <2>2 DEF Types
  <2>4. HandlersInv'
    BY <1>1, <2>2 DEF HandlersInv
  <2>5. SendsInv'
    BY <1>1, <2>1, <2>2 DEF SendsInv
  <2> QED BY <1>2, <2>3, <2>4, <2>5
<1> QED BY <1>3, <1>4

LEMMA InvNext == IInv /\ [Next]_vars => IInv'
<1> SUFFICES ASSUME IInv, [Next]_vars PROVE IInv'
  OBVIOUS
<1>1. CASE LifecycleNext /\ UNCHANGED simVars
  BY <1>1, InvMain, InvExits, InvHandles DEF LifecycleNext, MainMoves
<1>2. CASE RunMoves \/ SenderMoves \/ ReceiverStops \/ StreamMoves \/ Expires
  BY <1>2, InvSimulator
<1>3. CASE UNCHANGED vars
  BY <1>3 DEF vars, lifeVars, simVars, sendVars, IInv, Types, PoolInv, NoLeakedPool,
              HandlersInv, SendsInv
<1> QED BY <1>1, <1>2, <1>3 DEF Next

\* The invariant holds in every reachable state.
THEOREM Invariance == Spec => []IInv
<1> QED BY InvInit, InvNext, PTL DEF Spec

-----------------------------------------------------------------------------

\* The place of main and what a send has come to are in IInv; what is left is
\* typed step by step, a delay of the start by DelaysType.
LEMMA TypeStep == IInv /\ TypeOK /\ [Next]_vars => TypeOK'
<1> SUFFICES ASSUME IInv, TypeOK, [Next]_vars, IInv' PROVE TypeOK'
  BY InvNext
<1>1. /\ Types' /\ pools' \in {0, 1}
      /\ main' \in MainStates /\ send' \in [Sends -> SendStates]
      /\ sent' \subseteq Sends
  BY DEF IInv, Types, PoolInv, NoLeakedPool, SendsInv
<1>2. attempt' \in 0..MaxAttempt /\ delay' \in 0..StartMax
  <2>1. CASE UNCHANGED startVars
    BY <2>1 DEF startVars, TypeOK, LifecycleTypeOK
  <2>2. CASE StartFails
    <3>1. attempt \in Int /\ StartBase \in Nat \ {0} /\ StartMax \in Nat \ {0}
      BY LifecycleAssumption DEF TypeOK, LifecycleTypeOK
    <3>2. delay' \in Delays(attempt, StartBase, StartMax)
      BY <2>2 DEF StartFails, StartDelays
    <3>3. delay' \in 1..StartMax
      BY <3>1, <3>2, DelaysType
    <3> QED BY <2>2, <3>1, <3>3 DEF StartFails, TypeOK, LifecycleTypeOK
  <2>3. CASE StartSucceeds \/ Retry \/ StopsStarting
    BY <2>3, LifecycleAssumption
       DEF StartSucceeds, Retry, StopsStarting, Least, TypeOK, LifecycleTypeOK
  <2>4. UNCHANGED startVars \/ StartFails \/ StartSucceeds \/ Retry \/ StopsStarting
    <3>1. CASE LifecycleNext
      BY <3>1 DEF startVars, LifecycleNext, MainMoves, StopMoves, Signal, DbTurns, Handles,
                  CancelsServer, ShutsDown, Listens, ServeReturns, ClosesRelay, Exits
    <3>2. CASE RunMoves \/ SenderMoves \/ ReceiverStops \/ StreamMoves \/ Expires
      BY <3>2 DEF startVars, lifeVars, RunMoves, Begins, Wakes, Returns, SenderMoves,
                  Turns, Posts, TakesTick, SenderStops, SendReturns, ReceiverStops,
                  StreamMoves, Expires
    <3>3. CASE UNCHANGED vars
      BY <3>3 DEF vars, lifeVars
    <3> QED BY <3>1, <3>2, <3>3 DEF Next
  <2> QED BY <2>1, <2>2, <2>3, <2>4
<1>3. stop' \in BOOLEAN /\ shutdown' \in {"none", "cancelled", "begun"} /\ db' \in BOOLEAN
  BY DEF startVars, Next, LifecycleNext, MainMoves, StopMoves, Signal, DbTurns, Handles,
         CancelsServer, ShutsDown, Listens, ServeReturns, ClosesRelay, Exits, vars,
         lifeVars, RunMoves, Begins, Wakes, Returns, SenderMoves, Turns, Posts,
         TakesTick, SenderStops, SendReturns, ReceiverStops, StreamMoves, Expires,
         StartSucceeds, StartFails, Retry, StopsStarting, TypeOK, LifecycleTypeOK
<1>4. /\ run' \in {"status", "sleep", "wait", "returned"}
      /\ ctxDone' \in BOOLEAN /\ count' \in Counts
      /\ receiver' \in {"none", "select", "ended"}
      /\ stream' \in {"none", "dial", "open", "backoff", "ended"}
  BY DEF Next, vars, simVars, RunMoves, Begins, Wakes, Returns, SenderMoves, Turns,
         TakesTick, SenderStops, SendReturns, ReceiverStops, StreamMoves, Expires, TypeOK
<1>5. i' \in 1 .. MaxSends + 1
  <2>1. CASE SendReturns
    BY <2>1, SimulatorAssumption DEF SendReturns, IInv, SendsInv
  <2>2. CASE UNCHANGED i
    BY <2>2 DEF TypeOK
  <2> QED
    BY <2>1, <2>2 DEF Next, vars, simVars, RunMoves, Begins, Wakes, Returns, SenderMoves,
       Turns, TakesTick, SenderStops, ReceiverStops, StreamMoves, Expires
<1> QED BY <1>1, <1>2, <1>3, <1>4, <1>5 DEF TypeOK, LifecycleTypeOK, Types

\* Types of both programs, and the delays of startWithRetry among them.
THEOREM TypeCorrect == Spec => []TypeOK
<1>1. Init => TypeOK
  <2> SUFFICES ASSUME Init PROVE TypeOK
    OBVIOUS
  <2>1. StartMax \in Nat /\ MaxAttempt \in Nat /\ MaxSends \in Nat
    BY LifecycleAssumption, SimulatorAssumption
  <2>2. /\ attempt \in 0..MaxAttempt /\ delay \in 0..StartMax /\ pools \in {0, 1}
        /\ i \in 1 .. MaxSends + 1
    BY <2>1 DEF Init, LifecycleInit
  <2>3. send \in [Sends -> SendStates] /\ committed \subseteq Sends /\ sent \subseteq Sends
    BY DEF Init, LifecycleInit, SendStates
  <2>4. stop \in BOOLEAN /\ db \in BOOLEAN /\ ctxDone \in BOOLEAN
    BY DEF Init, LifecycleInit
  <2>5. LifecycleTypeOK
    BY <2>2, <2>3, <2>4 DEF Init, LifecycleInit, LifecycleTypeOK, MainStates
  <2> QED BY <2>2, <2>3, <2>4, <2>5 DEF Init, TypeOK
<1>2. IInv /\ TypeOK /\ [Next]_vars => TypeOK'
  BY TypeStep
<1> QED BY <1>1, <1>2, Invariance, PTL DEF Spec

\* No failed start and no signal leaves a pool open behind it (Start and Close
\* of the relay, and the deferred call of main).
THEOREM PoolsClosed == Spec => []NoLeakedPool
<1>1. IInv => NoLeakedPool
  BY DEF IInv, PoolInv
<1> QED BY <1>1, Invariance, PTL

\* What the simulator counts as sent was published, and it sends no more than
\* it was asked to.
THEOREM Tallies == Spec => []TallyIsTrue
<1>1. IInv => TallyIsTrue
  <2> SUFFICES ASSUME IInv PROVE TallyIsTrue
    OBVIOUS
  <2>1. \A n \in committed : n \in Sends /\ n \in 1..MaxSends
    BY SimulatorAssumption DEF IInv, Types
  <2>2. count > 0 => \A n \in committed : n \in 1..count
    BY <2>1, SimulatorAssumption DEF IInv, SendsInv, Types
  <2> QED BY <2>2 DEF TallyIsTrue, IInv, SendsInv
<1> QED BY <1>1, Invariance, PTL
=============================================================================
