--------------------------- MODULE PipelineProofs ---------------------------
(***************************************************************************)
(* Theorems about Pipeline, for any channels, handlers, connections and    *)
(* capacity of the watcher's channel: type correctness, ChannelOrder,      *)
(* NothingVanishes, the refinement of NotifyFeed, and that what is proved  *)
(* of Relay holds here, where its steps also move notifications.           *)
(*                                                                         *)
(* The argument: on a channel that was never unsubscribed one loop is at   *)
(* work at a time, and one connection is open, though r.mu is not held     *)
(* from the break of a connection to its replacement (SteadyInv).  So no   *)
(* copy of a notification is in two places, and none can overtake another  *)
(* (OrderInv).  Of a channel that was unsubscribed, only the copies one    *)
(* connection brings are apart, and only those one loop takes from one     *)
(* connection are in order: whatever the other loops do, a loop has one    *)
(* copy in hand.                                                           *)
(***************************************************************************)
EXTENDS Pipeline, RelayProofs, SequenceTheorems

-----------------------------------------------------------------------------
(* The pipeline takes no step of the relay's that Relay does not have.     *)

LEMMA RelayTakesStep == [PNext]_pvars => [Next]_vars
<1> SUFFICES ASSUME [PNext]_pvars PROVE [Next]_vars
  OBVIOUS
<1>1. CASE \E ch \in Chans : Commit(ch)
  BY <1>1 DEF Commit
<1>2. CASE \/ \E p \in Posts, n \in Chans : SubscribeCall(p, n)
           \/ \E p \in Deletes, n \in Chans : UnsubscribeCall(p, n)
  <2>1. Posts \subseteq Procs /\ Deletes \subseteq Procs
    BY PipelineAssumption DEF Procs
  <2> QED BY <1>2, <2>1 DEF SubscribeCall, UnsubscribeCall, Next, Environment
<1>3. CASE CloseCall
  BY <1>3 DEF CloseCall, Next, Environment
<1>4. ASSUME NEW p \in Procs, CallMoves(p) PROVE Next
  BY <1>4 DEF CallMoves, Next
<1>5. ASSUME NEW g \in Gens,
             \/ LoopSteps(g) \/ ReceiveCopy(g) \/ DispatchCopy(g)
             \/ ConnectionBreaks(g)
      PROVE  Next
  BY <1>5 DEF LoopSteps, ReceiveCopy, DispatchCopy, ConnectionBreaks, Next,
              Environment, LoopLocks
<1>6. CASE DatabaseTurns
  BY <1>6 DEF DatabaseTurns, Next, Environment
<1>7. CASE StartWatching \/ CancelStart \/ Number \/ Stop
  BY <1>7 DEF StartWatching, CancelStart, Number, Stop
<1>8. CASE UNCHANGED pvars
  BY <1>8 DEF pvars
<1> QED BY <1>1, <1>2, <1>3, <1>4, <1>5, <1>6, <1>7, <1>8 DEF PNext

\* Every behaviour of the pipeline is one of the relay: the goroutines that
\* receive and dispatch are those that connect, break and reconnect.
THEOREM RelayInside == PSpec => Spec
<1>1. PInit => Init
  BY DEF PInit
<1> QED BY <1>1, RelayTakesStep, PTL DEF PSpec, Spec

LEMMA RelayInvariance == PSpec => [](IInv /\ ClosedInv)
<1>1. Init => ClosedInv
  BY DEF Init, ClosedInv
<1>2. IInv /\ [Next]_vars => IInv'
  BY InvNext
<1> QED BY <1>1, <1>2, InvInit, ClosedNext, RelayInside, PTL DEF Spec

-----------------------------------------------------------------------------
(* Channels, their loops and their connections.                            *)

\* What a goroutine has at hand belongs to the channel it works for.
ChanInv ==
  /\ \A o \in Gens : cur[o] # None => chan[cur[o]] = chan[o]
  /\ \A n \in Chans : subs[n] # None => chan[subs[n]] = n
  /\ \A g \in Gens :
       /\ loop[g] = "wait" => chan[held[g]] = chan[g] /\ cur[held[g]] # None
       /\ loop[g] = "waiting" =>
            reads[g] # None /\ reads[g] <= made /\ chan[reads[g]] = chan[g]
       /\ loop[g] = "closeold" => chan[heir[g]] = chan[g]

Active(g) == loop[g] \notin {"none", "ended"}

\* A channel that is not in r.subs was never there.
Unborn(ch) ==
  ~closed /\ subs[ch] = None => \A g \in Gens : g <= made => chan[g] # ch

OneLoop(ch) ==
  \A g, h \in Gens :
    chan[g] = ch /\ chan[h] = ch /\ Active(g) /\ Active(h) => g = h

OneConn(ch) ==
  \A c, d \in Gens :
    chan[c] = ch /\ chan[d] = ch /\ conn[c] = "up" /\ conn[d] = "up" => c = d

\* The connection that is open is the current one, the loop is busy with it,
\* and it is replaced only once it is lost.
Current(ch) ==
  subs[ch] # None => \A g \in Gens : chan[g] = ch =>
    /\ conn[g] = "up" => g = cur[subs[ch]]
    /\ loop[g] = "wait" => held[g] = subs[ch]
    /\ loop[g] = "waiting" => reads[g] = cur[subs[ch]]
    /\ loop[g] \in {"backoff", "reconnect", "connecting"}
         => conn[cur[subs[ch]]] # "up"

Steady(ch) == Unborn(ch) /\ OneLoop(ch) /\ OneConn(ch) /\ Current(ch)

SteadyInv == \A ch \in Chans \ unsubscribed : Steady(ch)

ChannelsInv == ChanInv /\ SteadyInv

\* Steps that at most close or break a connection.
OnlyConns ==
  /\ UNCHANGED <<closed, subs, cur, chan, loop, held, reads, heir, made>>
  /\ \A c \in Gens : conn'[c] = "up" => conn[c] = "up"
  /\ unsubscribed' = unsubscribed

LEMMA ChannelsStill ==
  ASSUME IInv, ChannelsInv, OnlyConns
  PROVE  ChannelsInv'
<1>1. ChanInv'
  BY DEF ChannelsInv, ChanInv, OnlyConns
<1>2. ASSUME NEW ch \in Chans, Steady(ch) PROVE Steady(ch)'
  <2>1. Unborn(ch)' /\ OneLoop(ch)' /\ OneConn(ch)'
    BY <1>2 DEF Steady, OnlyConns, Unborn, OneLoop, OneConn, Active
  <2>2. Current(ch)'
    <3> SUFFICES ASSUME subs[ch] # None, NEW g \in Gens, chan[g] = ch
                 PROVE  /\ conn'[g] = "up" => g = cur[subs[ch]]
                        /\ loop[g] = "wait" => held[g] = subs[ch]
                        /\ loop[g] = "waiting" => reads[g] = cur[subs[ch]]
                        /\ loop[g] \in {"backoff", "reconnect", "connecting"}
                             => conn'[cur[subs[ch]]] # "up"
      BY DEF OnlyConns, Current
    <3>1. cur[subs[ch]] \in Gens
      BY DEF IInv, NameInv, TypeOK
    <3> QED BY <1>2, <3>1 DEF Steady, Current, OnlyConns
  <2> QED BY <2>1, <2>2 DEF Steady
<1> QED BY <1>1, <1>2 DEF ChannelsInv, SteadyInv, OnlyConns

\* Steps of a loop that neither connect nor start another loop.
LoopMove(g, state) ==
  /\ UNCHANGED <<closed, subs, cur, chan, conn, heir, made, unsubscribed>>
  /\ loop[g] \notin {"none", "ended", "closeold"}
  /\ state \in LoopStates \ {"none", "closeold"}
  /\ loop' = [loop EXCEPT ![g] = state]
  /\ \A l \in Gens : l # g => held'[l] = held[l] /\ reads'[l] = reads[l]
  /\ state = "wait" => held'[g] = subs[chan[g]] /\ subs[chan[g]] # None
  /\ state = "waiting" => loop[g] = "wait" /\ reads'[g] = cur[held[g]]
  /\ state = "backoff" =>
       \/ loop[g] = "wait" /\ (conn[cur[held[g]]] = "closed" \/ Busy(cur[held[g]]))
       \/ loop[g] = "waiting" /\ conn[reads[g]] # "up"
  /\ state \in {"reconnect", "connecting"} => loop[g] \in {"backoff", "reconnect"}

LEMMA ChannelsLoopMove ==
  ASSUME IInv, ChannelsInv, NEW g \in Gens, NEW state, LoopMove(g, state)
  PROVE  ChannelsInv'
<1>1. /\ TypeOK /\ FreshInv /\ NameInv /\ LoopInv
      /\ ChanInv
  BY DEF IInv, ChannelsInv
<1>2. /\ UNCHANGED <<closed, subs, cur, chan, conn, heir, made, unsubscribed>>
      /\ loop'[g] = state /\ \A l \in Gens : l # g => loop'[l] = loop[l]
      /\ loop[g] \notin {"none", "ended", "closeold"}
      /\ state \in LoopStates \ {"none", "closeold"}
      /\ \A l \in Gens : l # g => held'[l] = held[l] /\ reads'[l] = reads[l]
  BY <1>1 DEF LoopMove, TypeOK
<1>3. /\ chan[g] \in Chans
      /\ state = "wait" => /\ held'[g] = subs[chan[g]] /\ subs[chan[g]] # None
                           /\ subs[chan[g]] \in Gens
      /\ loop[g] = "wait" => held[g] \in Gens /\ cur[held[g]] \in Gens
      /\ loop[g] = "waiting" => reads[g] \in Gens
  BY <1>1, <1>2 DEF TypeOK, LoopInv, ChanInv, LoopMove
<1>4. ChanInv'
  <2>1. state = "wait" => chan[held'[g]] = chan[g] /\ cur[held'[g]] # None
    BY <1>1, <1>3 DEF ChanInv, NameInv
  <2>2. state = "waiting" =>
          reads'[g] # None /\ reads'[g] <= made /\ chan[reads'[g]] = chan[g]
    BY <1>1, <1>3 DEF ChanInv, FreshInv, LoopMove
  <2> QED BY <1>1, <1>2, <2>1, <2>2 DEF ChanInv
<1>5. ASSUME NEW ch \in Chans, Steady(ch) PROVE Steady(ch)'
  <2>1. Unborn(ch)' /\ OneConn(ch)'
    BY <1>2, <1>5 DEF Steady, Unborn, OneConn
  <2>2. OneLoop(ch)'
    <3>1. \A l \in Gens : Active(l)' => Active(l)
      BY <1>2 DEF Active
    <3> QED BY <1>2, <1>5, <3>1 DEF Steady, OneLoop
  <2>3. ASSUME subs[ch] # None, chan[g] = ch
        PROVE  /\ state = "wait" => held'[g] = subs[ch]
               /\ state = "waiting" => reads'[g] = cur[subs[ch]]
               /\ state \in {"backoff", "reconnect", "connecting"}
                    => conn[cur[subs[ch]]] # "up"
    <3>1. /\ loop[g] = "wait" => held[g] = subs[ch]
          /\ loop[g] = "waiting" => reads[g] = cur[subs[ch]]
          /\ loop[g] \in {"backoff", "reconnect", "connecting"}
               => conn[cur[subs[ch]]] # "up"
      BY <1>5, <2>3 DEF Steady, Current
    <3>2. loop[g] = "wait" => ~Busy(cur[held[g]])
      <4> SUFFICES ASSUME loop[g] = "wait", NEW l \in Gens,
                          loop[l] = "waiting", reads[l] = cur[held[g]]
                   PROVE  FALSE
        BY DEF Busy
      <4>1. chan[l] = ch
        BY <1>1, <1>3, <2>3 DEF ChanInv
      <4>2. l = g
        BY <1>5, <2>3, <4>1 DEF Steady, OneLoop, Active
      <4> QED BY <4>2
    <3> QED BY <1>3, <2>3, <3>1, <3>2 DEF LoopMove
  <2>4. Current(ch)'
    BY <1>2, <1>5, <2>3 DEF Steady, Current
  <2> QED BY <2>1, <2>2, <2>4 DEF Steady
<1> QED BY <1>2, <1>4, <1>5 DEF ChannelsInv, SteadyInv

\* Every step of a loop but a reconnection that succeeds is of this kind.
LEMMA IsLoopMove ==
  ASSUME IInv, NEW g \in Gens, unsubscribed' = unsubscribed,
         \/ Lookup(g) \/ Dispatch(g) \/ Reconnect(g) \/ Wait(g) \/ WaitFails(g)
         \/ Receive(g) \/ Timer(g) \/ BackoffDone(g) \/ ReconnectFails(g)
  PROVE  \E state \in LoopStates :
           /\ LoopMove(g, state)
           /\ ~(Dispatch(g) \/ Receive(g)) =>
                (state = "dispatch" <=> loop[g] = "dispatch")
<1>1. TypeOK /\ LoopInv
  BY DEF IInv
<1> USE DEF LoopMove, GoLoop, End, relayVars, procVars, countVars, LoopStates
<1>2. CASE Lookup(g)
  <2>1. CASE subs[chan[g]] = None
    BY <1>1, <1>2, <2>1 DEF Lookup, TypeOK
  <2>2. CASE subs[chan[g]] # None
    <3>1. LoopMove(g, "wait")
      BY <1>1, <1>2, <2>2 DEF Lookup, TypeOK
    <3> QED BY <1>2, <3>1 DEF Lookup
  <2> QED BY <2>1, <2>2
<1>3. CASE Dispatch(g) \/ Timer(g) \/ BackoffDone(g) \/ ReconnectFails(g)
  BY <1>1, <1>3 DEF Dispatch, Timer, BackoffDone, ReconnectFails, TypeOK
<1>4. CASE Reconnect(g)
  BY <1>1, <1>4 DEF Reconnect, TypeOK
<1>5. CASE Receive(g)
  BY <1>1, <1>5 DEF Receive, TypeOK
<1>6. CASE WaitFails(g)
  BY <1>1, <1>6 DEF WaitFails, WaitError, TypeOK
<1>7. CASE Wait(g)
  <2>1. CASE g \in cancelled
    BY <1>1, <1>7, <2>1 DEF Wait, WaitError, TypeOK
  <2>2. CASE g \notin cancelled /\ (conn[cur[held[g]]] = "closed" \/ Busy(cur[held[g]]))
    BY <1>1, <1>7, <2>2 DEF Wait, WaitError, TypeOK
  <2>3. CASE ~(g \in cancelled \/ conn[cur[held[g]]] = "closed" \/ Busy(cur[held[g]]))
    <3>1. held[g] \in Gens
      BY <1>1, <1>7 DEF Wait, LoopInv, TypeOK
    <3>2. LoopMove(g, "waiting")
      BY <1>1, <1>7, <2>3, <3>1 DEF Wait, TypeOK
    <3> QED BY <1>7, <3>2 DEF Wait
  <2> QED BY <2>1, <2>2, <2>3
<1> QED BY <1>2, <1>3, <1>4, <1>5, <1>6, <1>7

\* UnsubscribeChannel disturbs its channel, and no other; Close leaves none.
LEMMA ChannelsTakeOut ==
  ASSUME IInv, ChannelsInv,
         \/ Close /\ unsubscribed' = unsubscribed
         \/ \E p \in Procs, n \in Chans :
              Unsubscribe(p, n) /\ unsubscribed' = unsubscribed \cup {n}
  PROVE  ChannelsInv'
<1>1. TypeOK /\ ChanInv
  BY DEF IInv, ChannelsInv
<1>2. UNCHANGED <<cur, chan, conn, loop, held, reads, heir, made>>
  BY DEF Close, Unsubscribe, loopVars, countVars
<1>3. /\ \A n \in Chans : subs'[n] # None => subs'[n] = subs[n]
      /\ unsubscribed \subseteq unsubscribed'
      /\ \A n \in Chans \ unsubscribed' :
           closed' \/ (closed' = closed /\ subs'[n] = subs[n])
  BY <1>1 DEF Close, Unsubscribe, TypeOK
<1>4. ChanInv'
  BY <1>1, <1>2, <1>3 DEF ChanInv
<1>5. ASSUME NEW ch \in Chans \ unsubscribed', Steady(ch) PROVE Steady(ch)'
  <2>1. OneLoop(ch)' /\ OneConn(ch)'
    BY <1>2, <1>5 DEF Steady, OneLoop, OneConn, Active
  <2>2. Unborn(ch)'
    BY <1>2, <1>3, <1>5 DEF Steady, Unborn
  <2>3. Current(ch)'
    BY <1>2, <1>3, <1>5 DEF Steady, Current
  <2> QED BY <2>1, <2>2, <2>3 DEF Steady
<1> QED BY <1>3, <1>4, <1>5 DEF ChannelsInv, SteadyInv

\* The channel of a first generation had none.
LEMMA ChannelsSubscribeDone ==
  ASSUME IInv, ClosedInv, ChannelsInv, NEW p \in Procs, SubscribeDone(p),
         unsubscribed' = unsubscribed
  PROVE  ChannelsInv'
<1> DEFINE h == made + 1
           n == arg[p]
<1>1. TypeOK /\ FreshInv /\ NameInv /\ LoopInv /\ HeirInv /\ ChanInv
  BY DEF IInv, ChannelsInv
<1>2. /\ h \in Gens /\ h # None /\ h > made /\ made' = h /\ ~closed
      /\ n \in Chans /\ subs[n] = None
      /\ \A g \in Gens : g <= made' => g <= made \/ g = h
  <2>1. ~closed
    BY DEF ClosedInv, SubscribeDone
  <2>2. n \in Chans /\ subs[n] = None
    BY DEF IInv, LockInv, SubscribeDone
  <2> QED BY <1>1, <2>1, <2>2, RelayAssumption DEF SubscribeDone, TypeOK, Gens, None
<1>3. /\ UNCHANGED <<closed, held, reads, heir>>
      /\ conn' = [conn EXCEPT ![h] = "up"]
      /\ chan' = [chan EXCEPT ![h] = n]
      /\ cur' = [cur EXCEPT ![h] = h]
      /\ subs' = [subs EXCEPT ![n] = h]
      /\ loop' = [loop EXCEPT ![h] = "born"]
  BY DEF SubscribeDone
<1>4. /\ loop[h] = "none" /\ conn[h] = "none"
      /\ cur[h] = None /\ \A o \in Gens : cur[o] # h
      /\ \A m \in Chans : subs[m] # h
  <2>1. h # None /\ ~(h <= made)
    BY <1>1, <1>2 DEF TypeOK, Gens
  <2> QED BY <1>1, <1>2, <2>1 DEF FreshInv, NameInv, TypeOK
<1> HIDE DEF h, n
<1>5. /\ conn'[h] = "up" /\ chan'[h] = n /\ cur'[h] = h /\ loop'[h] = "born"
      /\ \A g \in Gens : g # h => /\ conn'[g] = conn[g] /\ chan'[g] = chan[g]
                                  /\ cur'[g] = cur[g] /\ loop'[g] = loop[g]
      /\ subs'[n] = h /\ \A m \in Chans : m # n => subs'[m] = subs[m]
  BY <1>1, <1>2, <1>3 DEF TypeOK
<1>6. /\ \A g \in Gens : Active(g) => g # h /\ g <= made
      /\ \A g \in Gens : conn[g] = "up" => g # h /\ g <= made
      /\ \A g \in Gens : g # h /\ (Active(g)' \/ conn'[g] = "up") => g <= made
  BY <1>1, <1>2, <1>4, <1>5 DEF FreshInv, Active, TypeOK, Gens
<1>7. ChanInv'
  <2>1. ASSUME NEW o \in Gens, cur'[o] # None PROVE chan'[cur'[o]] = chan'[o]
    <3>1. CASE o = h
      BY <1>5, <3>1
    <3>2. CASE o # h
      <4>1. cur'[o] = cur[o] /\ cur[o] \in Gens /\ cur[o] # h
        BY <1>1, <1>4, <1>5, <2>1, <3>2 DEF TypeOK
      <4> QED BY <1>1, <1>5, <2>1, <3>2, <4>1 DEF ChanInv
    <3> QED BY <3>1, <3>2
  <2>2. ASSUME NEW m \in Chans, subs'[m] # None PROVE chan'[subs'[m]] = m
    <3>1. CASE m = n
      BY <1>5, <3>1
    <3>2. CASE m # n
      <4>1. subs'[m] = subs[m] /\ subs[m] \in Gens /\ subs[m] # h
        BY <1>1, <1>4, <1>5, <2>2, <3>2 DEF TypeOK
      <4> QED BY <1>1, <1>5, <2>2, <4>1 DEF ChanInv
    <3> QED BY <3>1, <3>2
  <2>3. ASSUME NEW g \in Gens, g # h
        PROVE  /\ loop'[g] = "wait" => chan'[held[g]] = chan'[g] /\ cur'[held[g]] # None
               /\ loop'[g] = "waiting" => /\ reads[g] # None /\ reads[g] <= made'
                                          /\ chan'[reads[g]] = chan'[g]
               /\ loop'[g] = "closeold" => chan'[heir[g]] = chan'[g]
    <3>1. loop'[g] = loop[g] /\ chan'[g] = chan[g]
      BY <1>5, <2>3
    <3>2. loop[g] = "wait" => held[g] \in Gens /\ held[g] # h /\ cur[held[g]] # None
      BY <1>1, <1>4 DEF LoopInv, ChanInv, TypeOK
    <3>3. loop[g] = "waiting" => reads[g] \in Gens /\ reads[g] # h /\ reads[g] <= made'
      BY <1>1, <1>2 DEF ChanInv, TypeOK, Gens
    <3>4. loop[g] = "closeold" => heir[g] \in Gens /\ heir[g] # h
      BY <1>1, <1>2 DEF HeirInv, TypeOK, Gens
    <3> QED BY <1>1, <1>5, <3>1, <3>2, <3>3, <3>4 DEF ChanInv
  <2> QED BY <1>3, <1>5, <2>1, <2>2, <2>3 DEF ChanInv
<1>8. ASSUME NEW ch \in Chans, Steady(ch) PROVE Steady(ch)'
  <2>1. ch = n => \A g \in Gens : g <= made => chan[g] # ch
    BY <1>2, <1>8 DEF Steady, Unborn
  <2>2. Unborn(ch)'
    BY <1>2, <1>3, <1>5, <1>8 DEF Steady, Unborn
  <2>3. ASSUME NEW g \in Gens, chan'[g] = ch, g # h
        PROVE  /\ chan[g] = ch
               /\ Active(g)' => Active(g) /\ ch # n
               /\ conn'[g] = "up" => conn[g] = "up" /\ ch # n
               /\ loop'[g] = loop[g] /\ conn'[g] = conn[g]
    BY <1>5, <1>6, <2>1, <2>3 DEF Active
  <2>4. OneLoop(ch)'
    BY <1>5, <1>8, <2>3 DEF Steady, OneLoop
  <2>5. OneConn(ch)'
    BY <1>5, <1>8, <2>3 DEF Steady, OneConn
  <2>6. Current(ch)'
    <3>1. CASE ch = n
      <4> SUFFICES ASSUME NEW g \in Gens, chan'[g] = ch, g # h
                   PROVE  ~Active(g)' /\ conn'[g] # "up"
        BY <1>5, <3>1 DEF Current, Active
      <4> QED BY <2>3, <3>1
    <3>2. CASE ch # n
      <4>1. subs'[ch] = subs[ch]
        BY <1>5, <3>2
      <4>2. subs[ch] # None => /\ subs[ch] \in Gens /\ cur[subs[ch]] \in Gens
                               /\ subs[ch] # h /\ cur[subs[ch]] # h
        BY <1>1, <1>4 DEF NameInv, TypeOK
      <4>3. \A g \in Gens : chan'[g] = ch => g # h
        BY <1>5, <3>2
      <4> QED BY <1>3, <1>5, <1>8, <2>3, <4>1, <4>2, <4>3 DEF Steady, Current
    <3> QED BY <3>1, <3>2
  <2> QED BY <2>2, <2>4, <2>5, <2>6 DEF Steady
<1> QED BY <1>7, <1>8 DEF ChannelsInv, SteadyInv

\* A reconnection replaces a connection that is lost.
LEMMA ChannelsReconnectDone ==
  ASSUME IInv, ChannelsInv, NEW g \in Gens, ReconnectDone(g),
         unsubscribed' = unsubscribed
  PROVE  ChannelsInv'
<1> DEFINE h == made + 1
           n == chan[g]
           o == subs[n]
<1>1. TypeOK /\ FreshInv /\ NameInv /\ LoopInv /\ HeirInv /\ ChanInv
  BY DEF IInv, ChannelsInv
<1>2. /\ h \in Gens /\ h # None /\ ~(h <= made) /\ made' = h
      /\ \A l \in Gens : l <= made => l <= made' /\ l # h
      /\ \A l \in Gens : l <= made' => l <= made \/ l = h
  BY <1>1, RelayAssumption DEF ReconnectDone, TypeOK, Gens, None
<1>3. /\ loop[g] = "connecting" /\ n \in Chans /\ o \in Gens /\ o # None
      /\ cur[o] \in Gens /\ cur[o] # None
      /\ cur[o] <= made /\ o <= made /\ chan[o] = n /\ g # h
  <2>1. loop[g] = "connecting" /\ n \in Chans /\ o \in Gens /\ o # None
    BY <1>1 DEF IInv, ReconnectDone, LockInv, LoopInv, TypeOK
  <2>2. g # h
    BY <1>1, <1>2, <2>1 DEF FreshInv, TypeOK, Gens
  <2> QED BY <1>1, <2>1, <2>2 DEF NameInv, FreshInv, TypeOK, ChanInv
<1>4. /\ UNCHANGED <<closed, subs, held, reads>>
      /\ heir' = [heir EXCEPT ![g] = h]
      /\ cur' = [cur EXCEPT ![o] = h]
      /\ conn' = [conn EXCEPT ![h] = "up"]
      /\ chan' = [chan EXCEPT ![h] = n]
      /\ loop' = [loop EXCEPT ![g] = "closeold"]
  BY DEF ReconnectDone, GoLoop
<1>5. /\ loop[h] = "none" /\ conn[h] = "none"
      /\ \A q \in Gens : cur[q] # h
      /\ \A m \in Chans : subs[m] # h
  BY <1>1, <1>2 DEF FreshInv, NameInv, TypeOK, Gens
<1>6. \A m \in Chans : m # n /\ subs[m] # None => subs[m] # o
  BY <1>1, <1>3 DEF ChanInv
<1> HIDE DEF h, n, o
<1>7. /\ cur'[o] = h /\ \A q \in Gens : q # o => cur'[q] = cur[q]
      /\ conn'[h] = "up" /\ \A l \in Gens : l # h => conn'[l] = conn[l]
      /\ chan'[h] = n /\ \A l \in Gens : l # h => chan'[l] = chan[l]
      /\ heir'[g] = h /\ loop'[g] = "closeold"
      /\ \A l \in Gens : l # g => heir'[l] = heir[l] /\ loop'[l] = loop[l]
  BY <1>1, <1>2, <1>3, <1>4 DEF TypeOK
<1>8. /\ \A l \in Gens : Active(l) => l # h
      /\ \A l \in Gens : Active(l)' => Active(l)
      /\ \A l \in Gens : conn[l] = "up" => l # h
  BY <1>3, <1>5, <1>7 DEF Active
<1>9. ChanInv'
  <2>1. ASSUME NEW q \in Gens, cur'[q] # None PROVE chan'[cur'[q]] = chan'[q]
    <3>1. CASE q = o
      BY <1>2, <1>3, <1>7, <3>1
    <3>2. CASE q # o
      <4>1. cur'[q] = cur[q] /\ cur[q] \in Gens /\ cur[q] # h /\ q # h
        BY <1>1, <1>2, <1>5, <1>7, <2>1, <3>2 DEF TypeOK, FreshInv
      <4> QED BY <1>1, <1>7, <2>1, <3>2, <4>1 DEF ChanInv
    <3> QED BY <3>1, <3>2
  <2>2. ASSUME NEW m \in Chans, subs[m] # None PROVE chan'[subs[m]] = m
    <3>1. subs[m] \in Gens /\ subs[m] # h
      BY <1>1, <1>5, <2>2 DEF TypeOK
    <3> QED BY <1>1, <1>7, <2>2, <3>1 DEF ChanInv
  <2>3. ASSUME NEW l \in Gens
        PROVE  /\ loop'[l] = "wait" => chan'[held[l]] = chan'[l] /\ cur'[held[l]] # None
               /\ loop'[l] = "waiting" => /\ reads[l] # None /\ reads[l] <= made'
                                          /\ chan'[reads[l]] = chan'[l]
               /\ loop'[l] = "closeold" => chan'[heir'[l]] = chan'[l]
    <3>1. CASE l = g
      BY <1>3, <1>7, <3>1 DEF n
    <3>2. CASE l = h
      BY <1>3, <1>5, <1>7, <3>2
    <3>3. CASE l # g /\ l # h
      <4>1. loop'[l] = loop[l] /\ chan'[l] = chan[l] /\ heir'[l] = heir[l]
        BY <1>7, <3>3
      <4>2. loop[l] = "wait" =>
              /\ held[l] \in Gens /\ held[l] # h /\ cur'[held[l]] # None
              /\ chan[held[l]] = chan[l]
        BY <1>1, <1>2, <1>7 DEF LoopInv, ChanInv, FreshInv, TypeOK
      <4>3. loop[l] = "waiting" => /\ reads[l] \in Gens /\ reads[l] # h
                                   /\ reads[l] <= made' /\ reads[l] # None
                                   /\ chan[reads[l]] = chan[l]
        BY <1>1, <1>2 DEF ChanInv, TypeOK
      <4>4. loop[l] = "closeold" => heir[l] \in Gens /\ heir[l] # h /\ chan[heir[l]] = chan[l]
        BY <1>1, <1>2 DEF HeirInv, ChanInv, TypeOK
      <4> QED BY <1>7, <4>1, <4>2, <4>3, <4>4
    <3> QED BY <3>1, <3>2, <3>3
  <2> QED BY <1>4, <2>1, <2>2, <2>3 DEF ChanInv
<1>10. ASSUME NEW ch \in Chans, Steady(ch) PROVE Steady(ch)'
  <2>1. Unborn(ch)'
    <3>1. CASE ch = n
      BY <1>3, <1>4, <3>1 DEF Unborn, o
    <3>2. CASE ch # n
      BY <1>2, <1>4, <1>7, <1>10, <3>2 DEF Steady, Unborn
    <3> QED BY <3>1, <3>2
  <2>2. OneLoop(ch)'
    BY <1>7, <1>8, <1>10 DEF Steady, OneLoop
  <2>3. ch = n => \A l \in Gens : chan[l] = ch => conn[l] # "up"
    <3> SUFFICES ASSUME ch = n, NEW l \in Gens, chan[l] = ch, conn[l] = "up"
                 PROVE  FALSE
      OBVIOUS
    <3>1. subs[ch] # None /\ chan[g] = ch /\ loop[g] = "connecting"
      BY <1>3 DEF n, o
    <3> QED BY <1>10, <3>1 DEF Steady, Current
  <2>4. ASSUME NEW l \in Gens, chan'[l] = ch, l # h
        PROVE  /\ chan[l] = ch
               /\ conn'[l] = conn[l]
               /\ conn'[l] = "up" => ch # n
    BY <1>7, <2>3, <2>4
  <2>5. OneConn(ch)'
    BY <1>7, <1>10, <2>4 DEF Steady, OneConn
  <2>6. Current(ch)'
    <3>1. CASE ch = n
      <4>1. ASSUME NEW l \in Gens, chan'[l] = ch, l # g PROVE ~Active(l)'
        <5>1. CASE l = h
          BY <1>3, <1>5, <1>7, <5>1 DEF Active
        <5>2. CASE l # h
          <6>1. chan[l] = ch /\ chan[g] = ch /\ Active(g)
            BY <1>3, <2>4, <3>1, <4>1, <5>2 DEF Active, n
          <6> QED BY <1>8, <1>10, <4>1, <6>1 DEF Steady, OneLoop
        <5> QED BY <5>1, <5>2
      <4>2. ASSUME NEW l \in Gens, chan'[l] = ch, conn'[l] = "up" PROVE l = h
        BY <2>4, <3>1, <4>2
      <4>3. cur'[subs[ch]] = h
        BY <1>7, <3>1 DEF o
      <4> QED BY <1>4, <1>7, <4>1, <4>2, <4>3 DEF Current, Active
    <3>2. CASE ch # n
      <4>1. subs[ch] # None => /\ subs[ch] \in Gens /\ cur'[subs[ch]] = cur[subs[ch]]
                               /\ cur[subs[ch]] \in Gens /\ cur[subs[ch]] # h
        BY <1>1, <1>5, <1>6, <1>7, <3>2 DEF NameInv, TypeOK
      <4>2. \A l \in Gens : chan'[l] = ch => l # h /\ chan[l] = ch /\ l # g
        BY <1>7, <3>2 DEF n
      <4> QED BY <1>4, <1>7, <1>10, <2>4, <4>1, <4>2 DEF Steady, Current
    <3> QED BY <3>1, <3>2
  <2> QED BY <2>1, <2>2, <2>5, <2>6 DEF Steady
<1> QED BY <1>9, <1>10 DEF ChannelsInv, SteadyInv

\* The loop that reconnected returns as its heir's starts.
LEMMA ChannelsCloseOld ==
  ASSUME IInv, ChannelsInv, NEW g \in Gens, CloseOld(g),
         unsubscribed' = unsubscribed
  PROVE  ChannelsInv'
<1> DEFINE h == heir[g]
<1>1. TypeOK /\ NameInv /\ LoopInv /\ HeirInv /\ ChanInv
  BY DEF IInv, ChannelsInv
<1>2. /\ loop[g] = "closeold" /\ h \in Gens /\ loop[h] = "none" /\ h # g
      /\ chan[h] = chan[g]
      /\ \A l \in Gens : loop[l] = "closeold" => heir[l] \in Gens
  BY <1>1 DEF CloseOld, HeirInv, ChanInv, TypeOK
<1>3. /\ UNCHANGED <<closed, subs, cur, chan, held, reads, made>>
      /\ loop' = [loop EXCEPT ![g] = "ended", ![h] = "born"]
      /\ conn' = [conn EXCEPT ![old[g]] = "closed"]
      /\ heir' = [heir EXCEPT ![g] = None]
  BY DEF CloseOld, countVars
<1> HIDE DEF h
<1>4. /\ loop'[g] = "ended" /\ loop'[h] = "born"
      /\ \A l \in Gens : l # g /\ l # h => loop'[l] = loop[l]
      /\ \A l \in Gens : l # g => heir'[l] = heir[l]
      /\ \A c \in Gens : conn'[c] = "up" => conn[c] = "up"
  BY <1>1, <1>2, <1>3 DEF TypeOK
<1>5. \A l \in Gens : loop'[l] \notin {"ended", "born"} =>
        loop'[l] = loop[l] /\ heir'[l] = heir[l]
  BY <1>4
<1>6. ChanInv'
  <2>1. \A l \in Gens :
          /\ loop'[l] = "wait" => chan[held[l]] = chan[l] /\ cur[held[l]] # None
          /\ loop'[l] = "waiting" =>
               reads[l] # None /\ reads[l] <= made /\ chan[reads[l]] = chan[l]
          /\ loop'[l] = "closeold" => chan[heir'[l]] = chan[l]
    BY <1>1, <1>5 DEF ChanInv
  <2> QED BY <1>1, <1>3, <2>1 DEF ChanInv
<1>7. ASSUME NEW ch \in Chans, Steady(ch) PROVE Steady(ch)'
  <2>1. Unborn(ch)' /\ OneConn(ch)'
    BY <1>3, <1>4, <1>7 DEF Steady, Unborn, OneConn
  <2>2. OneLoop(ch)'
    <3>1. ASSUME NEW l \in Gens, Active(l)', l # h PROVE l # g /\ Active(l)
      BY <1>4, <3>1 DEF Active
    <3>2. Active(g)
      BY <1>2 DEF Active
    <3>3. ASSUME NEW l \in Gens, chan[l] = ch, Active(l)', chan[g] = ch PROVE l = h
      BY <1>7, <3>1, <3>2, <3>3 DEF Steady, OneLoop
    <3> QED BY <1>2, <1>3, <1>7, <3>1, <3>3 DEF Steady, OneLoop
  <2>3. subs[ch] # None => cur[subs[ch]] \in Gens
    BY <1>1 DEF NameInv, TypeOK
  <2>4. Current(ch)'
    <3>1. ASSUME subs[ch] # None, NEW l \in Gens, chan[l] = ch
          PROVE  /\ conn'[l] = "up" => l = cur[subs[ch]]
                 /\ loop'[l] = "wait" => held[l] = subs[ch]
                 /\ loop'[l] = "waiting" => reads[l] = cur[subs[ch]]
                 /\ loop'[l] \in {"backoff", "reconnect", "connecting"}
                      => conn'[cur[subs[ch]]] # "up"
      BY <1>4, <1>5, <1>7, <2>3, <3>1 DEF Steady, Current
    <3> QED BY <1>3, <3>1 DEF Current
  <2> QED BY <2>1, <2>2, <2>4 DEF Steady
<1> QED BY <1>6, <1>7 DEF ChannelsInv, SteadyInv

\* All together: the steps of the pipeline.
LEMMA ChannelsInit == PInit => ChannelsInv
<1> SUFFICES ASSUME PInit PROVE ChannelsInv
  OBVIOUS
<1>1. /\ \A g \in Gens : loop[g] = "none" /\ conn[g] = "none" /\ cur[g] = None
      /\ \A n \in Chans : subs[n] = None
      /\ made = 0 /\ \A g \in Gens : ~(g <= 0)
  BY RelayAssumption DEF PInit, Init, Gens
<1>2. ChanInv
  BY <1>1 DEF ChanInv
<1>3. ASSUME NEW ch \in Chans PROVE Steady(ch)
  BY <1>1 DEF Steady, Unborn, OneLoop, OneConn, Current, Active
<1> QED BY <1>2, <1>3 DEF ChannelsInv, SteadyInv

\* A relay's step that is no Receive and no Dispatch, as the copies see it.
Quiet ==
  /\ LinesFollow
  /\ \A g \in Gens : loop'[g] = "dispatch" <=> loop[g] = "dispatch"
  /\ \A g \in Gens : g <= made => chan'[g] = chan[g]
  /\ unsubscribed \subseteq unsubscribed' /\ unsubscribed' \subseteq Chans
  /\ troubles' \in 0..MaxTroubles

\* The steps of a goroutine that works for a call.
LEMMA CallSteps ==
  ASSUME IInv, ClosedInv, ChannelsInv, PTypeOK, NEW p \in Procs,
         \/ CallMoves(p)
         \/ \E n \in Chans : SubscribeCall(p, n)
         \/ \E n \in Chans : UnsubscribeCall(p, n)
         \/ CloseCall
  PROVE  ChannelsInv' /\ Quiet
<1>1. TypeOK /\ FreshInv
  BY DEF IInv
<1>2. unsubscribed \subseteq Chans /\ troubles \in 0..MaxTroubles
  BY DEF PTypeOK
<1> USE DEF relayVars, loopVars, procVars, countVars, pastVars
<1>3. ASSUME UNCHANGED <<closed, subs, cur, chan, loop, held, reads, heir, made>>,
             \A c \in Gens : conn'[c] = "up" => conn[c] = "up",
             LinesFollow, UNCHANGED pastVars
      PROVE  ChannelsInv' /\ Quiet
  BY <1>2, <1>3, ChannelsStill DEF OnlyConns, Quiet
<1>4. ASSUME NEW n \in Chans, SubscribeCall(p, n) PROVE ChannelsInv' /\ Quiet
  BY <1>3, <1>4 DEF SubscribeCall, Subscribe
<1>5. ASSUME NEW n \in Chans, UnsubscribeCall(p, n) PROVE ChannelsInv' /\ Quiet
  <2>1. troubles + 1 \in 0..MaxTroubles
    BY <1>2, <1>5, PipelineAssumption DEF UnsubscribeCall
  <2>2. Quiet
    BY <1>2, <1>5, <2>1 DEF UnsubscribeCall, Unsubscribe, Quiet
  <2> QED BY <1>5, <2>2, ChannelsTakeOut DEF UnsubscribeCall
<1>6. ASSUME CloseCall PROVE ChannelsInv' /\ Quiet
  <2>1. Quiet
    BY <1>2, <1>6 DEF CloseCall, Close, Quiet
  <2> QED BY <1>6, <2>1, ChannelsTakeOut DEF CloseCall
<1>7. ASSUME CallMoves(p) PROVE ChannelsInv' /\ Quiet
  <2>1. LinesFollow /\ UNCHANGED pastVars /\ ProcMoves(p)
    BY <1>7 DEF CallMoves
  <2>2. CASE SubscribeDone(p)
    <3>1. Quiet
      <4>1. made + 1 \in Gens /\ loop[made + 1] = "none"
        BY <1>1, <2>2, RelayAssumption DEF SubscribeDone, FreshInv, TypeOK, Gens
      <4>2. \A g \in Gens : loop'[g] = "dispatch" <=> loop[g] = "dispatch"
        BY <1>1, <2>2, <4>1 DEF SubscribeDone, TypeOK
      <4>3. \A g \in Gens : g <= made => chan'[g] = chan[g]
        BY <1>1, <2>2, <4>1 DEF SubscribeDone, TypeOK, Gens
      <4> QED BY <1>2, <2>1, <4>2, <4>3 DEF Quiet
    <3> QED BY <2>1, <2>2, <3>1, ChannelsSubscribeDone
  <2>3. CASE SubscribeFails(p) \/ TeardownDone(p) \/ Answer(p)
    <3>1. UNCHANGED <<closed, subs, cur, chan, conn, loop, held, reads, heir, made>>
      BY <2>3 DEF SubscribeFails, TeardownDone, Answer
    <3> QED BY <1>3, <2>1, <3>1
  <2>4. ASSUME NEW o \in toClose[p], Cancel(p, o) \/ CloseConn(p, o)
        PROVE  ChannelsInv' /\ Quiet
    <3>1. \A c \in Gens : conn'[c] = "up" => conn[c] = "up"
      BY <1>1, <2>4 DEF Cancel, CloseConn, TypeOK
    <3> QED BY <1>3, <2>1, <2>4, <3>1 DEF Cancel, CloseConn
  <2> QED BY <2>1, <2>2, <2>3, <2>4 DEF ProcMoves
<1> QED BY <1>4, <1>5, <1>6, <1>7

\* The steps of a loop, and of what is outside.
LEMMA LoopAndOutside ==
  ASSUME IInv, ClosedInv, ChannelsInv, PTypeOK,
         DatabaseTurns \/ \E g \in Gens : LoopSteps(g) \/ ConnectionBreaks(g)
  PROVE  ChannelsInv' /\ Quiet
<1>1. TypeOK /\ FreshInv /\ HeirInv
  BY DEF IInv
<1>2. unsubscribed \subseteq Chans /\ troubles \in 0..MaxTroubles
  BY DEF PTypeOK
<1> USE DEF relayVars, loopVars, procVars, countVars, pastVars
<1>3. ASSUME DatabaseTurns PROVE ChannelsInv' /\ Quiet
  BY <1>2, <1>3, ChannelsStill DEF DatabaseTurns, DbTurns, OnlyConns, Quiet
<1>4. ASSUME NEW g \in Gens, ConnectionBreaks(g) PROVE ChannelsInv' /\ Quiet
  <2>1. troubles + 1 \in 0..MaxTroubles
    BY <1>2, <1>4, PipelineAssumption DEF ConnectionBreaks
  <2>2. \A c \in Gens : conn'[c] = "up" => conn[c] = "up"
    BY <1>1, <1>4 DEF ConnectionBreaks, Break, TypeOK
  <2> QED BY <1>2, <1>4, <2>1, <2>2, ChannelsStill
          DEF ConnectionBreaks, Break, OnlyConns, Quiet
<1>5. ASSUME NEW g \in Gens, LoopSteps(g) PROVE ChannelsInv' /\ Quiet
  <2>1. LinesFollow /\ UNCHANGED pastVars /\ (Lookup(g) \/ Reconnect(g) \/ LoopMoves(g))
    BY <1>5 DEF LoopSteps
  <2>2. CASE ReconnectDone(g)
    <3>1. made + 1 \in Gens /\ \A l \in Gens : l <= made => l # made + 1
      BY <1>1, <2>2, RelayAssumption DEF ReconnectDone, TypeOK, Gens
    <3>2. \A l \in Gens : l <= made => chan'[l] = chan[l]
      BY <1>1, <2>2, <3>1 DEF ReconnectDone, TypeOK
    <3>3. \A l \in Gens : loop'[l] = "dispatch" <=> loop[l] = "dispatch"
      BY <1>1, <2>2 DEF ReconnectDone, GoLoop, TypeOK
    <3>4. Quiet
      BY <1>2, <2>1, <3>2, <3>3 DEF Quiet
    <3> QED BY <2>1, <2>2, <3>4, ChannelsReconnectDone
  <2>3. CASE CloseOld(g)
    <3>1. heir[g] \in Gens /\ heir[g] # g /\ loop[heir[g]] = "none" /\ loop[g] = "closeold"
      BY <1>1, <2>3 DEF CloseOld, HeirInv, TypeOK
    <3>2. \A l \in Gens : loop'[l] = "dispatch" <=> loop[l] = "dispatch"
      BY <1>1, <2>3, <3>1 DEF CloseOld, TypeOK
    <3>3. Quiet
      BY <1>2, <2>1, <2>3, <3>2 DEF CloseOld, Quiet
    <3> QED BY <2>1, <2>3, <3>3, ChannelsCloseOld
  <2>4. CASE \/ Lookup(g) \/ Reconnect(g) \/ Wait(g) \/ WaitFails(g) \/ Timer(g)
             \/ BackoffDone(g) \/ ReconnectFails(g)
    <3>1. ~(Dispatch(g) \/ Receive(g))
      BY <1>1, <2>4 DEF Lookup, Reconnect, Wait, WaitFails, Timer, BackoffDone,
         ReconnectFails, Dispatch, Receive, WaitError, GoLoop, End, TypeOK
    <3>2. PICK state \in LoopStates :
            LoopMove(g, state) /\ (state = "dispatch" <=> loop[g] = "dispatch")
      BY <2>1, <2>4, <3>1, IsLoopMove
    <3>3. Quiet
      BY <1>1, <1>2, <2>1, <3>2 DEF LoopMove, Quiet, TypeOK
    <3> QED BY <3>2, <3>3, ChannelsLoopMove
  <2> QED BY <2>1, <2>2, <2>3, <2>4 DEF LoopMoves
<1> QED BY <1>3, <1>4, <1>5

-----------------------------------------------------------------------------
(* Copies, and sequences of them.                                          *)

\* b is to be numbered after a: copies of a channel that is not in apart, or
\* that one loop takes from one connection; b may still be on its way to it.
Follows(a, b, apart) ==
  /\ a.chan = b.chan
  /\ a.chan \in apart => a.conn = b.conn /\ b.loop \in {a.loop, None}

Fits(a, b, apart) ==
  /\ a.conn = b.conn => a.n # b.n
  /\ Follows(a, b, apart) => a.n < b.n

Across(S, T, apart) == \A a \in S, b \in T : Fits(a, b, apart)

Sorted(seq, apart) ==
  \A i, j \in 1..Len(seq) : i < j => Fits(seq[i], seq[j], apart)

\* What was said of more copies, with fewer channels apart, stays true.
LEMMA AcrossLess ==
  ASSUME NEW S, NEW T, NEW apart, Across(S, T, apart),
         NEW A \in SUBSET S, NEW B \in SUBSET T, NEW more, apart \subseteq more
  PROVE  Across(A, B, more)
BY DEF Across, Fits, Follows

LEMMA SortedLess ==
  ASSUME NEW seq, NEW apart, Sorted(seq, apart), NEW more, apart \subseteq more
  PROVE  Sorted(seq, more)
BY DEF Sorted, Fits, Follows

LEMMA CopyTypes ==
  ASSUME NEW x \in Copies
  PROVE  /\ x.chan \in Chans /\ x.n \in 1..MaxNotified /\ x.n \in Nat
         /\ x.conn \in Gens /\ x.loop \in Gens \cup {None}
BY PipelineAssumption DEF Copies

\* One notification of a channel that is not apart is not in both sets.
LEMMA NotTwice ==
  ASSUME NEW S \in SUBSET Copies, NEW T \in SUBSET Copies, NEW apart,
         Across(S, T, apart), NEW x \in S, NEW y \in T, x.chan = y.chan,
         x.chan \notin apart
  PROVE  x.n # y.n
<1>1. x.n \in Nat /\ y.n \in Nat
  BY CopyTypes
<1>2. Follows(x, y, apart) /\ Fits(x, y, apart)
  BY DEF Across, Follows
<1> QED BY <1>1, <1>2 DEF Fits

LEMMA Appended ==
  ASSUME NEW s \in Seq(Copies), NEW e \in Copies, NEW apart
  PROVE  /\ Append(s, e) \in Seq(Copies) /\ Len(Append(s, e)) = Len(s) + 1
         /\ s \o <<e>> = Append(s, e)
         /\ Range(Append(s, e)) = Range(s) \cup {e}
         /\ Sorted(s, apart) /\ Across(Range(s), {e}, apart)
              => Sorted(Append(s, e), apart)
<1>1. /\ Append(s, e) \in Seq(Copies)
      /\ Len(Append(s, e)) = Len(s) + 1
      /\ \A i \in 1..Len(s) : Append(s, e)[i] = s[i]
      /\ Append(s, e)[Len(s) + 1] = e
  BY AppendProperties
<1>2. Len(s) \in Nat /\ \A i \in 1..Len(s) + 1 : i \in 1..Len(s) \/ i = Len(s) + 1
  OBVIOUS
<1>3. DOMAIN s = 1..Len(s) /\ DOMAIN Append(s, e) = 1..Len(s) + 1
  BY <1>1
<1>4. Range(Append(s, e)) = Range(s) \cup {e}
  <2>1. Len(s) + 1 \in 1..Len(s) + 1 /\ \A i \in 1..Len(s) : i \in 1..Len(s) + 1
    BY <1>2
  <2>2. ASSUME NEW x \in Range(s) PROVE x \in Range(Append(s, e))
    <3>1. PICK i \in 1..Len(s) : x = s[i]
      BY <1>3 DEF Range
    <3> QED BY <1>1, <1>3, <2>1, <3>1 DEF Range
  <2>3. e \in Range(Append(s, e))
    BY <1>1, <1>3, <2>1 DEF Range
  <2>4. ASSUME NEW x \in Range(Append(s, e)) PROVE x \in Range(s) \cup {e}
    <3>1. PICK i \in 1..Len(s) + 1 : x = Append(s, e)[i]
      BY <1>3 DEF Range
    <3> QED BY <1>1, <1>2, <1>3, <3>1 DEF Range
  <2> QED BY <2>2, <2>3, <2>4
<1>5. ASSUME Sorted(s, apart), Across(Range(s), {e}, apart)
      PROVE  Sorted(Append(s, e), apart)
  <2> SUFFICES ASSUME NEW i \in 1..Len(s) + 1, NEW j \in 1..Len(s) + 1, i < j
               PROVE  Fits(Append(s, e)[i], Append(s, e)[j], apart)
    BY <1>1 DEF Sorted
  <2>1. i \in 1..Len(s) /\ s[i] \in Range(s)
    <3>1. i \in 1..Len(s)
      BY <1>2
    <3> QED BY <1>3, <3>1 DEF Range
  <2>2. CASE j \in 1..Len(s)
    BY <1>1, <1>5, <2>1, <2>2 DEF Sorted
  <2>3. CASE j = Len(s) + 1
    BY <1>1, <1>5, <2>1, <2>3 DEF Across
  <2> QED BY <1>2, <2>2, <2>3
<1>6. s \o <<e>> = Append(s, e)
  OBVIOUS
<1> QED BY <1>1, <1>4, <1>5, <1>6

LEMMA Taken ==
  ASSUME NEW s \in Seq(Copies), s # <<>>, NEW apart
  PROVE  /\ Head(s) \in Copies /\ Tail(s) \in Seq(Copies)
         /\ Len(Tail(s)) = Len(s) - 1 /\ Len(s) \in Nat
         /\ Range(s) = {Head(s)} \cup Range(Tail(s))
         /\ Sorted(s, apart) =>
              Sorted(Tail(s), apart) /\ Across({Head(s)}, Range(Tail(s)), apart)
<1>1. /\ Head(s) \in Copies /\ Tail(s) \in Seq(Copies)
      /\ Len(Tail(s)) = Len(s) - 1
      /\ \A i \in 1..Len(Tail(s)) : Tail(s)[i] = s[i + 1]
  BY HeadTailProperties
<1>2. Head(s) = s[1] /\ Len(s) \in Nat \ {0} /\ 1 \in 1..Len(s)
  BY EmptySeq
<1>3. /\ \A i \in 1..Len(Tail(s)) : i + 1 \in 1..Len(s) /\ 1 < i + 1
      /\ \A i \in 1..Len(s) : i = 1 \/ (i - 1 \in 1..Len(Tail(s)) /\ (i - 1) + 1 = i)
  BY <1>1, <1>2
<1>4. DOMAIN s = 1..Len(s) /\ DOMAIN Tail(s) = 1..Len(Tail(s))
  BY <1>1
<1>5. Range(s) = {Head(s)} \cup Range(Tail(s))
  <2>1. ASSUME NEW x \in Range(s) PROVE x \in {Head(s)} \cup Range(Tail(s))
    <3>1. PICK i \in 1..Len(s) : x = s[i]
      BY <1>4 DEF Range
    <3>2. CASE i = 1
      BY <1>2, <3>1, <3>2
    <3>3. CASE i - 1 \in 1..Len(Tail(s)) /\ (i - 1) + 1 = i
      <4>1. x = Tail(s)[i - 1]
        BY <1>1, <3>1, <3>3
      <4> QED BY <1>4, <3>3, <4>1 DEF Range
    <3> QED BY <1>3, <3>2, <3>3
  <2>2. Head(s) \in Range(s)
    BY <1>2, <1>4 DEF Range
  <2>3. ASSUME NEW x \in Range(Tail(s)) PROVE x \in Range(s)
    <3>1. PICK i \in 1..Len(Tail(s)) : x = Tail(s)[i]
      BY <1>4 DEF Range
    <3> QED BY <1>1, <1>3, <1>4, <3>1 DEF Range
  <2> QED BY <2>1, <2>2, <2>3
<1>6. ASSUME Sorted(s, apart)
      PROVE  Sorted(Tail(s), apart) /\ Across({Head(s)}, Range(Tail(s)), apart)
  <2>1. Sorted(Tail(s), apart)
    <3>1. \A i, j \in 1..Len(Tail(s)) : i < j => i + 1 < j + 1
      OBVIOUS
    <3> QED BY <1>1, <1>3, <1>6, <3>1 DEF Sorted
  <2>2. ASSUME NEW x \in Range(Tail(s)) PROVE Fits(Head(s), x, apart)
    <3>1. PICK i \in 1..Len(Tail(s)) : x = Tail(s)[i]
      BY <1>4 DEF Range
    <3> QED BY <1>1, <1>2, <1>3, <1>6, <3>1 DEF Sorted
  <2> QED BY <2>1, <2>2 DEF Across
<1> QED BY <1>1, <1>2, <1>5, <1>6

LEMMA Plain ==
  ASSUME NEW e \in Copies, NEW apart, NEW S
  PROVE  /\ <<e>> \in Seq(Copies) /\ Len(<<e>>) = 1 /\ Range(<<e>>) = {e}
         /\ <<>> \in Seq(Copies) /\ Len(<<>>) = 0 /\ Range(<<>>) = {}
         /\ Sorted(<<>>, apart) /\ Across({}, S, apart) /\ Across(S, {}, apart)
<1>1. Range(<<e>>) = {e}
  BY DEF Range
<1>2. Range(<<>>) = {}
  BY DEF Range
<1> QED BY <1>1, <1>2 DEF Sorted, Across

\* What a sequence of copies holds; one that is as long as 1 holds one.
LEMMA Held ==
  ASSUME NEW s \in Seq(Copies)
  PROVE  /\ Range(s) \in SUBSET Copies /\ Len(s) \in Nat
         /\ \A i \in 1..Len(s) : s[i] \in Range(s)
         /\ \A x \in Range(s) : \E i \in 1..Len(s) : x = s[i]
         /\ Range(s) # {} => s # <<>> /\ Len(s) # 0
         /\ Len(s) = 1 => \E e \in Copies : s = <<e>>
<1>1. DOMAIN s = 1..Len(s) /\ \A i \in 1..Len(s) : s[i] \in Copies
  OBVIOUS
<1>2. /\ \A i \in 1..Len(s) : s[i] \in Range(s)
      /\ \A x \in Range(s) : \E i \in 1..Len(s) : x = s[i]
  BY <1>1 DEF Range
<1>3. Len(s) = 1 => \E e \in Copies : s = <<e>>
  <2> SUFFICES ASSUME Len(s) = 1 PROVE s = <<s[1]>> /\ s[1] \in Copies
    OBVIOUS
  <2> QED BY <1>1
<1>4. Range(s) # {} => s # <<>> /\ Len(s) # 0
  BY <1>2
<1> QED BY <1>1, <1>2, <1>3, <1>4

-----------------------------------------------------------------------------
(* Where the copies are.                                                   *)

Done    == Range(origin)
Kept    == Range(watcher)
Hand(g) == Range(inhand[g])
Way(c)  == Range(line[c])

Present(x) ==
  x \in Done \/ x \in Kept \/ \E g \in Gens : x \in Hand(g) \/ x \in Way(g)

\* A copy is of a notification, and with who is at work on its channel.
CopyInv ==
  /\ \A x \in Copies : Present(x) => x.n <= Len(notified) /\ x.chan = notified[x.n]
  /\ \A g \in Gens : \A x \in Hand(g) : x.loop = g /\ x.chan = chan[g]
  /\ \A c \in Gens : \A x \in Way(c) : x.loop = None /\ x.conn = c /\ x.chan = chan[c]
  /\ \A c \in Gens : Way(c) # {} => conn[c] = "up"
  /\ lost \subseteq 1..Len(notified)

\* Numbers are given in order, and what is further on its way is before what
\* follows it.
OrderInv ==
  /\ Sorted(origin, unsubscribed) /\ Sorted(watcher, unsubscribed)
  /\ Across(Done, Kept, unsubscribed)
  /\ \A c \in Gens :
       /\ Sorted(line[c], unsubscribed)
       /\ Across(Done, Way(c), unsubscribed) /\ Across(Kept, Way(c), unsubscribed)
  /\ \A g \in Gens :
       /\ Across(Done, Hand(g), unsubscribed) /\ Across(Kept, Hand(g), unsubscribed)
       /\ \A c \in Gens : Across(Hand(g), Way(c), unsubscribed)
       /\ \A h \in Gens : g # h => Across(Hand(g), Hand(h), unsubscribed)

\* A notification is somewhere or lost; of a channel that was never
\* unsubscribed, not both.
PlaceInv ==
  \A k \in 1..Len(notified) :
    /\ k \in lost \/ \E x \in Copies : Present(x) /\ x.n = k
    /\ notified[k] \notin unsubscribed /\ k \in lost =>
         \A x \in Copies : Present(x) => x.n # k

WayInv == PTypeOK /\ CopyInv /\ OrderInv /\ PlaceInv

LEMMA Sides ==
  ASSUME PTypeOK
  PROVE  /\ Done \in SUBSET Copies /\ Kept \in SUBSET Copies
         /\ \A g \in Gens : Hand(g) \in SUBSET Copies /\ Way(g) \in SUBSET Copies
         /\ \A x : Present(x) => x \in Copies
         /\ \A g \in Gens : loop[g] # "dispatch" => Hand(g) = {}
         /\ \A g \in Gens : loop[g] = "dispatch" => \E e \in Copies : inhand[g] = <<e>>
         /\ \A c \in Gens : Ranks(line[c]) = {x.n : x \in Way(c)}
         /\ Ranks(watcher) = {x.n : x \in Kept}
<1>1. /\ origin \in Seq(Copies) /\ watcher \in Seq(Copies)
      /\ \A g \in Gens : inhand[g] \in Seq(Copies) /\ line[g] \in Seq(Copies)
      /\ \A g \in Gens : Len(inhand[g]) = IF loop[g] = "dispatch" THEN 1 ELSE 0
  BY DEF PTypeOK
<1>2. /\ Done \in SUBSET Copies /\ Kept \in SUBSET Copies
      /\ \A g \in Gens : Hand(g) \in SUBSET Copies /\ Way(g) \in SUBSET Copies
  BY <1>1, Held DEF Done, Kept, Hand, Way
<1>3. \A g \in Gens : loop[g] # "dispatch" => Hand(g) = {}
  <2> SUFFICES ASSUME NEW g \in Gens, loop[g] # "dispatch" PROVE Hand(g) = {}
    OBVIOUS
  <2>1. inhand[g] \in Seq(Copies) /\ Len(inhand[g]) = 0
    BY <1>1
  <2> QED BY <2>1, Held DEF Hand
<1>4. \A g \in Gens : loop[g] = "dispatch" => \E e \in Copies : inhand[g] = <<e>>
  BY <1>1, Held
<1> QED BY <1>2, <1>3, <1>4 DEF Present, Ranks, Way, Kept

\* Two connections never both have copies of a channel that was never
\* unsubscribed.
LEMMA LinesApart ==
  ASSUME PTypeOK, CopyInv, ChannelsInv, NEW c \in Gens, NEW d \in Gens, c # d
  PROVE  Across(Way(c), Way(d), unsubscribed)
<1> SUFFICES ASSUME NEW x \in Way(c), NEW y \in Way(d) PROVE Fits(x, y, unsubscribed)
  BY DEF Across
<1>1. /\ x.conn = c /\ y.conn = d /\ x.chan = chan[c] /\ y.chan = chan[d]
      /\ conn[c] = "up" /\ conn[d] = "up" /\ x.chan \in Chans
  BY Sides, CopyTypes DEF CopyInv
<1>2. x.chan \notin unsubscribed => x.chan # y.chan
  BY <1>1 DEF ChannelsInv, SteadyInv, Steady, OneConn
<1> QED BY <1>1, <1>2 DEF Fits, Follows

\* A copy of a channel that was never unsubscribed is alone of its rank.
LEMMA Alone ==
  ASSUME PTypeOK, CopyInv, OrderInv, ChannelsInv,
         NEW x \in Copies, NEW y \in Copies, x.n = y.n, x.chan = y.chan,
         x.chan \notin unsubscribed
  PROVE  /\ ~(x \in Done /\ y \in Kept)
         /\ \A g \in Gens :
              /\ ~(x \in Done /\ (y \in Hand(g) \/ y \in Way(g)))
              /\ ~(x \in Kept /\ (y \in Hand(g) \/ y \in Way(g)))
              /\ \A h \in Gens : ~(x \in Hand(g) /\ y \in Way(h))
              /\ \A h \in Gens : g # h => ~(x \in Hand(g) /\ y \in Hand(h))
              /\ \A h \in Gens : g # h => ~(x \in Way(g) /\ y \in Way(h))
<1>1. /\ Done \in SUBSET Copies /\ Kept \in SUBSET Copies
      /\ \A g \in Gens : Hand(g) \in SUBSET Copies /\ Way(g) \in SUBSET Copies
  BY Sides
<1>2. ASSUME NEW S \in SUBSET Copies, NEW T \in SUBSET Copies,
             Across(S, T, unsubscribed)
      PROVE  ~(x \in S /\ y \in T)
  BY <1>2, NotTwice
<1>3. \A g, h \in Gens : g # h => Across(Way(g), Way(h), unsubscribed)
  BY LinesApart
<1> HIDE DEF Done, Kept, Hand, Way
<1> QED BY <1>1, <1>2, <1>3 DEF OrderInv

LEMMA WayInit == PInit => WayInv
<1> SUFFICES ASSUME PInit PROVE WayInv
  OBVIOUS
<1>1. \A x : ~Present(x)
  BY DEF PInit, Present, Done, Kept, Hand, Way, Range
<1>2. PTypeOK
  <2>1. <<>> \in Seq(Copies) /\ <<>> \in Seq(Chans) /\ Len(<<>>) = 0
    OBVIOUS
  <2>2. \A g \in Gens : loop[g] = "none" /\ inhand[g] = <<>>
    BY DEF PInit, Init
  <2>3. 0 <= MaxNotified /\ 0 <= WatcherCap /\ 0 \in 0..MaxTroubles
    BY PipelineAssumption
  <2>4. line \in [Gens -> Seq(Copies)] /\ inhand \in [Gens -> Seq(Copies)]
    BY <2>1 DEF PInit
  <2>5. \A g \in Gens : Len(inhand[g]) = IF loop[g] = "dispatch" THEN 1 ELSE 0
    BY <2>1, <2>2
  <2>6. /\ notified = <<>> /\ start = "none" /\ watcher = <<>> /\ ctxDone = FALSE
        /\ origin = <<>> /\ lost = {} /\ unsubscribed = {} /\ troubles = 0
    BY DEF PInit
  <2> QED BY <2>1, <2>3, <2>4, <2>5, <2>6 DEF PTypeOK
<1>3. CopyInv /\ OrderInv
  <2>1. Done = {} /\ Kept = {} /\ \A g \in Gens : Hand(g) = {} /\ Way(g) = {}
    BY <1>1 DEF Present
  <2>2. \A apart : Sorted(<<>>, apart)
    BY DEF Sorted
  <2>3. \A g \in Gens : line[g] = <<>>
    BY DEF PInit
  <2> HIDE DEF Done, Kept, Hand, Way
  <2> QED BY <1>1, <2>1, <2>2, <2>3 DEF PInit, CopyInv, OrderInv, Across
<1>4. PlaceInv
  BY DEF PInit, PlaceInv
<1> QED BY <1>2, <1>3, <1>4 DEF WayInv

\* A step of the relay that is no Receive and no Dispatch.
LEMMA WayQuiet ==
  ASSUME IInv, IInv', ChannelsInv, WayInv, Quiet
  PROVE  WayInv'
<1> DEFINE gone == {c \in Gens : conn'[c] # "up"}
<1>1. /\ TypeOK /\ TypeOK' /\ FreshInv
      /\ PTypeOK /\ CopyInv /\ OrderInv /\ PlaceInv
  BY DEF IInv, WayInv
<1>2. /\ UNCHANGED <<notified, inhand, start, watcher, ctxDone, origin>>
      /\ line' = [c \in Gens |-> IF c \in gone THEN <<>> ELSE line[c]]
      /\ lost' = lost \cup UNION {Ranks(line[c]) : c \in gone}
      /\ \A g \in Gens : loop'[g] = "dispatch" <=> loop[g] = "dispatch"
      /\ \A g \in Gens : g <= made => chan'[g] = chan[g]
      /\ unsubscribed \subseteq unsubscribed' /\ unsubscribed' \subseteq Chans
      /\ troubles' \in 0..MaxTroubles
  BY DEF Quiet, LinesFollow, startVars
<1>3. /\ Done' = Done /\ Kept' = Kept /\ \A g \in Gens : Hand(g)' = Hand(g)
      /\ \A c \in Gens : Way(c)' = IF c \in gone THEN {} ELSE Way(c)
      /\ \A c \in Gens : line'[c] = IF c \in gone THEN <<>> ELSE line[c]
  <2>1. Range(<<>>) = {}
    BY DEF Range
  <2> QED BY <1>2, <2>1 DEF Done, Kept, Hand, Way
<1>4. /\ Done \in SUBSET Copies /\ Kept \in SUBSET Copies
      /\ \A g \in Gens : Hand(g) \in SUBSET Copies /\ Way(g) \in SUBSET Copies
      /\ \A g \in Gens : loop[g] # "dispatch" => Hand(g) = {}
      /\ \A c \in Gens : Ranks(line[c]) = {x.n : x \in Way(c)}
  BY <1>1, Sides
<1>5. \A x : Present(x)' => Present(x)
  BY <1>3 DEF Present
<1> HIDE DEF Done, Kept, Hand, Way, gone
<1>6. PTypeOK'
  <2>1. line' \in [Gens -> Seq(Copies)]
    <3>1. <<>> \in Seq(Copies)
      OBVIOUS
    <3>2. line \in [Gens -> Seq(Copies)]
      BY <1>1 DEF PTypeOK
    <3> QED BY <1>2, <3>1, <3>2
  <2>2. lost' \subseteq 1..MaxNotified
    <3>1. \A c \in Gens : Ranks(line[c]) \subseteq 1..MaxNotified
      BY <1>4, CopyTypes
    <3>2. gone \subseteq Gens
      BY DEF gone
    <3>3. lost \subseteq 1..MaxNotified
      BY <1>1 DEF PTypeOK
    <3> QED BY <1>2, <3>1, <3>2, <3>3
  <2> QED BY <1>1, <1>2, <2>1, <2>2 DEF PTypeOK
<1>7. /\ \A g \in Gens : Hand(g) # {} => g <= made
      /\ \A c \in Gens : Way(c) # {} => c <= made
  <2>1. \A g \in Gens : loop[g] = "dispatch" \/ conn[g] = "up" => g <= made
    BY <1>1, RelayAssumption DEF FreshInv, TypeOK, Gens
  <2> QED BY <1>1, <1>4, <2>1 DEF CopyInv
<1>8. CopyInv'
  <2>1. \A g \in Gens : \A x \in Hand(g)' : x.loop = g /\ x.chan = chan'[g]
    BY <1>1, <1>2, <1>3, <1>7 DEF CopyInv
  <2>2. \A c \in Gens : \A x \in Way(c)' :
          x.loop = None /\ x.conn = c /\ x.chan = chan'[c]
    BY <1>1, <1>2, <1>3, <1>7 DEF CopyInv
  <2>3. \A c \in Gens : Way(c)' # {} => conn'[c] = "up"
    BY <1>3 DEF gone
  <2>4. lost' \subseteq 1..Len(notified)
    <3>1. ASSUME NEW c \in gone PROVE Ranks(line[c]) \subseteq 1..Len(notified)
      <4> SUFFICES ASSUME NEW x \in Way(c) PROVE x.n \in 1..Len(notified)
        BY <1>4, <3>1 DEF gone
      <4>1. x \in Copies /\ Present(x)
        BY <1>4, <3>1 DEF Present, gone
      <4>2. x.n \in Nat /\ 1 <= x.n
        BY <4>1, CopyTypes
      <4>3. Len(notified) \in Nat
        BY <1>1 DEF PTypeOK
      <4> QED BY <1>1, <4>1, <4>2, <4>3 DEF CopyInv
    <3>2. lost \subseteq 1..Len(notified)
      BY <1>1 DEF CopyInv
    <3>3. lost' = lost \cup UNION {Ranks(line[c]) : c \in gone}
      BY <1>2
    <3> QED BY <1>2, <3>1, <3>2, <3>3
  <2> QED BY <1>1, <1>2, <1>5, <2>1, <2>2, <2>3, <2>4 DEF CopyInv
<1>9. OrderInv'
  <2>1. ASSUME NEW S, NEW T, Across(S, T, unsubscribed), NEW A \in SUBSET T
        PROVE  Across(S, A, unsubscribed')
    BY <1>2, <2>1, AcrossLess
  <2>2. ASSUME NEW S, NEW T, Across(S, T, unsubscribed) PROVE Across(S, T, unsubscribed')
    BY <2>1, <2>2
  <2>3. \A c \in Gens : Way(c)' \in SUBSET Way(c)
    BY <1>3
  <2>4. ASSUME NEW c \in Gens PROVE Sorted(line'[c], unsubscribed')
    <3>1. Sorted(line[c], unsubscribed')
      BY <1>1, <1>2, SortedLess DEF OrderInv
    <3>2. Sorted(<<>>, unsubscribed')
      BY DEF Sorted
    <3> QED BY <1>3, <3>1, <3>2
  <2>5. Sorted(origin', unsubscribed') /\ Sorted(watcher', unsubscribed')
    BY <1>1, <1>2, SortedLess DEF OrderInv
  <2>6. Across(Done, Kept, unsubscribed')
    BY <1>1, <2>2 DEF OrderInv
  <2>7. ASSUME NEW c \in Gens
        PROVE  /\ Across(Done, Way(c)', unsubscribed')
               /\ Across(Kept, Way(c)', unsubscribed')
               /\ \A g \in Gens : Across(Hand(g), Way(c)', unsubscribed')
    BY <1>1, <2>1, <2>3 DEF OrderInv
  <2>8. ASSUME NEW g \in Gens
        PROVE  /\ Across(Done, Hand(g), unsubscribed')
               /\ Across(Kept, Hand(g), unsubscribed')
               /\ \A h \in Gens : g # h => Across(Hand(g), Hand(h), unsubscribed')
    BY <1>1, <2>2 DEF OrderInv
  <2> QED BY <1>3, <2>4, <2>5, <2>6, <2>7, <2>8 DEF OrderInv
<1>10. PlaceInv'
  <2> SUFFICES ASSUME NEW k \in 1..Len(notified)
               PROVE  /\ k \in lost' \/ \E x \in Copies : Present(x)' /\ x.n = k
                      /\ notified[k] \notin unsubscribed' /\ k \in lost' =>
                           \A x \in Copies : Present(x)' => x.n # k
    BY <1>2 DEF PlaceInv
  <2>1. k \in lost' \/ \E x \in Copies : Present(x)' /\ x.n = k
    <3>1. CASE k \in lost
      BY <1>2, <3>1
    <3>2. CASE k \notin lost
      <4>1. PICK x \in Copies : Present(x) /\ x.n = k
        BY <1>1, <3>2 DEF PlaceInv
      <4>2. CASE \E c \in gone : x \in Way(c)
        <5>1. PICK c \in gone : x \in Way(c)
          BY <4>2
        <5>2. k \in Ranks(line[c])
          BY <1>4, <4>1, <5>1 DEF gone
        <5> QED BY <1>2, <5>2
      <4>3. CASE ~\E c \in gone : x \in Way(c)
        BY <1>3, <4>1, <4>3 DEF Present
      <4> QED BY <4>2, <4>3
    <3> QED BY <3>1, <3>2
  <2>2. ASSUME notified[k] \notin unsubscribed', k \in lost',
               NEW x \in Copies, Present(x)', x.n = k
        PROVE  FALSE
    <3>1. k \notin lost
      BY <1>1, <1>2, <1>5, <2>2 DEF PlaceInv
    <3>2. PICK c \in gone : k \in Ranks(line[c])
      BY <1>2, <2>2, <3>1
    <3>3. c \in Gens
      BY DEF gone
    <3>4. PICK y \in Way(c) : y.n = k
      BY <1>4, <3>2, <3>3
    <3>5. y \in Copies /\ Present(y) /\ Present(x)
      BY <1>4, <1>5, <2>2, <3>3 DEF Present
    <3>6. x.n = y.n /\ x.chan = y.chan /\ x.chan \notin unsubscribed
      BY <1>1, <1>2, <2>2, <3>4, <3>5 DEF CopyInv
    <3>7. ~(x \in Done) /\ ~(x \in Kept) /\ \A g \in Gens : ~(x \in Hand(g))
      BY <1>1, <3>3, <3>4, <3>5, <3>6, Alone
    <3>8. PICK d \in Gens : x \in Way(d)'
      BY <1>3, <2>2, <3>7 DEF Present
    <3>9. d # c /\ x \in Way(d)
      BY <1>3, <3>8
    <3> QED BY <1>1, <3>3, <3>4, <3>5, <3>6, <3>9, Alone
  <2> QED BY <2>1, <2>2
<1> QED BY <1>6, <1>8, <1>9, <1>10 DEF WayInv

\* A notification is committed: it follows every other.
LEMMA WayCommit ==
  ASSUME TypeOK, WayInv, ChannelsInv, NEW ch \in Chans, Commit(ch)
  PROVE  WayInv'
<1> DEFINE n == Len(notified) + 1
           copy(c) == [chan |-> ch, n |-> n, conn |-> c, loop |-> None]
           ears == Listeners(ch)
<1>1. PTypeOK /\ CopyInv /\ OrderInv /\ PlaceInv
  BY DEF WayInv
<1>2. /\ n <= MaxNotified /\ notified' = Append(notified, ch)
      /\ line' = [c \in Gens |-> IF c \in ears THEN Append(line[c], copy(c)) ELSE line[c]]
      /\ lost' = IF ears = {} THEN lost \cup {n} ELSE lost
      /\ UNCHANGED <<vars, inhand, start, watcher, ctxDone, origin, unsubscribed, troubles>>
  BY DEF Commit, startVars, pastVars
<1>3. UNCHANGED <<loop, chan, conn>>
  BY <1>2 DEF vars, relayVars, loopVars
<1>4. /\ n \in 1..MaxNotified /\ n \in Nat /\ Len(notified) \in Nat /\ Len(notified)' = n
      /\ \A k \in 1..n : k \in 1..Len(notified) \/ k = n
      /\ \A k \in 1..Len(notified) : notified'[k] = notified[k] /\ k \in 1..n /\ k < n
      /\ notified'[n] = ch /\ notified' \in Seq(Chans) /\ n \in 1..n
  <2>1. notified \in Seq(Chans) /\ Len(notified) \in Nat
    BY <1>1 DEF PTypeOK
  <2>2. /\ Len(notified') = n /\ notified' \in Seq(Chans)
        /\ \A k \in 1..Len(notified) : notified'[k] = notified[k]
        /\ notified'[n] = ch
    BY <1>2, <2>1, AppendProperties
  <2> QED BY <1>2, <2>1, <2>2, PipelineAssumption
<1>5. \A c \in Gens : /\ copy(c) \in Copies /\ copy(c).n = n /\ copy(c).conn = c
                      /\ copy(c).chan = ch /\ copy(c).loop = None
  BY <1>4 DEF Copies
<1>6. /\ ears \subseteq Gens /\ \A c \in ears : conn[c] = "up" /\ chan[c] = ch
  BY DEF Listeners
<1>7. \A x \in Copies : Present(x) => /\ x.n \in 1..Len(notified) /\ x.n < n
  BY <1>1, <1>4, CopyTypes DEF CopyInv
<1> HIDE DEF n, copy, ears
<1>8. /\ Done' = Done /\ Kept' = Kept /\ \A g \in Gens : Hand(g)' = Hand(g)
      /\ \A c \in Gens : Way(c)' = IF c \in ears THEN Way(c) \cup {copy(c)} ELSE Way(c)
      /\ line' \in [Gens -> Seq(Copies)]
  <2>1. ASSUME NEW c \in Gens
        PROVE  /\ line'[c] \in Seq(Copies)
               /\ Way(c)' = IF c \in ears THEN Way(c) \cup {copy(c)} ELSE Way(c)
    <3>1. line[c] \in Seq(Copies)
      BY <1>1 DEF PTypeOK
    <3> QED BY <1>2, <1>5, <3>1, Appended DEF Way
  <2> QED BY <1>2, <2>1 DEF Done, Kept, Hand
<1>9. /\ Done \in SUBSET Copies /\ Kept \in SUBSET Copies
      /\ \A g \in Gens : Hand(g) \in SUBSET Copies /\ Way(g) \in SUBSET Copies
  BY <1>1, Sides
<1>10. /\ \A x : Present(x) => Present(x)'
       /\ \A x : Present(x)' => Present(x) \/ \E c \in ears : x = copy(c)
  BY <1>6, <1>8 DEF Present
<1> HIDE DEF Done, Kept, Hand, Way
<1>11. PTypeOK'
  BY <1>1, <1>2, <1>3, <1>4, <1>8 DEF PTypeOK
<1>12. CopyInv'
  <2>1. ASSUME NEW x \in Copies, Present(x)'
        PROVE  x.n <= n /\ x.chan = notified'[x.n]
    <3>1. CASE Present(x)
      BY <1>1, <1>4, <1>7, <3>1 DEF CopyInv
    <3>2. ASSUME NEW c \in ears, x = copy(c) PROVE x.n <= n /\ x.chan = notified'[x.n]
      BY <1>4, <1>5, <1>6, <3>2
    <3> QED BY <1>10, <2>1, <3>1, <3>2
  <2>2. \A c \in Gens : \A x \in Way(c)' : x.loop = None /\ x.conn = c /\ x.chan = chan[c]
    BY <1>1, <1>5, <1>6, <1>8 DEF CopyInv
  <2>3. \A c \in Gens : Way(c)' # {} => conn[c] = "up"
    BY <1>1, <1>6, <1>8 DEF CopyInv
  <2>4. lost' \subseteq 1..n
    <3>1. lost \subseteq 1..Len(notified)
      BY <1>1 DEF CopyInv
    <3> QED BY <1>2, <1>4, <3>1
  <2>5. \A g \in Gens : \A x \in Hand(g)' : x.loop = g /\ x.chan = chan'[g]
    BY <1>1, <1>3, <1>8 DEF CopyInv
  <2> QED BY <1>3, <1>4, <2>1, <2>2, <2>3, <2>4, <2>5 DEF CopyInv
<1>13. OrderInv'
  <2>1. ASSUME NEW c \in ears, NEW S \in SUBSET Copies, \A x \in S : Present(x)
        PROVE  Across(S, {copy(c)}, unsubscribed)
    <3> SUFFICES ASSUME NEW x \in S PROVE Fits(x, copy(c), unsubscribed)
      BY DEF Across
    <3>1. x.n < n /\ x.n \in Nat /\ copy(c).n = n
      BY <1>5, <1>6, <1>7, <2>1, CopyTypes
    <3> QED BY <1>4, <3>1 DEF Fits
  <2>2. ASSUME NEW c \in Gens, NEW S \in SUBSET Copies, \A x \in S : Present(x),
               Across(S, Way(c), unsubscribed)
        PROVE  Across(S, Way(c)', unsubscribed)
    <3>1. CASE c \in ears
      BY <1>8, <2>1, <2>2, <3>1 DEF Across
    <3>2. CASE c \notin ears
      BY <1>8, <2>2, <3>2
    <3> QED BY <3>1, <3>2
  <2>3. /\ \A x \in Done : Present(x)
        /\ \A x \in Kept : Present(x)
        /\ \A g \in Gens : \A x \in Hand(g) : Present(x)
        /\ \A g \in Gens : \A x \in Way(g) : Present(x)
    BY DEF Present
  <2>4. ASSUME NEW c \in Gens PROVE Sorted(line'[c], unsubscribed)
    <3>1. line[c] \in Seq(Copies) /\ Sorted(line[c], unsubscribed)
      BY <1>1 DEF PTypeOK, OrderInv
    <3>2. CASE c \in ears
      <4>1. Across(Range(line[c]), {copy(c)}, unsubscribed)
        BY <1>9, <2>1, <2>3, <3>2 DEF Way
      <4>2. line'[c] = Append(line[c], copy(c))
        BY <1>2, <3>2
      <4> QED BY <1>5, <3>1, <4>1, <4>2, Appended
    <3>3. CASE c \notin ears
      BY <1>2, <3>1, <3>3
    <3> QED BY <3>2, <3>3
  <2>5. ASSUME NEW c \in Gens
        PROVE  /\ Across(Done, Way(c)', unsubscribed)
               /\ Across(Kept, Way(c)', unsubscribed)
               /\ \A g \in Gens : Across(Hand(g), Way(c)', unsubscribed)
    BY <1>1, <1>9, <2>2, <2>3 DEF OrderInv
  <2> QED BY <1>1, <1>2, <1>8, <2>4, <2>5 DEF OrderInv
<1>14. PlaceInv'
  <2> SUFFICES ASSUME NEW k \in 1..n
               PROVE  /\ k \in lost' \/ \E x \in Copies : Present(x)' /\ x.n = k
                      /\ notified'[k] \notin unsubscribed /\ k \in lost' =>
                           \A x \in Copies : Present(x)' => x.n # k
    BY <1>2, <1>4 DEF PlaceInv
  <2>1. lost \subseteq 1..Len(notified)
    BY <1>1 DEF CopyInv
  <2>2. CASE k \in 1..Len(notified)
    <3>1. k < n /\ (k \in lost' <=> k \in lost) /\ notified'[k] = notified[k]
      BY <1>2, <1>4, <2>2
    <3>2. k \in lost' \/ \E x \in Copies : Present(x)' /\ x.n = k
      BY <1>1, <1>10, <2>2, <3>1 DEF PlaceInv
    <3>3. ASSUME notified[k] \notin unsubscribed, k \in lost,
                 NEW x \in Copies, Present(x)', x.n = k
          PROVE  FALSE
      <4>1. Present(x)
        <5>1. ASSUME NEW c \in ears, x = copy(c) PROVE FALSE
          BY <1>4, <1>5, <1>6, <3>1, <3>3, <5>1
        <5> QED BY <1>10, <3>3, <5>1
      <4> QED BY <1>1, <2>2, <3>3, <4>1 DEF PlaceInv
    <3> QED BY <3>1, <3>2, <3>3
  <2>3. CASE k = n
    <3>1. CASE ears = {}
      <4>1. \A x \in Copies : Present(x)' => x.n # n
        BY <1>4, <1>7, <1>10, <3>1
      <4> QED BY <1>2, <2>3, <3>1, <4>1
    <3>2. CASE ears # {}
      <4>1. PICK c \in ears : TRUE
        BY <3>2
      <4>2. \E x \in Copies : Present(x)' /\ x.n = k
        <5>1. PICK x \in Copies : x = copy(c)
          BY <1>5, <1>6
        <5>2. x.n = k /\ c \in Gens /\ x \in Way(c)'
          BY <1>5, <1>6, <1>8, <2>3, <5>1
        <5> QED BY <5>2 DEF Present
      <4>3. k \notin lost'
        BY <1>2, <1>4, <2>1, <2>3, <3>2
      <4> QED BY <4>2, <4>3
    <3> QED BY <3>1, <3>2
  <2> QED BY <1>4, <2>2, <2>3
<1> QED BY <1>11, <1>12, <1>13, <1>14 DEF WayInv

-----------------------------------------------------------------------------
(* A loop receives, and dispatches.                                        *)

\* The copy in hand is the one that came, in the name of its loop.
Renaming(x, ch, g) == [x EXCEPT !.chan = ch, !.loop = g]

LEMMA Renamed ==
  ASSUME NEW x \in Copies, NEW ch \in Chans, x.chan = ch, NEW g \in Gens
  PROVE  \E e \in Copies :
           /\ e = Renaming(x, ch, g)
           /\ e.chan = ch /\ e.n = x.n /\ e.conn = x.conn /\ e.loop = g
<1> DEFINE e == Renaming(x, ch, g)
<1>1. e \in Copies
  BY DEF Copies, Renaming
<1>2. e.chan = ch /\ e.n = x.n /\ e.conn = x.conn /\ e.loop = g
  BY DEF Copies, Renaming
<1> HIDE DEF e
<1> QED BY <1>1, <1>2 DEF e

LEMMA WayReceive ==
  ASSUME IInv, WayInv, ChannelsInv, NEW g \in Gens, ReceiveCopy(g)
  PROVE  WayInv'
<1>1. /\ TypeOK /\ LoopInv /\ ChanInv /\ SteadyInv
      /\ PTypeOK /\ CopyInv /\ OrderInv /\ PlaceInv
  BY DEF IInv, WayInv, ChannelsInv
<1> PICK c \in Gens : c = reads[g]
  BY <1>1 DEF ReceiveCopy, Receive, TypeOK, ChanInv
<1>2. /\ loop[g] = "waiting" /\ chan[c] = chan[g] /\ chan[g] \in Chans
      /\ line[c] \in Seq(Copies) /\ line[c] # <<>>
  BY <1>1 DEF ReceiveCopy, Receive, TypeOK, LoopInv, ChanInv, PTypeOK
<1> PICK x \in Copies : x = Head(line[c])
  BY <1>2, Taken
<1>3. /\ line' = [line EXCEPT ![c] = Tail(@)]
      /\ inhand' = [inhand EXCEPT ![g] = <<Renaming(x, chan[g], g)>>]
      /\ loop' = [loop EXCEPT ![g] = "dispatch"]
      /\ UNCHANGED <<chan, conn, notified, lost, start, watcher, ctxDone, origin,
                     unsubscribed, troubles>>
  BY DEF ReceiveCopy, Receive, GoLoop, relayVars, startVars, pastVars, Renaming
<1>4. /\ Tail(line[c]) \in Seq(Copies)
      /\ Way(c) = {x} \cup Range(Tail(line[c]))
      /\ Sorted(Tail(line[c]), unsubscribed)
      /\ Across({x}, Range(Tail(line[c])), unsubscribed)
  BY <1>1, <1>2, Taken DEF OrderInv, Way
<1>5. x.chan = chan[g] /\ x.conn = c /\ x.loop = None
  BY <1>1, <1>2, <1>4 DEF CopyInv
<1>6. PICK e \in Copies : /\ e = Renaming(x, chan[g], g)
                          /\ e.chan = chan[g] /\ e.n = x.n /\ e.conn = c /\ e.loop = g
  BY <1>2, <1>4, <1>5, Renamed
<1>7. inhand' = [inhand EXCEPT ![g] = <<e>>]
  BY <1>3, <1>6
<1>8. /\ line'[c] = Tail(line[c]) /\ \A d \in Gens : d # c => line'[d] = line[d]
      /\ inhand'[g] = <<e>> /\ \A h \in Gens : h # g => inhand'[h] = inhand[h]
      /\ loop'[g] = "dispatch" /\ \A h \in Gens : h # g => loop'[h] = loop[h]
  BY <1>1, <1>2, <1>3, <1>7 DEF PTypeOK, TypeOK
<1>9. /\ Done' = Done /\ Kept' = Kept
      /\ Hand(g)' = {e} /\ \A h \in Gens : h # g => Hand(h)' = Hand(h)
      /\ Way(c) = {x} \cup Way(c)' /\ \A d \in Gens : d # c => Way(d)' = Way(d)
      /\ \A d \in Gens : Way(d)' \in SUBSET Way(d)
      /\ Sorted(line'[c], unsubscribed) /\ Across({x}, Way(c)', unsubscribed)
  BY <1>2, <1>3, <1>4, <1>8, Plain DEF Done, Kept, Hand, Way
<1>10. /\ Done \in SUBSET Copies /\ Kept \in SUBSET Copies
       /\ \A h \in Gens : Hand(h) \in SUBSET Copies /\ Way(h) \in SUBSET Copies
       /\ Hand(g) = {}
       /\ \A h \in Gens : Hand(h) # {} => loop[h] = "dispatch"
  <2>1. loop[g] # "dispatch"
    BY <1>2
  <2> QED BY <1>1, <2>1, Sides
<1>11. /\ \A y \in Copies : Present(y)' => Present(y) \/ y = e
       /\ \A y \in Copies : Present(y) => Present(y)' \/ y = x
       /\ Present(x) /\ Present(e)'
  BY <1>2, <1>9, <1>10 DEF Present
<1> HIDE DEF Done, Kept, Hand, Way
<1>12. PTypeOK'
  <2>1. line' \in [Gens -> Seq(Copies)]
    BY <1>1, <1>2, <1>3, <1>4 DEF PTypeOK
  <2>2. /\ inhand' \in [Gens -> Seq(Copies)] /\ Len(inhand'[g]) = 1
    BY <1>1, <1>7, <1>8, Plain DEF PTypeOK
  <2>3. \A h \in Gens : Len(inhand'[h]) = IF loop'[h] = "dispatch" THEN 1 ELSE 0
    BY <1>1, <1>8, <2>2 DEF PTypeOK
  <2> QED BY <1>1, <1>3, <2>1, <2>2, <2>3 DEF PTypeOK
<1>13. CopyInv'
  <2>1. ASSUME NEW y \in Copies, Present(y)'
        PROVE  y.n <= Len(notified) /\ y.chan = notified[y.n]
    BY <1>1, <1>4, <1>5, <1>6, <1>11, <2>1 DEF CopyInv
  <2>2. \A h \in Gens : \A y \in Hand(h)' : y.loop = h /\ y.chan = chan[h]
    BY <1>1, <1>6, <1>9 DEF CopyInv
  <2>3. \A d \in Gens : \A y \in Way(d)' : y.loop = None /\ y.conn = d /\ y.chan = chan[d]
    BY <1>1, <1>9 DEF CopyInv
  <2>4. \A d \in Gens : Way(d)' # {} => conn[d] = "up"
    BY <1>1, <1>9 DEF CopyInv
  <2> QED BY <1>1, <1>3, <2>1, <2>2, <2>3, <2>4 DEF CopyInv
<1>14. OrderInv'
  <2>1. ASSUME NEW y, Fits(y, x, unsubscribed) PROVE Fits(y, e, unsubscribed)
    BY <1>5, <1>6, <2>1 DEF Fits, Follows
  <2>2. ASSUME NEW y, y.loop = None, Fits(x, y, unsubscribed)
        PROVE  Fits(e, y, unsubscribed)
    BY <1>5, <1>6, <2>2 DEF Fits, Follows
  <2>3. ASSUME NEW h \in Gens, h # g, NEW y \in Hand(h)
        PROVE  Fits(y, e, unsubscribed) /\ Fits(e, y, unsubscribed)
    <3>1. y.loop = h /\ y.chan = chan[h] /\ h # None /\ g # None
      BY <1>1, <2>3, Sets DEF CopyInv
    <3>2. y.conn = x.conn => y.n # x.n
      BY <1>1, <1>2, <1>4, <2>3 DEF OrderInv, Across, Fits
    <3>3. chan[g] \notin unsubscribed => chan[h] # chan[g]
      <4>1. Active(g) /\ Active(h)
        BY <1>2, <1>10, <2>3 DEF Active
      <4> QED BY <1>1, <1>2, <2>3, <4>1 DEF SteadyInv, Steady, OneLoop
    <3>4. ~Follows(y, e, unsubscribed) /\ ~Follows(e, y, unsubscribed)
      BY <1>6, <2>3, <3>1, <3>3 DEF Follows
    <3> QED BY <1>5, <1>6, <3>2, <3>4 DEF Fits
  <2>4. /\ Across(Done, {e}, unsubscribed) /\ Across(Kept, {e}, unsubscribed)
    BY <1>1, <1>2, <1>4, <2>1 DEF OrderInv, Across
  <2>5. ASSUME NEW d \in Gens PROVE Across({e}, Way(d)', unsubscribed)
    <3> SUFFICES ASSUME NEW y \in Way(d)' PROVE Fits(e, y, unsubscribed)
      BY DEF Across
    <3>1. y.loop = None /\ y.conn = d /\ y.chan = chan[d] /\ y \in Way(d)
      BY <1>1, <1>9 DEF CopyInv
    <3>2. CASE d = c
      BY <1>9, <2>2, <3>1, <3>2 DEF Across
    <3>3. CASE d # c
      <4>1. Across(Way(c), Way(d), unsubscribed)
        BY <1>1, <1>2, <3>3, LinesApart DEF ChannelsInv
      <4> QED BY <1>4, <2>2, <3>1, <4>1 DEF Across
    <3> QED BY <3>2, <3>3
  <2>6. ASSUME NEW S, NEW d \in Gens, Across(S, Way(d), unsubscribed)
        PROVE  Across(S, Way(d)', unsubscribed)
    BY <1>9, <2>6 DEF Across
  <2>7. ASSUME NEW d \in Gens
        PROVE  /\ Sorted(line'[d], unsubscribed)
               /\ Across(Done, Way(d)', unsubscribed)
               /\ Across(Kept, Way(d)', unsubscribed)
               /\ \A h \in Gens : Across(Hand(h)', Way(d)', unsubscribed)
    <3>1. Sorted(line'[d], unsubscribed)
      BY <1>1, <1>8, <1>9 DEF OrderInv
    <3>2. \A h \in Gens : Across(Hand(h)', Way(d)', unsubscribed)
      BY <1>1, <1>9, <2>5, <2>6 DEF OrderInv
    <3> QED BY <1>1, <2>6, <3>1, <3>2 DEF OrderInv
  <2>8. ASSUME NEW h \in Gens
        PROVE  /\ Across(Done, Hand(h)', unsubscribed)
               /\ Across(Kept, Hand(h)', unsubscribed)
               /\ \A k \in Gens : h # k => Across(Hand(h)', Hand(k)', unsubscribed)
    <3>1. \A k \in Gens : k # g => /\ Across({e}, Hand(k), unsubscribed)
                                   /\ Across(Hand(k), {e}, unsubscribed)
      BY <2>3 DEF Across
    <3> QED BY <1>1, <1>9, <2>4, <3>1 DEF OrderInv
  <2> QED BY <1>1, <1>3, <1>9, <2>7, <2>8 DEF OrderInv
<1>15. PlaceInv'
  <2> SUFFICES ASSUME NEW k \in 1..Len(notified)
               PROVE  /\ k \in lost \/ \E y \in Copies : Present(y)' /\ y.n = k
                      /\ notified[k] \notin unsubscribed /\ k \in lost =>
                           \A y \in Copies : Present(y)' => y.n # k
    BY <1>3 DEF PlaceInv
  <2>1. k \in lost \/ \E y \in Copies : Present(y)' /\ y.n = k
    BY <1>1, <1>4, <1>6, <1>11 DEF PlaceInv
  <2>2. ASSUME notified[k] \notin unsubscribed, k \in lost, NEW y \in Copies, Present(y)'
        PROVE  y.n # k
    BY <1>1, <1>4, <1>6, <1>11, <2>2 DEF PlaceInv
  <2> QED BY <2>1, <2>2
<1> QED BY <1>12, <1>13, <1>14, <1>15 DEF WayInv

LEMMA WayDispatch ==
  ASSUME IInv, WayInv, ChannelsInv, NEW g \in Gens, DispatchCopy(g)
  PROVE  WayInv'
<1>1. /\ TypeOK /\ PTypeOK /\ CopyInv /\ OrderInv /\ PlaceInv
      /\ loop[g] = "dispatch"
  BY DEF IInv, WayInv, DispatchCopy, Dispatch
<1>2. PICK e \in Copies : inhand[g] = <<e>>
  BY <1>1, Sides
<1>3. /\ inhand' = [inhand EXCEPT ![g] = <<>>]
      /\ loop' = [loop EXCEPT ![g] = "born"]
      /\ UNCHANGED <<chan, conn, notified, line, start, ctxDone, origin,
                     unsubscribed, troubles>>
  BY DEF DispatchCopy, Dispatch, GoLoop, relayVars, pastVars
<1>4. watcher \in Seq(Copies) /\ Hand(g) = {e} /\ Ranks(inhand[g]) = {e.n}
  <2>1. Range(<<e>>) = {e} /\ watcher \in Seq(Copies)
    BY <1>1, Plain DEF PTypeOK
  <2>2. Ranks(<<e>>) = {e.n}
    BY <2>1 DEF Ranks
  <2> QED BY <1>2, <2>1, <2>2 DEF Hand
<1>5. \/ /\ Len(watcher) < WatcherCap
         /\ watcher' = Append(watcher, e) /\ lost' = lost
         /\ Kept' = Kept \cup {e}
      \/ watcher' = watcher /\ lost' = lost \cup {e.n} /\ Kept' = Kept
  <2>1. CASE WatcherTakes
    <3>1. watcher' = watcher \o <<e>> /\ lost' = lost /\ Len(watcher) < WatcherCap
      BY <1>2, <2>1 DEF DispatchCopy, WatcherTakes
    <3>2. watcher \o <<e>> = Append(watcher, e)
          /\ Range(Append(watcher, e)) = Range(watcher) \cup {e}
      BY <1>4, Appended
    <3> QED BY <3>1, <3>2 DEF Kept
  <2>2. CASE ~WatcherTakes
    BY <1>4, <2>2 DEF DispatchCopy, Kept
  <2> QED BY <2>1, <2>2
<1>6. /\ Done' = Done /\ \A c \in Gens : Way(c)' = Way(c)
      /\ Hand(g)' = {} /\ \A h \in Gens : h # g => Hand(h)' = Hand(h)
      /\ \A h \in Gens : Hand(h)' \in SUBSET Hand(h)
      /\ loop'[g] = "born" /\ \A h \in Gens : h # g => loop'[h] = loop[h]
      /\ inhand'[g] = <<>> /\ \A h \in Gens : h # g => inhand'[h] = inhand[h]
  BY <1>1, <1>2, <1>3, Plain DEF Done, Way, Hand, PTypeOK, TypeOK
<1>7. /\ Done \in SUBSET Copies /\ Kept \in SUBSET Copies
      /\ \A h \in Gens : Hand(h) \in SUBSET Copies /\ Way(h) \in SUBSET Copies
  BY <1>1, Sides
<1>8. /\ Present(e) /\ \A x \in Copies : Present(x)' => Present(x)
      /\ \A x \in Copies : Present(x) => Present(x)' \/ x = e
      /\ (\A x \in Copies : Present(x) => Present(x)') \/ lost' = lost \cup {e.n}
  <2>1. Present(e) /\ \A x \in Kept' : x \in Kept \/ x = e
    BY <1>4, <1>5 DEF Present
  <2>2. \A x \in Kept : x \in Kept'
    BY <1>5
  <2> HIDE DEF Done, Kept, Hand, Way
  <2>3. \A x \in Copies : Present(x)' => Present(x)
    BY <1>6, <2>1 DEF Present
  <2>4. \A x \in Copies : Present(x) => Present(x)' \/ x = e
    BY <1>4, <1>6, <2>2 DEF Present
  <2>5. e \in Kept' => Present(e)'
    BY DEF Present
  <2>6. e \in Kept' \/ lost' = lost \cup {e.n}
    BY <1>5
  <2> QED BY <2>1, <2>3, <2>4, <2>5, <2>6
<1>9. lost' = lost \/ lost' = lost \cup {e.n}
  BY <1>5
<1>10. e.n \in 1..Len(notified) /\ e.chan = notified[e.n] /\ e.n \in Nat
  <2>1. Len(notified) \in Nat /\ e.n \in Nat /\ 1 <= e.n
    BY <1>1, CopyTypes DEF PTypeOK
  <2> QED BY <1>1, <1>8, <2>1 DEF CopyInv
<1> HIDE DEF Done, Kept, Hand, Way
<1>11. PTypeOK'
  <2>1. inhand' \in [Gens -> Seq(Copies)] /\ Len(inhand'[g]) = 0
    BY <1>1, <1>2, <1>3, <1>6, Plain DEF PTypeOK
  <2>2. \A h \in Gens : Len(inhand'[h]) = IF loop'[h] = "dispatch" THEN 1 ELSE 0
    BY <1>1, <1>6, <2>1 DEF PTypeOK
  <2>3. watcher' \in Seq(Copies) /\ Len(watcher') <= WatcherCap
    <3>1. Len(watcher) \in Nat /\ Len(watcher) <= WatcherCap /\ WatcherCap \in Nat
      BY <1>1, PipelineAssumption DEF PTypeOK
    <3>2. Append(watcher, e) \in Seq(Copies) /\ Len(Append(watcher, e)) = Len(watcher) + 1
      BY <1>4, Appended
    <3> QED BY <1>4, <1>5, <3>1, <3>2
  <2>4. lost' \subseteq 1..MaxNotified
    BY <1>1, <1>9, CopyTypes DEF PTypeOK
  <2> QED BY <1>1, <1>3, <2>1, <2>2, <2>3, <2>4 DEF PTypeOK
<1>12. CopyInv'
  <2>1. \A x \in Copies : Present(x)' => x.n <= Len(notified) /\ x.chan = notified[x.n]
    BY <1>1, <1>8 DEF CopyInv
  <2>2. lost' \subseteq 1..Len(notified)
    <3>1. lost \subseteq 1..Len(notified)
      BY <1>1 DEF CopyInv
    <3> QED BY <1>9, <1>10, <3>1
  <2>3. /\ \A h \in Gens : \A x \in Hand(h)' : x.loop = h /\ x.chan = chan[h]
        /\ \A c \in Gens : \A x \in Way(c)' : x.loop = None /\ x.conn = c /\ x.chan = chan[c]
        /\ \A c \in Gens : Way(c)' # {} => conn[c] = "up"
    BY <1>1, <1>6 DEF CopyInv
  <2> QED BY <1>3, <2>1, <2>2, <2>3 DEF CopyInv
<1>13. OrderInv'
  <2>1. ASSUME NEW S, Across(S, Kept, unsubscribed), Across(S, {e}, unsubscribed)
        PROVE  Across(S, Kept', unsubscribed)
    BY <1>5, <2>1 DEF Across
  <2>2. ASSUME NEW T, Across(Kept, T, unsubscribed), Across({e}, T, unsubscribed)
        PROVE  Across(Kept', T, unsubscribed)
    BY <1>5, <2>2 DEF Across
  <2>3. Sorted(watcher', unsubscribed)
    <3>1. Sorted(watcher, unsubscribed) /\ Across(Kept, {e}, unsubscribed)
      BY <1>1, <1>4 DEF OrderInv
    <3>2. Sorted(Append(watcher, e), unsubscribed)
      BY <1>4, <3>1, Appended DEF Kept
    <3> QED BY <1>5, <3>1, <3>2
  <2>4. Across(Done, Kept', unsubscribed)
    BY <1>1, <1>4, <2>1 DEF OrderInv
  <2>5. ASSUME NEW c \in Gens
        PROVE  /\ Across(Kept', Way(c), unsubscribed)
               /\ \A h \in Gens : Across(Hand(h)', Way(c), unsubscribed)
    <3>1. Across(Kept', Way(c), unsubscribed)
      BY <1>1, <1>4, <2>2 DEF OrderInv
    <3>2. \A h \in Gens : Across(Hand(h), Way(c), unsubscribed)
      BY <1>1 DEF OrderInv
    <3> QED BY <1>6, <3>1, <3>2 DEF Across
  <2>6. ASSUME NEW h \in Gens
        PROVE  /\ Across(Done, Hand(h)', unsubscribed)
               /\ \A k \in Gens : h # k => Across(Hand(h)', Hand(k)', unsubscribed)
    <3>1. /\ Across(Done, Hand(h), unsubscribed)
          /\ \A k \in Gens : h # k => Across(Hand(h), Hand(k), unsubscribed)
      BY <1>1 DEF OrderInv
    <3> QED BY <1>6, <3>1 DEF Across
  <2>7. ASSUME NEW h \in Gens PROVE Across(Kept', Hand(h)', unsubscribed)
    <3>1. CASE h = g
      BY <1>6, <3>1 DEF Across
    <3>2. CASE h # g
      BY <1>1, <1>4, <1>6, <2>2, <3>2 DEF OrderInv
    <3> QED BY <3>1, <3>2
  <2> QED BY <1>1, <1>3, <1>6, <2>3, <2>4, <2>5, <2>6, <2>7 DEF OrderInv
<1>14. PlaceInv'
  <2> SUFFICES ASSUME NEW k \in 1..Len(notified)
               PROVE  /\ k \in lost' \/ \E x \in Copies : Present(x)' /\ x.n = k
                      /\ notified[k] \notin unsubscribed /\ k \in lost' =>
                           \A x \in Copies : Present(x)' => x.n # k
    BY <1>3 DEF PlaceInv
  <2>1. k \in lost' \/ \E x \in Copies : Present(x)' /\ x.n = k
    BY <1>1, <1>8, <1>9 DEF PlaceInv
  <2>2. ASSUME notified[k] \notin unsubscribed, k \in lost', NEW x \in Copies, Present(x)',
               x.n = k
        PROVE  FALSE
    <3>1. k \notin lost
      BY <1>1, <1>8, <2>2 DEF PlaceInv
    <3>2. k = e.n /\ Kept' = Kept /\ e \in Hand(g)
      BY <1>4, <1>5, <2>2, <3>1
    <3>3. x.chan = e.chan /\ x.n = e.n /\ e.chan \notin unsubscribed
      BY <1>1, <1>8, <1>10, <2>2, <3>2 DEF CopyInv
    <3>4. /\ ~(x \in Done) /\ ~(x \in Kept)
          /\ \A h \in Gens : ~(x \in Way(h)) /\ (h # g => ~(x \in Hand(h)))
      BY <1>1, <3>2, <3>3, Alone
    <3> QED BY <1>6, <2>2, <3>2, <3>4 DEF Present
  <2> QED BY <2>1, <2>2
<1> QED BY <1>11, <1>12, <1>13, <1>14 DEF WayInv

-----------------------------------------------------------------------------
(* The goroutine of Start.                                                 *)

LEMMA WayNumber ==
  ASSUME WayInv, Number
  PROVE  WayInv'
<1>1. PTypeOK /\ CopyInv /\ OrderInv /\ PlaceInv
  BY DEF WayInv
<1>2. /\ watcher # <<>> /\ watcher' = Tail(watcher)
      /\ origin' = Append(origin, Head(watcher))
      /\ UNCHANGED <<loop, chan, conn, notified, line, inhand, lost, start, ctxDone,
                     unsubscribed, troubles>>
  BY DEF Number, vars, relayVars, loopVars, wayVars, pastVars
<1>3. watcher \in Seq(Copies) /\ origin \in Seq(Copies)
  BY <1>1 DEF PTypeOK
<1> PICK e \in Copies : e = Head(watcher)
  BY <1>2, <1>3, Taken
<1>4. /\ watcher' \in Seq(Copies) /\ Len(watcher') <= WatcherCap
      /\ Kept = {e} \cup Kept' /\ Done' = Done \cup {e}
      /\ Sorted(watcher', unsubscribed) /\ Across({e}, Kept', unsubscribed)
      /\ origin' \in Seq(Copies) /\ Sorted(origin', unsubscribed)
  <2>1. /\ Tail(watcher) \in Seq(Copies) /\ Len(Tail(watcher)) = Len(watcher) - 1
        /\ Len(watcher) \in Nat /\ Len(watcher) <= WatcherCap
        /\ Range(watcher) = {e} \cup Range(Tail(watcher))
        /\ Sorted(Tail(watcher), unsubscribed)
        /\ Across({e}, Range(Tail(watcher)), unsubscribed)
    BY <1>1, <1>2, <1>3, Taken DEF OrderInv, PTypeOK
  <2>2. Across(Range(origin), {e}, unsubscribed)
    BY <1>1, <2>1 DEF OrderInv, Across, Done, Kept
  <2>3. /\ Append(origin, e) \in Seq(Copies)
        /\ Range(Append(origin, e)) = Range(origin) \cup {e}
        /\ Sorted(Append(origin, e), unsubscribed)
    BY <1>1, <1>3, <2>2, Appended DEF OrderInv
  <2>4. Len(watcher) - 1 <= WatcherCap
    BY <2>1, PipelineAssumption
  <2> QED BY <1>2, <2>1, <2>3, <2>4 DEF Kept, Done
<1>5. \A g \in Gens : Hand(g)' = Hand(g) /\ Way(g)' = Way(g)
  BY <1>2 DEF Hand, Way
<1>6. \A x : Present(x)' <=> Present(x)
  BY <1>4, <1>5 DEF Present
<1> HIDE DEF Done, Kept, Hand, Way
<1>7. PTypeOK'
  BY <1>1, <1>2, <1>4 DEF PTypeOK
<1>8. CopyInv'
  BY <1>1, <1>2, <1>5, <1>6 DEF CopyInv
<1>9. OrderInv'
  <2>1. ASSUME NEW T, Across(Done, T, unsubscribed), Across(Kept, T, unsubscribed)
        PROVE  Across(Done', T, unsubscribed) /\ Across(Kept', T, unsubscribed)
    BY <1>4, <2>1 DEF Across
  <2>2. Across(Done', Kept', unsubscribed)
    BY <1>1, <1>4 DEF OrderInv, Across
  <2>3. \A g \in Gens :
          /\ Across(Done', Way(g), unsubscribed) /\ Across(Kept', Way(g), unsubscribed)
          /\ Across(Done', Hand(g), unsubscribed) /\ Across(Kept', Hand(g), unsubscribed)
    BY <1>1, <2>1 DEF OrderInv
  <2> QED BY <1>1, <1>2, <1>4, <1>5, <2>2, <2>3 DEF OrderInv
<1>10. PlaceInv'
  BY <1>1, <1>2, <1>6 DEF PlaceInv
<1> QED BY <1>7, <1>8, <1>9, <1>10 DEF WayInv

LEMMA WayStop ==
  ASSUME WayInv, ChannelsInv, Stop
  PROVE  WayInv'
<1>1. PTypeOK /\ CopyInv /\ OrderInv /\ PlaceInv
  BY DEF WayInv
<1>2. /\ watcher' = <<>> /\ start' = "ended" /\ lost' = lost \cup Ranks(watcher)
      /\ UNCHANGED <<loop, chan, conn, notified, line, inhand, origin, ctxDone,
                     unsubscribed, troubles>>
  BY DEF Stop, vars, relayVars, loopVars, pastVars
<1>3. /\ Done \in SUBSET Copies /\ Kept \in SUBSET Copies
      /\ \A g \in Gens : Hand(g) \in SUBSET Copies /\ Way(g) \in SUBSET Copies
      /\ Ranks(watcher) = {x.n : x \in Kept}
  BY <1>1, Sides
<1>4. /\ Done' = Done /\ Kept' = {}
      /\ \A g \in Gens : Hand(g)' = Hand(g) /\ Way(g)' = Way(g)
  BY <1>2 DEF Done, Kept, Hand, Way, Range
<1>5. /\ \A x : Present(x)' => Present(x)
      /\ \A x : Present(x) => Present(x)' \/ x \in Kept
  BY <1>4 DEF Present
<1>6. Ranks(watcher) \subseteq 1..Len(notified)
  <2> SUFFICES ASSUME NEW x \in Kept PROVE x.n \in 1..Len(notified)
    BY <1>3
  <2>1. x \in Copies /\ Present(x) /\ x.n \in Nat /\ 1 <= x.n /\ Len(notified) \in Nat
    BY <1>1, <1>3, CopyTypes DEF Present, PTypeOK
  <2> QED BY <1>1, <2>1 DEF CopyInv
<1> HIDE DEF Done, Kept, Hand, Way
<1>7. PTypeOK'
  <2>1. <<>> \in Seq(Copies) /\ Len(<<>>) = 0 /\ 0 <= WatcherCap
    BY PipelineAssumption
  <2>2. Ranks(watcher) \subseteq 1..MaxNotified
    BY <1>3, CopyTypes
  <2> QED BY <1>1, <1>2, <2>1, <2>2 DEF PTypeOK
<1>8. CopyInv'
  <2>1. \A x \in Copies : Present(x)' => x.n <= Len(notified) /\ x.chan = notified[x.n]
    BY <1>1, <1>5 DEF CopyInv
  <2>2. lost' \subseteq 1..Len(notified)
    <3>1. lost \subseteq 1..Len(notified)
      BY <1>1 DEF CopyInv
    <3> QED BY <1>2, <1>6, <3>1
  <2>3. /\ \A h \in Gens : \A x \in Hand(h) : x.loop = h /\ x.chan = chan[h]
        /\ \A c \in Gens : \A x \in Way(c) : x.loop = None /\ x.conn = c /\ x.chan = chan[c]
        /\ \A c \in Gens : Way(c) # {} => conn[c] = "up"
    BY <1>1 DEF CopyInv
  <2> QED BY <1>2, <1>4, <2>1, <2>2, <2>3 DEF CopyInv
<1>9. OrderInv'
  <2>1. Sorted(<<>>, unsubscribed) /\ \A S : Across(S, {}, unsubscribed)
                                          /\ Across({}, S, unsubscribed)
    BY DEF Sorted, Across
  <2> QED BY <1>1, <1>2, <1>4, <2>1 DEF OrderInv
<1>10. PlaceInv'
  <2> SUFFICES ASSUME NEW k \in 1..Len(notified)
               PROVE  /\ k \in lost' \/ \E x \in Copies : Present(x)' /\ x.n = k
                      /\ notified[k] \notin unsubscribed /\ k \in lost' =>
                           \A x \in Copies : Present(x)' => x.n # k
    BY <1>2 DEF PlaceInv
  <2>1. k \in lost' \/ \E x \in Copies : Present(x)' /\ x.n = k
    BY <1>1, <1>2, <1>3, <1>5 DEF PlaceInv
  <2>2. ASSUME notified[k] \notin unsubscribed, k \in lost', NEW x \in Copies, Present(x)',
               x.n = k
        PROVE  FALSE
    <3>1. k \notin lost
      BY <1>1, <1>5, <2>2 DEF PlaceInv
    <3>2. PICK y \in Kept : y.n = k
      BY <1>2, <1>3, <2>2, <3>1
    <3>3. /\ y \in Copies /\ Present(y) /\ Present(x)
      BY <1>3, <1>5, <2>2, <3>2 DEF Present
    <3>4. x.n = y.n /\ x.chan = y.chan /\ x.chan \notin unsubscribed
      BY <1>1, <2>2, <3>2, <3>3 DEF CopyInv
    <3>5. /\ ~(x \in Done)
          /\ \A g \in Gens : ~(x \in Way(g)) /\ ~(x \in Hand(g))
      BY <1>1, <3>2, <3>3, <3>4, Alone
    <3> QED BY <1>4, <2>2, <3>5 DEF Present
  <2> QED BY <2>1, <2>2
<1> QED BY <1>7, <1>8, <1>9, <1>10 DEF WayInv

-----------------------------------------------------------------------------
(* All the steps.                                                          *)

LEMMA WayNext ==
  ASSUME IInv, IInv', ClosedInv, ChannelsInv, WayInv, [PNext]_pvars
  PROVE  ChannelsInv' /\ WayInv'
<1>1. TypeOK /\ PTypeOK
  BY DEF IInv, WayInv
<1> USE DEF pastVars
<1>2. ASSUME UNCHANGED <<vars, unsubscribed>> PROVE ChannelsInv'
  BY <1>2, ChannelsStill DEF OnlyConns, vars, relayVars, loopVars, countVars
<1>3. ASSUME NEW ch \in Chans, Commit(ch) PROVE ChannelsInv' /\ WayInv'
  BY <1>1, <1>2, <1>3, WayCommit DEF Commit
<1>4. ASSUME NEW p \in Procs,
             \/ CallMoves(p)
             \/ \E n \in Chans : SubscribeCall(p, n)
             \/ \E n \in Chans : UnsubscribeCall(p, n)
             \/ CloseCall
      PROVE  ChannelsInv' /\ WayInv'
  <2>1. ChannelsInv' /\ Quiet
    BY <1>1, <1>4, CallSteps
  <2> QED BY <2>1, WayQuiet
<1>5. ASSUME DatabaseTurns \/ \E g \in Gens : LoopSteps(g) \/ ConnectionBreaks(g)
      PROVE  ChannelsInv' /\ WayInv'
  <2>1. ChannelsInv' /\ Quiet
    BY <1>1, <1>5, LoopAndOutside
  <2> QED BY <2>1, WayQuiet
<1>6. ASSUME NEW g \in Gens, ReceiveCopy(g) \/ DispatchCopy(g)
      PROVE  ChannelsInv' /\ WayInv'
  <2>1. unsubscribed' = unsubscribed /\ (Receive(g) \/ Dispatch(g))
    BY <1>6 DEF ReceiveCopy, DispatchCopy
  <2>2. PICK state \in LoopStates : LoopMove(g, state)
    BY <2>1, IsLoopMove
  <2> QED BY <1>6, <2>2, ChannelsLoopMove, WayReceive, WayDispatch
<1>7. ASSUME StartWatching \/ CancelStart \/ UNCHANGED pvars
      PROVE  ChannelsInv' /\ WayInv'
  <2>1. /\ UNCHANGED <<vars, notified, line, inhand, lost, watcher, origin,
                       unsubscribed, troubles>>
        /\ start' \in {"none", "select", "ended"} /\ ctxDone' \in BOOLEAN
    BY <1>1, <1>7 DEF StartWatching, CancelStart, pvars, wayVars, startVars, PTypeOK
  <2>2. UNCHANGED <<loop, chan, conn>>
    BY <2>1 DEF vars, relayVars, loopVars
  <2>3. /\ Done' = Done /\ Kept' = Kept
        /\ \A g \in Gens : Hand(g)' = Hand(g) /\ Way(g)' = Way(g)
    BY <2>1 DEF Done, Kept, Hand, Way
  <2>4. \A x : Present(x)' <=> Present(x)
    BY <2>3 DEF Present
  <2> HIDE DEF Done, Kept, Hand, Way
  <2>5. PTypeOK'
    BY <1>1, <2>1, <2>2 DEF PTypeOK
  <2>6. CopyInv' /\ PlaceInv'
    BY <2>1, <2>2, <2>3, <2>4 DEF WayInv, CopyInv, PlaceInv
  <2>7. OrderInv'
    BY <2>1, <2>3 DEF WayInv, OrderInv
  <2> QED BY <1>2, <2>1, <2>5, <2>6, <2>7 DEF WayInv
<1>8. CASE Number
  BY <1>2, <1>8, WayNumber DEF Number
<1>9. CASE Stop
  BY <1>2, <1>9, WayStop DEF Stop
<1>10. Posts \subseteq Procs /\ Deletes \subseteq Procs /\ Main \in Procs
  BY PipelineAssumption DEF Procs
<1>11. CASE PNext
  BY <1>3, <1>4, <1>5, <1>6, <1>7, <1>8, <1>9, <1>10, <1>11 DEF PNext
<1> QED BY <1>7, <1>11

LEMMA PInvariance == PSpec => [](ChannelsInv /\ WayInv)
<1>1. IInv /\ IInv' /\ ClosedInv /\ ChannelsInv /\ WayInv /\ [PNext]_pvars
        => (ChannelsInv /\ WayInv)'
  BY WayNext
<1>2. PInit => ChannelsInv /\ WayInv
  BY ChannelsInit, WayInit
<1> QED BY <1>1, <1>2, RelayInvariance, PTL DEF PSpec

-----------------------------------------------------------------------------
(* What follows.                                                           *)

\* The state of the pipeline has its types: a loop that dispatches has one
\* notification in hand and the others none, and the watcher's buffered channel
\* never holds more than its capacity.
THEOREM PTypeCorrect == PSpec => []PTypeOK
<1>1. WayInv => PTypeOK
  BY DEF WayInv
<1> QED BY <1>1, PInvariance, PTL

\* Notifications are numbered in the order of their commits: all of a channel
\* that was never unsubscribed, whatever breaks and reconnects, and of another
\* those that one loop received from one connection.
THEOREM OrderKept == PSpec => []ChannelOrder
<1>1. WayInv => ChannelOrder
  <2> SUFFICES ASSUME WayInv, NEW i \in 1..Len(origin), NEW j \in 1..Len(origin),
                      i < j, Ordered(origin[i], origin[j])
               PROVE  origin[i].n < origin[j].n
    BY DEF ChannelOrder
  <2>1. Fits(origin[i], origin[j], unsubscribed)
    BY DEF WayInv, OrderInv, Sorted
  <2>2. Follows(origin[i], origin[j], unsubscribed)
    BY DEF Ordered, Follows
  <2> QED BY <2>1, <2>2 DEF Fits
<1> QED BY <1>1, PInvariance, PTL

\* The places of the pipeline, and what is there.
AtId(x) ==
  \E i \in 1..Len(origin) :
    x = <<"id", None, i>> /\ CopyAt(x) = origin[i] /\ CopyAt(x) \in Done
AtWatcher(x) ==
  \E i \in 1..Len(watcher) :
    x = <<"watcher", None, i>> /\ CopyAt(x) = watcher[i] /\ CopyAt(x) \in Kept
AtHand(x, g) == x = <<"hand", g, 1>> /\ CopyAt(x) \in Hand(g)
AtLine(x, c) ==
  \E i \in 1..Len(line[c]) :
    x = <<"line", c, i>> /\ CopyAt(x) = line[c][i] /\ CopyAt(x) \in Way(c)

LEMMA AtPlace ==
  ASSUME PTypeOK, NEW x \in Places
  PROVE  /\ CopyAt(x) \in Copies /\ Present(CopyAt(x))
         /\ AtId(x) \/ AtWatcher(x) \/ \E g \in Gens : AtHand(x, g) \/ AtLine(x, g)
<1>1. /\ origin \in Seq(Copies) /\ watcher \in Seq(Copies)
      /\ \A g \in Gens : inhand[g] \in Seq(Copies) /\ line[g] \in Seq(Copies)
      /\ \A g \in Gens : Len(inhand[g]) = 1 \/ Len(inhand[g]) = 0
  BY DEF PTypeOK
<1>2. ASSUME NEW i \in 1..Len(origin), x = <<"id", None, i>>
      PROVE  AtId(x) /\ CopyAt(x) \in Copies /\ Present(CopyAt(x))
  <2>1. CopyAt(x) = origin[i]
    BY <1>2 DEF CopyAt
  <2>2. origin[i] \in Done /\ origin[i] \in Copies
    BY <1>1, Held DEF Done
  <2> QED BY <1>2, <2>1, <2>2 DEF AtId, Present
<1>3. ASSUME NEW i \in 1..Len(watcher), x = <<"watcher", None, i>>
      PROVE  AtWatcher(x) /\ CopyAt(x) \in Copies /\ Present(CopyAt(x))
  <2>1. CopyAt(x) = watcher[i]
    BY <1>3 DEF CopyAt
  <2>2. watcher[i] \in Kept /\ watcher[i] \in Copies
    BY <1>1, Held DEF Kept
  <2> QED BY <1>3, <2>1, <2>2 DEF AtWatcher, Present
<1>4. ASSUME NEW g \in Gens, NEW i \in 1..Len(inhand[g]), x = <<"hand", g, i>>
      PROVE  AtHand(x, g) /\ CopyAt(x) \in Copies /\ Present(CopyAt(x))
  <2>1. CopyAt(x) = inhand[g][i]
    BY <1>4 DEF CopyAt
  <2>2. i = 1
    <3>1. i \in Nat /\ 1 <= i /\ i <= Len(inhand[g]) /\ inhand[g] \in Seq(Copies)
      BY <1>1, <1>4
    <3>2. Len(inhand[g]) = 1 \/ Len(inhand[g]) = 0
      BY <1>1
    <3> QED BY <3>1, <3>2
  <2>3. inhand[g][i] \in Hand(g) /\ inhand[g][i] \in Copies
    BY <1>1, Held DEF Hand
  <2> QED BY <1>4, <2>1, <2>2, <2>3 DEF AtHand, Present
<1>5. ASSUME NEW c \in Gens, NEW i \in 1..Len(line[c]), x = <<"line", c, i>>
      PROVE  AtLine(x, c) /\ CopyAt(x) \in Copies /\ Present(CopyAt(x))
  <2>1. CopyAt(x) = line[c][i]
    BY <1>5 DEF CopyAt
  <2>2. line[c][i] \in Way(c) /\ line[c][i] \in Copies
    BY <1>1, Held DEF Way
  <2> QED BY <1>5, <2>1, <2>2 DEF AtLine, Present
<1>6. \/ \E i \in 1..Len(origin) : x = <<"id", None, i>>
      \/ \E i \in 1..Len(watcher) : x = <<"watcher", None, i>>
      \/ \E g \in Gens : \E i \in 1..Len(inhand[g]) : x = <<"hand", g, i>>
      \/ \E c \in Gens : \E i \in 1..Len(line[c]) : x = <<"line", c, i>>
  <2>1. CASE x \in {<<"id", None, i>> : i \in 1..Len(origin)}
    BY <2>1
  <2>2. CASE x \in {<<"watcher", None, i>> : i \in 1..Len(watcher)}
    BY <2>2
  <2>3. ASSUME NEW g \in Gens,
               x \in {<<"hand", g, i>> : i \in 1..Len(inhand[g])}
                    \cup {<<"line", g, i>> : i \in 1..Len(line[g])}
        PROVE  \/ \E i \in 1..Len(inhand[g]) : x = <<"hand", g, i>>
               \/ \E i \in 1..Len(line[g]) : x = <<"line", g, i>>
    BY <2>3
  <2> QED BY <2>1, <2>2, <2>3 DEF Places
<1> QED BY <1>2, <1>3, <1>4, <1>5, <1>6

\* What is present is at a place.
LEMMA HasPlace ==
  ASSUME PTypeOK, NEW e \in Copies, Present(e)
  PROVE  \E x \in Places : CopyAt(x) = e
<1>1. /\ origin \in Seq(Copies) /\ watcher \in Seq(Copies)
      /\ \A g \in Gens : inhand[g] \in Seq(Copies) /\ line[g] \in Seq(Copies)
  BY DEF PTypeOK
<1>2. CASE e \in Done
  <2>1. PICK i \in 1..Len(origin) : e = origin[i]
    BY <1>1, <1>2, Held DEF Done
  <2>2. <<"id", None, i>> \in Places /\ CopyAt(<<"id", None, i>>) = e
    BY <2>1 DEF Places, CopyAt
  <2> QED BY <2>2
<1>3. CASE e \in Kept
  <2>1. PICK i \in 1..Len(watcher) : e = watcher[i]
    BY <1>1, <1>3, Held DEF Kept
  <2>2. <<"watcher", None, i>> \in Places /\ CopyAt(<<"watcher", None, i>>) = e
    BY <2>1 DEF Places, CopyAt
  <2> QED BY <2>2
<1>4. ASSUME NEW g \in Gens, e \in Hand(g) PROVE \E x \in Places : CopyAt(x) = e
  <2>1. PICK i \in 1..Len(inhand[g]) : e = inhand[g][i]
    BY <1>1, <1>4, Held DEF Hand
  <2>2. <<"hand", g, i>> \in Places
    <3>1. <<"hand", g, i>> \in
            {<<"hand", g, k>> : k \in 1..Len(inhand[g])}
            \cup {<<"line", g, k>> : k \in 1..Len(line[g])}
      OBVIOUS
    <3> QED BY <3>1 DEF Places
  <2>3. CopyAt(<<"hand", g, i>>) = e
    BY <2>1 DEF CopyAt
  <2> QED BY <2>2, <2>3
<1>5. ASSUME NEW c \in Gens, e \in Way(c) PROVE \E x \in Places : CopyAt(x) = e
  <2>1. PICK i \in 1..Len(line[c]) : e = line[c][i]
    BY <1>1, <1>5, Held DEF Way
  <2>2. <<"line", c, i>> \in Places
    <3>1. <<"line", c, i>> \in
            {<<"hand", c, k>> : k \in 1..Len(inhand[c])}
            \cup {<<"line", c, k>> : k \in 1..Len(line[c])}
      OBVIOUS
    <3> QED BY <3>1 DEF Places
  <2>3. CopyAt(<<"line", c, i>>) = e
    BY <2>1 DEF CopyAt
  <2> QED BY <2>2, <2>3
<1> QED BY <1>2, <1>3, <1>4, <1>5 DEF Present

LEMMA SortedApart ==
  ASSUME NEW s \in Seq(Copies), NEW apart, Sorted(s, apart),
         NEW i \in 1..Len(s), NEW j \in 1..Len(s), i # j
  PROVE  Fits(s[i], s[j], apart) \/ Fits(s[j], s[i], apart)
<1>1. i < j \/ j < i
  OBVIOUS
<1> QED BY <1>1 DEF Sorted

\* Of two places one is further on the way than the other, or they belong to
\* different loops or connections.
LEMMA PlacesApart ==
  ASSUME PTypeOK, CopyInv, OrderInv, ChannelsInv,
         NEW x \in Places, NEW y \in Places, x # y
  PROVE  \/ Fits(CopyAt(x), CopyAt(y), unsubscribed)
         \/ Fits(CopyAt(y), CopyAt(x), unsubscribed)
<1> DEFINE a == CopyAt(x)
           b == CopyAt(y)
           Apart == Fits(a, b, unsubscribed) \/ Fits(b, a, unsubscribed)
<1> SUFFICES Apart
  OBVIOUS
<1>1. \A g, h \in Gens : g # h => Across(Way(g), Way(h), unsubscribed)
  BY LinesApart
<1>2. /\ origin \in Seq(Copies) /\ watcher \in Seq(Copies)
      /\ \A c \in Gens : line[c] \in Seq(Copies)
      /\ Sorted(origin, unsubscribed) /\ Sorted(watcher, unsubscribed)
      /\ \A c \in Gens : Sorted(line[c], unsubscribed)
  BY DEF PTypeOK, OrderInv
<1>3. /\ AtId(x) => a \in Done
      /\ AtId(y) => b \in Done
      /\ AtWatcher(x) => a \in Kept
      /\ AtWatcher(y) => b \in Kept
      /\ \A g \in Gens : /\ AtHand(x, g) => a \in Hand(g)
                         /\ AtHand(y, g) => b \in Hand(g)
                         /\ AtLine(x, g) => a \in Way(g)
                         /\ AtLine(y, g) => b \in Way(g)
  BY DEF AtId, AtWatcher, AtHand, AtLine
<1>4. /\ AtId(x) \/ AtWatcher(x) \/ \E g \in Gens : AtHand(x, g) \/ AtLine(x, g)
      /\ AtId(y) \/ AtWatcher(y) \/ \E g \in Gens : AtHand(y, g) \/ AtLine(y, g)
  BY AtPlace
<1>5. CASE AtId(x) /\ AtId(y)
  <2>1. PICK i \in 1..Len(origin) : x = <<"id", None, i>> /\ a = origin[i]
    BY <1>5 DEF AtId
  <2>2. PICK j \in 1..Len(origin) : y = <<"id", None, j>> /\ b = origin[j]
    BY <1>5 DEF AtId
  <2>3. i # j
    BY <2>1, <2>2
  <2>4. \/ Fits(origin[i], origin[j], unsubscribed)
        \/ Fits(origin[j], origin[i], unsubscribed)
    BY <1>2, <2>3, SortedApart
  <2> QED BY <2>1, <2>2, <2>4
<1>6. CASE AtWatcher(x) /\ AtWatcher(y)
  <2>1. PICK i \in 1..Len(watcher) : x = <<"watcher", None, i>> /\ a = watcher[i]
    BY <1>6 DEF AtWatcher
  <2>2. PICK j \in 1..Len(watcher) : y = <<"watcher", None, j>> /\ b = watcher[j]
    BY <1>6 DEF AtWatcher
  <2>3. i # j
    BY <2>1, <2>2
  <2>4. \/ Fits(watcher[i], watcher[j], unsubscribed)
        \/ Fits(watcher[j], watcher[i], unsubscribed)
    BY <1>2, <2>3, SortedApart
  <2> QED BY <2>1, <2>2, <2>4
<1>7. ASSUME NEW c \in Gens, AtLine(x, c), AtLine(y, c) PROVE Apart
  <2>1. PICK i \in 1..Len(line[c]) : x = <<"line", c, i>> /\ a = line[c][i]
    BY <1>7 DEF AtLine
  <2>2. PICK j \in 1..Len(line[c]) : y = <<"line", c, j>> /\ b = line[c][j]
    BY <1>7 DEF AtLine
  <2>3. i # j
    BY <2>1, <2>2
  <2>4. \/ Fits(line[c][i], line[c][j], unsubscribed)
        \/ Fits(line[c][j], line[c][i], unsubscribed)
    BY <1>2, <2>3, SortedApart
  <2> QED BY <2>1, <2>2, <2>4
<1>8. ASSUME NEW g \in Gens, NEW h \in Gens, AtHand(x, g), AtHand(y, h) PROVE g # h
  BY <1>8 DEF AtHand
<1> HIDE DEF a, b, Done, Kept, Hand, Way
<1>9. /\ Across(Done, Kept, unsubscribed)
      /\ \A g \in Gens : /\ Across(Done, Hand(g), unsubscribed)
                         /\ Across(Done, Way(g), unsubscribed)
                         /\ Across(Kept, Hand(g), unsubscribed)
                         /\ Across(Kept, Way(g), unsubscribed)
                         /\ \A h \in Gens : /\ Across(Hand(g), Way(h), unsubscribed)
                                            /\ g # h => Across(Hand(g), Hand(h), unsubscribed)
  BY DEF OrderInv
<1>10. CASE AtId(x)
  <2>1. CASE AtWatcher(y)
    BY <1>3, <1>9, <1>10, <2>1 DEF Across
  <2>2. ASSUME NEW h \in Gens, AtHand(y, h) \/ AtLine(y, h) PROVE Apart
    BY <1>3, <1>9, <1>10, <2>2 DEF Across
  <2> QED BY <1>4, <1>5, <1>10, <2>1, <2>2
<1>11. CASE AtWatcher(x)
  <2>1. CASE AtId(y)
    BY <1>3, <1>9, <1>11, <2>1 DEF Across
  <2>2. ASSUME NEW h \in Gens, AtHand(y, h) \/ AtLine(y, h) PROVE Apart
    BY <1>3, <1>9, <1>11, <2>2 DEF Across
  <2> QED BY <1>4, <1>6, <1>11, <2>1, <2>2
<1>12. ASSUME NEW g \in Gens, AtHand(x, g) \/ AtLine(x, g) PROVE Apart
  <2>1. CASE AtId(y)
    BY <1>3, <1>9, <1>12, <2>1 DEF Across
  <2>2. CASE AtWatcher(y)
    BY <1>3, <1>9, <1>12, <2>2 DEF Across
  <2>3. ASSUME NEW h \in Gens, AtHand(y, h) PROVE Apart
    <3>1. b \in Hand(h)
      BY <1>3, <2>3
    <3>2. CASE AtHand(x, g)
      <4>1. a \in Hand(g) /\ g # h
        BY <1>3, <1>8, <2>3, <3>2
      <4> QED BY <1>9, <3>1, <4>1 DEF Across
    <3>3. CASE AtLine(x, g)
      BY <1>3, <1>9, <3>1, <3>3 DEF Across
    <3> QED BY <1>12, <3>2, <3>3
  <2>4. ASSUME NEW h \in Gens, AtLine(y, h) PROVE Apart
    <3>1. b \in Way(h)
      BY <1>3, <2>4
    <3>2. CASE AtHand(x, g)
      BY <1>3, <1>9, <3>1, <3>2 DEF Across
    <3>3. CASE AtLine(x, g)
      <4>1. a \in Way(g)
        BY <1>3, <3>3
      <4>2. CASE g = h
        BY <1>7, <2>4, <3>3, <4>2
      <4> QED BY <1>1, <3>1, <4>1, <4>2 DEF Across
    <3> QED BY <1>12, <3>2, <3>3
  <2> QED BY <1>4, <2>1, <2>2, <2>3, <2>4
<1> QED BY <1>4, <1>10, <1>11, <1>12

\* No notification vanishes, and none is in two places: those of a channel that
\* was never unsubscribed are numbered once or lost, and no connection brings
\* one twice.
THEOREM OnePlace == PSpec => []NothingVanishes
<1>1. ASSUME WayInv, ChannelsInv PROVE NothingVanishes
  <2>1. PTypeOK /\ CopyInv /\ OrderInv /\ PlaceInv
    BY <1>1 DEF WayInv
  <2> SUFFICES ASSUME NEW k \in 1..Len(notified)
               PROVE  /\ Whereabouts(k) # {} \/ k \in lost
                      /\ \A x, y \in Whereabouts(k) :
                           CopyAt(x).conn = CopyAt(y).conn \/ notified[k] \notin unsubscribed
                             => x = y
                      /\ notified[k] \notin unsubscribed /\ k \in lost => Whereabouts(k) = {}
    BY DEF NothingVanishes
  <2>2. ASSUME k \notin lost PROVE Whereabouts(k) # {}
    <3>1. PICK e \in Copies : Present(e) /\ e.n = k
      BY <2>1, <2>2 DEF PlaceInv
    <3>2. PICK x \in Places : CopyAt(x) = e
      BY <2>1, <3>1, HasPlace
    <3>3. e.chan = notified[k]
      BY <2>1, <3>1 DEF CopyInv
    <3> QED BY <3>1, <3>2, <3>3 DEF Whereabouts
  <2>3. ASSUME NEW x \in Whereabouts(k), NEW y \in Whereabouts(k), x # y,
               CopyAt(x).conn = CopyAt(y).conn \/ notified[k] \notin unsubscribed
        PROVE  FALSE
    <3>1. /\ x \in Places /\ CopyAt(x).n = k /\ CopyAt(x).chan = notified[k]
          /\ y \in Places /\ CopyAt(y).n = k /\ CopyAt(y).chan = notified[k]
      BY DEF Whereabouts
    <3>2. ASSUME NEW a, NEW b, a.n = k, b.n = k, a.chan = b.chan,
                 a.conn = b.conn \/ a.chan \notin unsubscribed
          PROVE  ~Fits(a, b, unsubscribed)
      <4>1. ~(k < k)
        BY <2>1 DEF PTypeOK
      <4> QED BY <3>2, <4>1 DEF Fits, Follows
    <3> QED BY <1>1, <2>1, <2>3, <3>1, <3>2, PlacesApart
  <2>4. ASSUME notified[k] \notin unsubscribed, k \in lost, NEW x \in Whereabouts(k)
        PROVE  FALSE
    <3>1. x \in Places /\ CopyAt(x).n = k
      BY DEF Whereabouts
    <3> QED BY <2>1, <2>4, <3>1, AtPlace DEF PlaceInv
  <2> QED BY <2>2, <2>3, <2>4
<1> QED BY <1>1, PInvariance, PTL

-----------------------------------------------------------------------------
(* The refinement.                                                         *)

LEMMA NumberRefines ==
  ASSUME WayInv, Number
  PROVE  \E n \in 1..Len(notified), c \in Gens : Feed!Number(n, c)
<1>1. PTypeOK /\ CopyInv /\ OrderInv
  BY DEF WayInv
<1>2. /\ watcher # <<>> /\ watcher \in Seq(Copies) /\ origin \in Seq(Copies)
      /\ origin' = Append(origin, Head(watcher))
      /\ UNCHANGED <<notified, unsubscribed>>
  BY <1>1 DEF Number, wayVars, pastVars, PTypeOK
<1> PICK e \in Copies : e = Head(watcher)
  BY <1>2, Taken
<1>3. e \in Kept /\ Present(e)
  BY <1>2, Taken DEF Kept, Present
<1>4. e.n \in 1..Len(notified) /\ e.conn \in Gens /\ e.chan = notified[e.n]
  <2>1. Len(notified) \in Nat /\ e.n \in Nat /\ 1 <= e.n /\ e.conn \in Gens
    BY <1>1, CopyTypes DEF PTypeOK
  <2> QED BY <1>1, <1>3, <2>1 DEF CopyInv
<1> DEFINE copy == [chan |-> notified[e.n], n |-> e.n, conn |-> e.conn]
           view(x) == [chan |-> x.chan, n |-> x.n, conn |-> x.conn]
<1>5. /\ Len(origin) \in Nat /\ Len(Numbered) = Len(origin)
      /\ \A i \in 1..Len(origin) : Numbered[i] = view(origin[i])
  BY <1>2 DEF Numbered
<1>6. ASSUME NEW i \in 1..Len(Numbered) PROVE Feed!MayFollow(Numbered[i], copy)
  <2>1. Fits(origin[i], e, unsubscribed)
    <3>1. origin[i] \in Done
      BY <1>2, <1>5, Held DEF Done
    <3> QED BY <1>1, <1>3, <3>1 DEF OrderInv, Across
  <2>2. /\ Numbered[i].chan = origin[i].chan /\ Numbered[i].n = origin[i].n
        /\ Numbered[i].conn = origin[i].conn
        /\ copy.chan = e.chan /\ copy.n = e.n /\ copy.conn = e.conn
    <3>1. Numbered[i] = view(origin[i])
      BY <1>5
    <3>2. copy.chan = e.chan /\ copy.n = e.n /\ copy.conn = e.conn
      BY <1>4
    <3>3. \A z : view(z).chan = z.chan /\ view(z).n = z.n /\ view(z).conn = z.conn
      OBVIOUS
    <3> HIDE DEF view, copy
    <3> QED BY <3>1, <3>2, <3>3
  <2>3. /\ origin[i].conn = e.conn => origin[i].n # e.n
        /\ origin[i].chan = e.chan /\ e.chan \notin unsubscribed => origin[i].n < e.n
    BY <2>1 DEF Fits, Follows
  <2> HIDE DEF copy
  <2> QED BY <2>2, <2>3 DEF Feed!MayFollow
<1>7. Numbered' = Append(Numbered, copy)
  <2>1. copy = view(e)
    BY <1>4
  <2>2. /\ Len(origin') = Len(origin) + 1 /\ origin'[Len(origin) + 1] = e
        /\ \A i \in 1..Len(origin) : origin'[i] = origin[i]
    BY <1>2, AppendProperties
  <2>3. Numbered' = [i \in 1..Len(origin) + 1 |-> view(origin'[i])]
    BY <2>2 DEF Numbered
  <2>4. /\ Numbered \in Seq({view(x) : x \in Copies}) /\ copy \in {view(x) : x \in Copies}
        /\ Numbered' \in Seq({view(x) : x \in Copies})
        /\ Len(Numbered') = Len(origin) + 1
        /\ \A i \in 1..Len(origin) + 1 : Numbered'[i] = view(origin'[i])
    <3>1. /\ \A i \in 1..Len(origin) : origin[i] \in Copies
          /\ \A i \in 1..Len(origin) + 1 : origin'[i] \in Copies
          /\ Len(origin) + 1 \in Nat
      BY <1>2, <2>2, <1>5, AppendProperties
    <3>2. Numbered = [i \in 1..Len(origin) |-> view(origin[i])]
      BY DEF Numbered
    <3> HIDE DEF view, copy
    <3> QED BY <1>5, <2>1, <2>3, <3>1, <3>2
  <2>5. /\ Append(Numbered, copy) \in Seq({view(x) : x \in Copies})
        /\ Len(Append(Numbered, copy)) = Len(origin) + 1
        /\ \A i \in 1..Len(origin) : Append(Numbered, copy)[i] = Numbered[i]
        /\ Append(Numbered, copy)[Len(origin) + 1] = copy
    <3> HIDE DEF view, copy
    <3> QED BY <1>5, <2>4, AppendProperties
  <2>6. \A i \in 1..Len(origin) + 1 : Numbered'[i] = Append(Numbered, copy)[i]
    <3>1. \A i \in 1..Len(origin) + 1 : i \in 1..Len(origin) \/ i = Len(origin) + 1
      BY <1>5
    <3> HIDE DEF view, copy
    <3> QED BY <1>5, <2>1, <2>2, <2>4, <2>5, <3>1
  <2> HIDE DEF copy, view
  <2> QED BY <2>4, <2>5, <2>6, SeqEqual
<1>8. Feed!Number(e.n, e.conn)
  BY <1>2, <1>6, <1>7 DEF Feed!Number
<1> QED BY <1>4, <1>8

\* What the relay and Start do of the notifications is what NotifyFeed
\* promises.
THEOREM NotifyFeedRefinement == PSpec => ImplementsNotifyFeed
<1>1. PInit => Feed!Init
  <2> SUFFICES ASSUME PInit PROVE Feed!Init
    OBVIOUS
  <2>1. Numbered = <<>>
    BY DEF PInit, Numbered
  <2> QED BY <2>1 DEF PInit, Feed!Init
<1>2. ASSUME WayInv, [PNext]_pvars PROVE [Feed!Next]_Feed!vars
  <2> USE DEF pastVars, startVars, wayVars
  <2>1. ASSUME UNCHANGED <<notified, origin, unsubscribed>> PROVE UNCHANGED Feed!vars
    BY <2>1 DEF Feed!vars, Numbered
  <2>2. ASSUME NEW ch \in Chans, Commit(ch) PROVE Feed!Next
    <3>1. /\ notified' = Append(notified, ch) /\ Numbered' = Numbered
          /\ unsubscribed' = unsubscribed
      BY <2>2 DEF Commit, Numbered
    <3> QED BY <3>1 DEF Feed!Next, Feed!Commit
  <2>3. ASSUME NEW p, NEW n \in Chans, UnsubscribeCall(p, n) PROVE Feed!Next
    <3>1. /\ notified' = notified /\ Numbered' = Numbered
          /\ unsubscribed' = unsubscribed \cup {n}
      BY <2>3 DEF UnsubscribeCall, LinesFollow, Numbered
    <3> QED BY <3>1 DEF Feed!Next, Feed!Disturb
  <2>4. CASE Number
    BY <1>2, <2>4, NumberRefines DEF Feed!Next
  <2>5. CASE CloseCall \/ DatabaseTurns \/ \E p \in Posts, n \in Chans : SubscribeCall(p, n)
    BY <2>1, <2>5 DEF CloseCall, DatabaseTurns, SubscribeCall, LinesFollow
  <2>6. ASSUME NEW p, CallMoves(p) PROVE UNCHANGED Feed!vars
    BY <2>1, <2>6 DEF CallMoves, LinesFollow
  <2>7. ASSUME NEW g, \/ LoopSteps(g) \/ ReceiveCopy(g) \/ DispatchCopy(g)
                      \/ ConnectionBreaks(g)
        PROVE  UNCHANGED Feed!vars
    BY <2>1, <2>7 DEF LoopSteps, ReceiveCopy, DispatchCopy, ConnectionBreaks, LinesFollow
  <2>8. CASE StartWatching \/ CancelStart \/ Stop \/ UNCHANGED pvars
    BY <2>1, <2>8 DEF StartWatching, CancelStart, Stop, pvars
  <2> QED BY <1>2, <2>2, <2>3, <2>4, <2>5, <2>6, <2>7, <2>8 DEF PNext
<1> QED BY <1>1, <1>2, PInvariance, PTL DEF PSpec, ImplementsNotifyFeed, Feed!Spec
=============================================================================
