----------------------------- MODULE RelayProofs -----------------------------
(***************************************************************************)
(* Theorems about Relay, for any channels, handlers and number of          *)
(* connections: type correctness, EveryChannelHasItsLoop,                  *)
(* NoLeakedConnection and ClosedForGood.                                   *)
(*                                                                         *)
(* The argument: the fields of a *sub are changed only by the loop that    *)
(* holds r.mu and found it in r.subs, or by the goroutine that took it out *)
(* of r.subs, so that no connection has two owners; and what a             *)
(* reconnection makes is a generation that nothing has seen before.        *)
(***************************************************************************)
EXTENDS Relay, TLAPS

\* Who connects holds r.mu, and the map is as it found it.
LockInv ==
  /\ \A p \in Procs : proc[p] = "connecting" =>
       /\ mu = p /\ arg[p] \in Chans /\ subs[arg[p]] = None
       /\ opened < MaxSubs
  /\ \A g \in Gens : loop[g] = "connecting" =>
       mu = g /\ subs[chan[g]] # None

\* Nothing is known of the generations to come.
FreshInv ==
  /\ \A g \in Gens : g > made =>
       loop[g] = "none" /\ conn[g] = "none" /\ g \notin cancelled
  /\ \A o \in Gens : cur[o] # None => o <= made /\ cur[o] <= made
  /\ \A g \in Gens : old[g] # None => old[g] <= made

\* Two *subs never share a generation, and those of r.subs listen on the name
\* they are found under.
NameInv ==
  /\ \A o, q \in Gens : cur[o] # None /\ cur[o] = cur[q] => o = q
  /\ \A n \in Chans : subs[n] # None =>
       /\ cur[subs[n]] # None
       /\ cur[subs[n]] \notin cancelled
       /\ chan[cur[subs[n]]] = n

\* A *sub to be closed is no longer in r.subs, and known to who closes it.
TeardownInv ==
  /\ \A p \in Procs : \A o \in toClose[p] :
       cur[o] # None /\ \A n \in Chans : subs[n] # o
  /\ \A p \in Procs : toClose[p] # {} => proc[p] = "teardown"
  /\ ~closed => toClose[Main] = {}

LoopInv ==
  \A g \in Gens :
    /\ loop[g] # "none" => chan[g] \in Chans
    /\ loop[g] = "wait" => held[g] # None
    /\ old[g] # None => loop[g] = "closeold"

\* A loop that has reconnected is not the current one any more, and will start
\* a loop nobody else starts.
HeirInv ==
  \A l \in Gens : loop[l] = "closeold" =>
    /\ heir[l] # None /\ heir[l] <= made
    /\ loop[heir[l]] = "none"
    /\ chan[heir[l]] \in Chans
    /\ \A n \in Chans : subs[n] # None => cur[subs[n]] # l
    /\ \A k \in Gens : loop[k] = "closeold" /\ heir[k] = heir[l] => k = l

\* The current generation of a channel has its loop.
AliveInv ==
  \A n \in Chans : subs[n] # None =>
    \/ loop[cur[subs[n]]] \notin {"none", "ended"}
    \/ \E l \in Gens : loop[l] = "closeold" /\ heir[l] = cur[subs[n]]

IInv ==
  /\ TypeOK
  /\ LockInv /\ FreshInv /\ NameInv /\ TeardownInv /\ LoopInv /\ HeirInv
  /\ AliveInv
  /\ NoLeakedConnection

-----------------------------------------------------------------------------

LEMMA Sets ==
  /\ \A g \in Gens : g \in Nat /\ g # None /\ g \notin Procs
  /\ \A p \in Procs : p # None
  /\ Main \in Procs /\ Handlers \subseteq Procs /\ Main \notin Handlers
BY RelayAssumption DEF Gens, Procs, None

\* With the lock free nobody connects; and one at most ever does.
LEMMA OneConnects ==
  ASSUME IInv
  PROVE  /\ mu = None => /\ \A p \in Procs : proc[p] # "connecting"
                         /\ \A g \in Gens : loop[g] # "connecting"
         /\ \A p \in Procs : proc[p] = "connecting" =>
              /\ \A q \in Procs : proc[q] = "connecting" => q = p
              /\ \A g \in Gens : loop[g] # "connecting"
         /\ \A g \in Gens : loop[g] = "connecting" =>
              /\ \A l \in Gens : loop[l] = "connecting" => l = g
              /\ \A p \in Procs : proc[p] # "connecting"
BY Sets DEF IInv, LockInv

LEMMA InvInit == Init => IInv
<1> SUFFICES ASSUME Init PROVE IInv
  OBVIOUS
<1>1. TypeOK
  <2>1. made \in 0..MaxGen /\ opened \in 0..MaxSubs /\ broken \in 0..MaxBreaks
    BY RelayAssumption DEF Init
  <2>2. /\ mu \in {None} \cup Gens \cup Procs
        /\ closed \in BOOLEAN
        /\ cancelled \subseteq Gens
        /\ db \in {"up"} \cup Outages
    BY DEF Init
  <2>3. /\ loop \in [Gens -> LoopStates]
        /\ proc \in [Procs -> ProcStates]
        /\ conn \in [Gens -> {"none", "up", "broken", "closed"}]
        /\ toClose \in [Procs -> SUBSET Gens]
    BY DEF Init, LoopStates, ProcStates
  <2> QED BY <2>1, <2>2, <2>3 DEF Init, TypeOK
<1>2. LockInv /\ FreshInv /\ NameInv /\ TeardownInv
  BY Sets DEF Init, LockInv, FreshInv, NameInv, TeardownInv
<1>3. LoopInv /\ HeirInv /\ AliveInv /\ NoLeakedConnection
  BY Sets DEF Init, LoopInv, HeirInv, AliveInv, NoLeakedConnection
<1> QED BY <1>1, <1>2, <1>3 DEF IInv

-----------------------------------------------------------------------------
(* Steps of a loop that change nothing but where it stands.                *)

LoopStep(g, state) ==
  /\ UNCHANGED <<relayVars, old, heir, procVars, db, countVars>>
  /\ loop[g] \notin {"none", "ended", "closeold"}
  /\ state \in LoopStates \ {"none", "closeold"}
  /\ loop' = [loop EXCEPT ![g] = state]
  /\ held' \in [Gens -> Gens \cup {None}]
  /\ reads' \in [Gens -> Gens \cup {None}]
  /\ \A l \in Gens : l # g => held'[l] = held[l]
  /\ state = "wait" => held'[g] # None
  /\ state = "ended" => \A n \in Chans : subs[n] # None => cur[subs[n]] # g
  /\ IF state = "connecting"
     THEN mu = None /\ mu' = g /\ subs[chan[g]] # None
     ELSE mu' = IF loop[g] = "connecting" THEN None ELSE mu

LEMMA InvLoopStep ==
  ASSUME IInv, NEW g \in Gens, NEW state, LoopStep(g, state)
  PROVE  IInv'
<1>1. /\ TypeOK /\ LockInv /\ FreshInv /\ NameInv /\ TeardownInv
      /\ LoopInv /\ HeirInv /\ AliveInv /\ NoLeakedConnection
  BY DEF IInv
<1>2. /\ UNCHANGED <<closed, subs, cur, chan, conn, cancelled, old, heir, proc,
                     arg, toClose, db, made, opened, broken>>
      /\ loop \in [Gens -> LoopStates]
      /\ loop' = [loop EXCEPT ![g] = state]
      /\ loop'[g] = state /\ \A l \in Gens : l # g => loop'[l] = loop[l]
  BY <1>1 DEF LoopStep, TypeOK, relayVars, procVars, countVars
<1>3. /\ loop[g] \notin {"none", "ended", "closeold"}
      /\ state \in LoopStates \ {"none", "closeold"}
      /\ \A l \in Gens : l # g => held'[l] = held[l]
      /\ state = "wait" => held'[g] # None
      /\ state = "ended" => \A n \in Chans : subs[n] # None => cur[subs[n]] # g
  BY DEF LoopStep
<1>4. TypeOK'
  <2>1. loop' \in [Gens -> LoopStates]
    BY <1>2, <1>3
  <2>2. mu' \in {None} \cup Gens \cup Procs
    BY <1>1 DEF LoopStep, TypeOK
  <2>3. /\ held' \in [Gens -> Gens \cup {None}]
        /\ reads' \in [Gens -> Gens \cup {None}]
    BY DEF LoopStep
  <2> QED BY <1>1, <1>2, <2>1, <2>2, <2>3 DEF TypeOK
<1>5. LockInv'
  <2>1. CASE state = "connecting"
    <3>1. mu = None /\ mu' = g /\ subs[chan[g]] # None
      BY <2>1 DEF LoopStep
    <3> QED BY <1>1, <1>2, <2>1, <3>1, OneConnects DEF LockInv
  <2>2. CASE state # "connecting" /\ loop[g] = "connecting"
    BY <1>1, <1>2, <2>2, OneConnects DEF LockInv
  <2>3. CASE state # "connecting" /\ loop[g] # "connecting"
    <3>1. mu' = mu
      BY <2>3 DEF LoopStep
    <3> QED BY <1>1, <1>2, <2>3, <3>1 DEF LockInv
  <2> QED BY <2>1, <2>2, <2>3
<1>6. FreshInv'
  BY <1>1, <1>2, <1>3 DEF FreshInv
<1>7. NameInv' /\ TeardownInv' /\ NoLeakedConnection'
  BY <1>1, <1>2 DEF NameInv, TeardownInv, NoLeakedConnection
<1>8. LoopInv'
  BY <1>1, <1>2, <1>3 DEF LoopInv
<1>9. HeirInv'
  <2> SUFFICES ASSUME NEW l \in Gens, loop'[l] = "closeold"
               PROVE  /\ heir[l] # None /\ heir[l] <= made
                      /\ loop'[heir[l]] = "none"
                      /\ chan[heir[l]] \in Chans
                      /\ \A n \in Chans : subs[n] # None => cur[subs[n]] # l
                      /\ \A k \in Gens :
                           loop'[k] = "closeold" /\ heir[k] = heir[l] => k = l
    BY <1>2 DEF HeirInv
  <2>1. l # g /\ loop[l] = "closeold"
    BY <1>2, <1>3
  <2>2. heir[l] \in Gens /\ heir[l] # g
    BY <1>1, <1>3, <2>1 DEF HeirInv, TypeOK
  <2>3. \A k \in Gens : loop'[k] = "closeold" => loop[k] = "closeold"
    BY <1>2, <1>3
  <2> QED BY <1>1, <1>2, <2>1, <2>2, <2>3 DEF HeirInv
<1>10. AliveInv'
  <2> SUFFICES ASSUME NEW n \in Chans, subs[n] # None
               PROVE  \/ loop'[cur[subs[n]]] \notin {"none", "ended"}
                      \/ \E l \in Gens :
                           loop'[l] = "closeold" /\ heir[l] = cur[subs[n]]
    BY <1>2 DEF AliveInv
  <2>1. cur[subs[n]] \in Gens
    BY <1>1 DEF TypeOK, NameInv
  <2>2. CASE cur[subs[n]] = g
    BY <1>2, <1>3, <2>2
  <2>3. CASE cur[subs[n]] # g /\ loop[cur[subs[n]]] \notin {"none", "ended"}
    BY <1>2, <2>1, <2>3
  <2>4. CASE \E l \in Gens : loop[l] = "closeold" /\ heir[l] = cur[subs[n]]
    BY <1>2, <1>3, <2>4
  <2> QED BY <1>1, <2>2, <2>3, <2>4 DEF AliveInv
<1> QED BY <1>4, <1>5, <1>6, <1>7, <1>8, <1>9, <1>10 DEF IInv

\* The end of a loop, and its return from a wait with an error.
LEMMA LoopFacts ==
  ASSUME IInv, NEW g \in Gens
  PROVE  /\ loop[g] # "none" /\ subs[chan[g]] = None
              => \A n \in Chans : subs[n] # None => cur[subs[n]] # g
         /\ g \in cancelled
              => \A n \in Chans : subs[n] # None => cur[subs[n]] # g
         /\ held \in [Gens -> Gens \cup {None}]
         /\ reads \in [Gens -> Gens \cup {None}]
BY DEF IInv, TypeOK, NameInv, LoopInv

LEMMA InvLoopMoves ==
  ASSUME IInv, NEW g \in Gens,
         \/ Lookup(g) \/ Dispatch(g) \/ Reconnect(g) \/ Wait(g) \/ WaitFails(g)
         \/ Receive(g) \/ Timer(g) \/ BackoffDone(g) \/ ReconnectFails(g)
  PROVE  IInv'
<1> USE LoopFacts DEF LoopStates, GoLoop, End
<1>1. TypeOK /\ LoopInv
  BY DEF IInv
<1>2. CASE Lookup(g)
  <2>1. CASE subs[chan[g]] = None
    <3>1. LoopStep(g, "ended")
      BY <1>2, <2>1 DEF Lookup, LoopStep
    <3> QED BY <3>1, InvLoopStep
  <2>2. CASE subs[chan[g]] # None
    <3>1. subs[chan[g]] \in Gens
      BY <1>1, <1>2, <2>2 DEF Lookup, LoopInv, TypeOK
    <3>2. LoopStep(g, "wait")
      BY <1>2, <2>2, <3>1 DEF Lookup, LoopStep
    <3> QED BY <3>2, InvLoopStep
  <2> QED BY <2>1, <2>2
<1>3. CASE Dispatch(g)
  <2>1. LoopStep(g, "born")
    BY <1>3 DEF Dispatch, LoopStep
  <2> QED BY <2>1, InvLoopStep
<1>4. CASE Reconnect(g)
  <2>1. CASE subs[chan[g]] = None
    <3>1. LoopStep(g, "ended")
      BY <1>4, <2>1 DEF Reconnect, LoopStep
    <3> QED BY <3>1, InvLoopStep
  <2>2. CASE subs[chan[g]] # None
    <3>1. LoopStep(g, "connecting")
      BY <1>4, <2>2 DEF Reconnect, LoopStep
    <3> QED BY <3>1, InvLoopStep
  <2> QED BY <2>1, <2>2
<1>5. ASSUME loop[g] \in {"wait", "waiting"}, WaitError(g),
             UNCHANGED <<mu, relayVars, old, heir, procVars, db, countVars>>
      PROVE  IInv'
  <2>1. CASE g \in cancelled
    <3>1. LoopStep(g, "ended")
      BY <1>5, <2>1 DEF WaitError, LoopStep
    <3> QED BY <3>1, InvLoopStep
  <2>2. CASE g \notin cancelled
    <3>1. LoopStep(g, "backoff")
      BY <1>5, <2>2 DEF WaitError, LoopStep
    <3> QED BY <3>1, InvLoopStep
  <2> QED BY <2>1, <2>2
<1>6. CASE Wait(g)
  <2>1. CASE WaitError(g)
    BY <1>5, <1>6, <2>1 DEF Wait
  <2>2. CASE ~WaitError(g)
    <3>1. held[g] \in Gens /\ cur[held[g]] \in Gens \cup {None}
      BY <1>1, <1>6 DEF Wait, LoopInv, TypeOK
    <3>2. LoopStep(g, "waiting")
      BY <1>6, <2>2, <3>1 DEF Wait, LoopStep
    <3> QED BY <3>2, InvLoopStep
  <2> QED BY <2>1, <2>2
<1>7. CASE WaitFails(g)
  BY <1>5, <1>7 DEF WaitFails
<1>8. CASE Receive(g)
  <2>1. LoopStep(g, "dispatch")
    BY <1>8 DEF Receive, LoopStep
  <2> QED BY <2>1, InvLoopStep
<1>9. CASE Timer(g)
  <2>1. LoopStep(g, "reconnect")
    BY <1>9 DEF Timer, LoopStep
  <2> QED BY <2>1, InvLoopStep
<1>10. CASE BackoffDone(g)
  <2>1. LoopStep(g, "ended")
    BY <1>10 DEF BackoffDone, LoopStep
  <2> QED BY <2>1, InvLoopStep
<1>11. CASE ReconnectFails(g)
  <2>1. LoopStep(g, "born")
    BY <1>11 DEF ReconnectFails, LoopStep
  <2> QED BY <2>1, InvLoopStep
<1> QED BY <1>2, <1>3, <1>4, <1>6, <1>7, <1>8, <1>9, <1>10, <1>11

-----------------------------------------------------------------------------
(* Steps of a handler or of main that change nothing but where it stands.  *)

ProcStep(p, state) ==
  /\ UNCHANGED <<relayVars, loopVars, toClose, db, countVars>>
  /\ state \in ProcStates \ {"teardown"}
  /\ proc[p] = "teardown" => toClose[p] = {}
  /\ proc' = [proc EXCEPT ![p] = state]
  /\ arg' \in [Procs -> Chans \cup {None}]
  /\ \A q \in Procs : q # p => arg'[q] = arg[q]
  /\ IF state = "connecting"
     THEN /\ mu = None /\ mu' = p /\ arg'[p] \in Chans /\ subs[arg'[p]] = None
          /\ opened < MaxSubs
     ELSE mu' = IF proc[p] = "connecting" THEN None ELSE mu

LEMMA InvProcStep ==
  ASSUME IInv, NEW p \in Procs, NEW state, ProcStep(p, state)
  PROVE  IInv'
<1>1. /\ TypeOK /\ LockInv /\ FreshInv /\ NameInv /\ TeardownInv
      /\ LoopInv /\ HeirInv /\ AliveInv /\ NoLeakedConnection
  BY DEF IInv
<1>2. /\ UNCHANGED <<closed, subs, cur, chan, conn, cancelled, loop, held,
                     reads, old, heir, toClose, db, made, opened, broken>>
      /\ proc \in [Procs -> ProcStates]
      /\ proc' = [proc EXCEPT ![p] = state]
      /\ proc'[p] = state /\ \A q \in Procs : q # p => proc'[q] = proc[q]
  BY <1>1 DEF ProcStep, TypeOK, relayVars, loopVars, countVars
<1>3. /\ state \in ProcStates \ {"teardown"}
      /\ proc[p] = "teardown" => toClose[p] = {}
      /\ arg' \in [Procs -> Chans \cup {None}]
      /\ \A q \in Procs : q # p => arg'[q] = arg[q]
  BY DEF ProcStep
<1>4. TypeOK'
  <2>1. proc' \in [Procs -> ProcStates]
    BY <1>2, <1>3
  <2>2. mu' \in {None} \cup Gens \cup Procs
    BY <1>1 DEF ProcStep, TypeOK
  <2> QED BY <1>1, <1>2, <1>3, <2>1, <2>2 DEF TypeOK
<1>5. LockInv'
  <2>1. CASE state = "connecting"
    <3>1. /\ mu = None /\ mu' = p /\ arg'[p] \in Chans /\ subs[arg'[p]] = None
          /\ opened < MaxSubs
      BY <2>1 DEF ProcStep
    <3> QED BY <1>1, <1>2, <2>1, <3>1, OneConnects DEF LockInv
  <2>2. CASE state # "connecting" /\ proc[p] = "connecting"
    BY <1>1, <1>2, <2>2, OneConnects DEF LockInv
  <2>3. CASE state # "connecting" /\ proc[p] # "connecting"
    <3>1. mu' = mu
      BY <2>3 DEF ProcStep
    <3> QED BY <1>1, <1>2, <1>3, <2>3, <3>1 DEF LockInv
  <2> QED BY <2>1, <2>2, <2>3
<1>6. FreshInv' /\ NameInv' /\ NoLeakedConnection'
  BY <1>1, <1>2 DEF FreshInv, NameInv, NoLeakedConnection
<1>7. TeardownInv'
  BY <1>1, <1>2, <1>3 DEF TeardownInv
<1>8. LoopInv' /\ HeirInv' /\ AliveInv'
  BY <1>1, <1>2 DEF LoopInv, HeirInv, AliveInv
<1> QED BY <1>4, <1>5, <1>6, <1>7, <1>8 DEF IInv

LEMMA InvProcMoves ==
  ASSUME IInv, NEW p \in Procs,
         \/ \E n \in Chans : Subscribe(p, n)
         \/ SubscribeFails(p) \/ TeardownDone(p)
         \/ AskHealthy(p) \/ ReadPool(p) \/ Answer(p)
  PROVE  IInv'
<1> USE DEF ProcStates
<1>1. arg \in [Procs -> Chans \cup {None}]
  BY DEF IInv, TypeOK
<1>2. ASSUME NEW n \in Chans, Subscribe(p, n) PROVE IInv'
  <2>1. ProcStep(p, "connecting")
    BY <1>1, <1>2 DEF Subscribe, ProcStep
  <2> QED BY <2>1, InvProcStep
<1>3. CASE SubscribeFails(p) \/ TeardownDone(p) \/ Answer(p)
  <2>1. ProcStep(p, "idle")
    BY <1>1, <1>3 DEF SubscribeFails, TeardownDone, Answer, ProcStep
  <2> QED BY <2>1, InvProcStep
<1>4. CASE AskHealthy(p)
  <2>1. ProcStep(p, "healthy")
    BY <1>1, <1>4 DEF AskHealthy, ProcStep
  <2> QED BY <2>1, InvProcStep
<1>5. CASE ReadPool(p)
  <2>1. ProcStep(p, "ping")
    BY <1>1, <1>5 DEF ReadPool, ProcStep
  <2> QED BY <2>1, InvProcStep
<1> QED BY <1>2, <1>3, <1>4, <1>5

-----------------------------------------------------------------------------
(* Taking *subs out of the map, and closing them.                          *)

\* The *subs of names leave r.subs for the hands of p, which had none.
TakesOut(p, names) ==
  /\ mu = None /\ mu' = None
  /\ subs' = [n \in Chans |-> IF n \in names THEN None ELSE subs[n]]
  /\ toClose[p] = {}
  /\ toClose' = [toClose EXCEPT ![p] = {subs[n] : n \in names} \ {None}]
  /\ proc' = [proc EXCEPT ![p] = "teardown"]
  /\ IF p = Main THEN closed' = TRUE ELSE closed' = closed
  /\ UNCHANGED <<cur, chan, conn, cancelled, loopVars, arg, db, countVars>>

LEMMA InvTakesOut ==
  ASSUME IInv, NEW p \in Procs, NEW names \in SUBSET Chans,
         TakesOut(p, names)
  PROVE  IInv'
<1>1. /\ TypeOK /\ LockInv /\ FreshInv /\ NameInv /\ TeardownInv
      /\ LoopInv /\ HeirInv /\ AliveInv /\ NoLeakedConnection
  BY DEF IInv
<1>2. /\ UNCHANGED <<cur, chan, conn, cancelled, loop, held, reads, old, heir,
                     arg, db, made, opened, broken>>
      /\ mu = None /\ mu' = None /\ toClose[p] = {}
      /\ \A n \in Chans : subs'[n] = IF n \in names THEN None ELSE subs[n]
      /\ \A q \in Procs : q # p => toClose'[q] = toClose[q]
      /\ toClose'[p] = {subs[n] : n \in names} \ {None}
      /\ \A q \in Procs : q # p => proc'[q] = proc[q]
      /\ proc'[p] = "teardown"
      /\ IF p = Main THEN closed' = TRUE ELSE closed' = closed
  BY <1>1 DEF TakesOut, TypeOK, loopVars, countVars
<1>3. TypeOK'
  <2>1. subs' \in [Chans -> Gens \cup {None}]
    BY <1>1 DEF TakesOut, TypeOK
  <2>2. {subs[n] : n \in names} \ {None} \in SUBSET Gens
    BY <1>1 DEF TypeOK
  <2>3. toClose' \in [Procs -> SUBSET Gens]
    BY <1>1, <2>2 DEF TakesOut, TypeOK
  <2>4. proc' \in [Procs -> ProcStates]
    BY <1>1 DEF TakesOut, TypeOK, ProcStates
  <2>5. closed' \in BOOLEAN
    BY <1>1 DEF TakesOut, TypeOK
  <2> QED BY <1>1, <1>2, <2>1, <2>3, <2>4, <2>5 DEF TypeOK
<1>4. LockInv'
  BY <1>1, <1>2, OneConnects DEF LockInv
<1>5. FreshInv' /\ LoopInv'
  BY <1>1, <1>2 DEF FreshInv, LoopInv
<1>6. NameInv' /\ HeirInv' /\ AliveInv'
  BY <1>1, <1>2 DEF NameInv, HeirInv, AliveInv
<1>7. TeardownInv'
  <2>1. ASSUME NEW o \in toClose'[p]
        PROVE  cur[o] # None /\ \A n \in Chans : subs'[n] # o
    <3>1. PICK m \in names : o = subs[m] /\ subs[m] # None
      BY <1>2, <2>1
    <3>2. cur[o] # None /\ chan[cur[o]] = m
      BY <1>1, <3>1 DEF NameInv
    <3>3. ASSUME NEW n \in Chans, subs'[n] = o PROVE FALSE
      <4>1. n \notin names /\ subs[n] = o /\ subs[n] # None
        BY <1>2, <3>1, <3>3
      <4>2. chan[cur[o]] = n
        BY <1>1, <4>1 DEF NameInv
      <4> QED BY <3>1, <3>2, <4>1, <4>2
    <3> QED BY <3>2, <3>3
  <2>2. ASSUME NEW q \in Procs, q # p, NEW o \in toClose'[q]
        PROVE  cur[o] # None /\ \A n \in Chans : subs'[n] # o
    <3>1. o \in Gens /\ o \in toClose[q]
      BY <1>1, <1>2, <2>2 DEF TypeOK
    <3> QED BY <1>1, <1>2, <3>1, Sets DEF TeardownInv
  <2>3. \A q \in Procs : toClose'[q] # {} => proc'[q] = "teardown"
    BY <1>1, <1>2 DEF TeardownInv
  <2>4. ~closed' => toClose'[Main] = {}
    BY <1>1, <1>2, Sets DEF TeardownInv
  <2> QED BY <1>2, <2>1, <2>2, <2>3, <2>4 DEF TeardownInv
<1>8. NoLeakedConnection'
  <2> SUFFICES ASSUME NEW g \in Gens, conn[g] \in {"up", "broken"}
               PROVE  \/ \E n \in Chans : subs'[n] # None /\ cur[subs'[n]] = g
                      \/ \E q \in Procs : \E o \in toClose'[q] : cur[o] = g
                      \/ \E l \in Gens : old[l] = g
    BY <1>2 DEF NoLeakedConnection
  <2>1. CASE \E n \in Chans : subs[n] # None /\ cur[subs[n]] = g
    <3>1. PICK n \in Chans : subs[n] # None /\ cur[subs[n]] = g
      BY <2>1
    <3>2. CASE n \in names
      BY <1>2, <3>1, <3>2
    <3>3. CASE n \notin names
      BY <1>2, <3>1, <3>3
    <3> QED BY <3>2, <3>3
  <2>2. CASE \E q \in Procs : \E o \in toClose[q] : cur[o] = g
    <3>1. PICK q \in Procs : \E o \in toClose[q] : cur[o] = g
      BY <2>2
    <3>2. q # p
      BY <1>2, <3>1
    <3> QED BY <1>2, <3>1, <3>2
  <2> QED BY <1>1, <2>1, <2>2 DEF NoLeakedConnection
<1> QED BY <1>3, <1>4, <1>5, <1>6, <1>7, <1>8 DEF IInv

LEMMA InvTakeOut ==
  ASSUME IInv, Close \/ \E p \in Handlers, n \in Chans : Unsubscribe(p, n)
  PROVE  IInv'
<1>1. TypeOK /\ TeardownInv
  BY DEF IInv
<1>2. CASE Close
  <2>1. TakesOut(Main, Chans)
    BY <1>1, <1>2 DEF Close, TakesOut, TeardownInv
  <2> QED BY <2>1, InvTakesOut, Sets
<1>3. ASSUME NEW p \in Handlers, NEW n \in Chans, Unsubscribe(p, n)
      PROVE  IInv'
  <2>1. p \in Procs /\ p # Main
    BY Sets
  <2>2. toClose[p] = {}
    BY <1>1, <1>3, <2>1 DEF Unsubscribe, TeardownInv
  <2>3. /\ subs' = [m \in Chans |-> IF m \in {n} THEN None ELSE subs[m]]
        /\ {subs[m] : m \in {n}} \ {None} = {subs[n]}
    <3>1. subs' = [subs EXCEPT ![n] = None] /\ subs[n] # None
      BY <1>3 DEF Unsubscribe
    <3>2. subs' = [m \in Chans |-> IF m \in {n} THEN None ELSE subs[m]]
      BY <1>1, <3>1 DEF TypeOK
    <3>3. {subs[m] : m \in {n}} \ {None} = {subs[n]}
      BY <3>1
    <3> QED BY <3>2, <3>3
  <2>4. TakesOut(p, {n})
    BY <1>3, <2>1, <2>2, <2>3 DEF Unsubscribe, TakesOut
  <2> QED BY <2>1, <2>4, InvTakesOut
<1> QED BY <1>2, <1>3

\* Only generations that are in no channel's *sub are cancelled.
LEMMA InvCancel ==
  ASSUME IInv, NEW p \in Procs, NEW o \in toClose[p], Cancel(p, o)
  PROVE  IInv'
<1>1. /\ TypeOK /\ LockInv /\ FreshInv /\ NameInv /\ TeardownInv
      /\ LoopInv /\ HeirInv /\ AliveInv /\ NoLeakedConnection
  BY DEF IInv
<1>2. /\ UNCHANGED <<mu, closed, subs, cur, chan, conn, loop, held, reads, old,
                     heir, proc, arg, toClose, db, made, opened, broken>>
      /\ cancelled' = cancelled \cup {cur[o]}
  BY DEF Cancel, loopVars, procVars, countVars
<1>3. /\ o \in Gens /\ cur[o] \in Gens /\ cur[o] <= made
      /\ \A n \in Chans : subs[n] # None => cur[subs[n]] # cur[o]
  <2>1. o \in Gens /\ cur[o] # None /\ \A n \in Chans : subs[n] # o
    BY <1>1 DEF TypeOK, TeardownInv
  <2> QED BY <1>1, <2>1 DEF TypeOK, FreshInv, NameInv
<1>4. TypeOK'
  BY <1>1, <1>2, <1>3 DEF TypeOK
<1>5. FreshInv'
  BY <1>1, <1>2, <1>3, RelayAssumption DEF FreshInv, TypeOK, Gens
<1>6. NameInv'
  BY <1>1, <1>2, <1>3 DEF NameInv
<1>7. /\ LockInv' /\ TeardownInv' /\ LoopInv' /\ HeirInv' /\ AliveInv'
      /\ NoLeakedConnection'
  BY <1>1, <1>2 DEF LockInv, TeardownInv, LoopInv, HeirInv, AliveInv,
     NoLeakedConnection
<1> QED BY <1>1, <1>4, <1>5, <1>6, <1>7 DEF IInv

\* A *sub is let go of once its connection is closed.
LEMMA InvCloseConn ==
  ASSUME IInv, NEW p \in Procs, NEW o \in toClose[p], CloseConn(p, o)
  PROVE  IInv'
<1>1. /\ TypeOK /\ LockInv /\ FreshInv /\ NameInv /\ TeardownInv
      /\ LoopInv /\ HeirInv /\ AliveInv /\ NoLeakedConnection
  BY DEF IInv
<1>2. /\ UNCHANGED <<mu, closed, subs, cur, chan, cancelled, loop, held, reads,
                     old, heir, proc, arg, db, made, opened, broken>>
      /\ conn' = [conn EXCEPT ![cur[o]] = "closed"]
      /\ toClose' = [toClose EXCEPT ![p] = @ \ {o}]
  BY DEF CloseConn, loopVars, countVars
<1>3. o \in Gens /\ cur[o] \in Gens /\ cur[o] <= made
  <2>1. o \in Gens /\ cur[o] # None
    BY <1>1 DEF TypeOK, TeardownInv
  <2> QED BY <1>1, <2>1 DEF TypeOK, FreshInv
<1>4. /\ conn'[cur[o]] = "closed"
      /\ \A g \in Gens : g # cur[o] => conn'[g] = conn[g]
      /\ toClose'[p] = toClose[p] \ {o}
      /\ \A q \in Procs : q # p => toClose'[q] = toClose[q]
  BY <1>1, <1>2, <1>3 DEF TypeOK
<1>5. TypeOK'
  BY <1>1, <1>2 DEF TypeOK
<1>6. FreshInv'
  <2>1. \A g \in Gens : g > made => g # cur[o]
    BY <1>1, <1>3, RelayAssumption DEF TypeOK, Gens
  <2> QED BY <1>1, <1>2, <1>4, <2>1 DEF FreshInv
<1>7. TeardownInv'
  BY <1>1, <1>2, <1>4, Sets DEF TeardownInv
<1>8. NoLeakedConnection'
  BY <1>1, <1>2, <1>4 DEF NoLeakedConnection
<1>9. LockInv' /\ NameInv' /\ LoopInv' /\ HeirInv' /\ AliveInv'
  BY <1>1, <1>2 DEF LockInv, NameInv, LoopInv, HeirInv, AliveInv
<1> QED BY <1>5, <1>6, <1>7, <1>8, <1>9 DEF IInv

-----------------------------------------------------------------------------
(* A generation is born.                                                   *)

LEMMA InvSubscribeDone ==
  ASSUME IInv, NEW p \in Procs, SubscribeDone(p)
  PROVE  IInv'
<1> DEFINE h == made + 1
           n == arg[p]
<1>1. /\ TypeOK /\ LockInv /\ FreshInv /\ NameInv /\ TeardownInv
      /\ LoopInv /\ HeirInv /\ AliveInv /\ NoLeakedConnection
  BY DEF IInv
<1>2. /\ h \in Gens /\ h > made /\ \A g \in Gens : g > h => g > made
      /\ n \in Chans /\ subs[n] = None /\ proc[p] = "connecting"
      /\ made' = h /\ made' \in 0..MaxGen
  BY <1>1, RelayAssumption DEF SubscribeDone, TypeOK, LockInv, Gens
<1>3. /\ UNCHANGED <<closed, cancelled, held, reads, old, heir, toClose, db,
                     broken>>
      /\ mu' = None
      /\ conn' = [conn EXCEPT ![h] = "up"]
      /\ chan' = [chan EXCEPT ![h] = n]
      /\ cur' = [cur EXCEPT ![h] = h]
      /\ subs' = [subs EXCEPT ![n] = h]
      /\ loop' = [loop EXCEPT ![h] = "born"]
      /\ proc' = [proc EXCEPT ![p] = "idle"]
      /\ arg' = [arg EXCEPT ![p] = None]
  BY DEF SubscribeDone
<1> HIDE DEF h, n
<1>4. /\ conn'[h] = "up" /\ chan'[h] = n /\ cur'[h] = h /\ loop'[h] = "born"
      /\ \A g \in Gens : g # h => /\ conn'[g] = conn[g] /\ chan'[g] = chan[g]
                                  /\ cur'[g] = cur[g] /\ loop'[g] = loop[g]
      /\ subs'[n] = h /\ \A m \in Chans : m # n => subs'[m] = subs[m]
      /\ proc'[p] = "idle" /\ \A q \in Procs : q # p => proc'[q] = proc[q]
  BY <1>1, <1>2, <1>3 DEF TypeOK
<1>5. /\ loop[h] = "none" /\ conn[h] = "none" /\ h \notin cancelled
      /\ cur[h] = None /\ \A o \in Gens : cur[o] # h
      /\ \A m \in Chans : subs[m] # h
  BY <1>1, <1>2, Sets DEF FreshInv, NameInv, TypeOK
<1>6. TypeOK'
  <2>1. opened' \in 0..MaxSubs
    <3>1. opened' = opened + 1 /\ opened < MaxSubs /\ opened \in 0..MaxSubs
      BY <1>1, <1>2 DEF SubscribeDone, LockInv, TypeOK
    <3> QED BY <3>1, RelayAssumption
  <2>2. /\ conn' \in [Gens -> {"none", "up", "broken", "closed"}]
        /\ chan' \in [Gens -> Chans \cup {None}]
        /\ cur' \in [Gens -> Gens \cup {None}]
        /\ subs' \in [Chans -> Gens \cup {None}]
    BY <1>1, <1>2, <1>3 DEF TypeOK
  <2>3. /\ loop' \in [Gens -> LoopStates]
        /\ proc' \in [Procs -> ProcStates]
        /\ arg' \in [Procs -> Chans \cup {None}]
    BY <1>1, <1>2, <1>3 DEF TypeOK, LoopStates, ProcStates
  <2> QED BY <1>1, <1>2, <1>3, <2>1, <2>2, <2>3 DEF TypeOK
<1>7. LockInv'
  BY <1>1, <1>2, <1>3, <1>4, OneConnects DEF LockInv
<1>8. FreshInv'
  <2>1. \A g \in Gens : g > h => g # h /\ g > made
    BY <1>2, RelayAssumption DEF Gens
  <2>2. \A o \in Gens : cur'[o] # None => o <= h /\ cur'[o] <= h
    <3> SUFFICES ASSUME NEW o \in Gens, cur'[o] # None
                 PROVE  o <= h /\ cur'[o] <= h
      OBVIOUS
    <3>1. CASE o = h
      BY <1>4, <3>1, RelayAssumption DEF Gens
    <3>2. CASE o # h
      <4>1. cur[o] \in Gens /\ o <= made /\ cur[o] <= made /\ cur'[o] = cur[o]
        BY <1>1, <1>4, <3>2 DEF FreshInv, TypeOK
      <4>2. h = made + 1 /\ made \in Nat
        BY <1>1 DEF TypeOK, h
      <4> QED BY <4>1, <4>2, RelayAssumption DEF Gens
    <3> QED BY <3>1, <3>2
  <2>3. \A g \in Gens : old[g] # None => old[g] <= h
    <3>1. h = made + 1 /\ made \in Nat
      BY <1>1 DEF TypeOK, h
    <3> QED BY <1>1, <3>1 DEF FreshInv, TypeOK, Gens
  <2> QED BY <1>1, <1>2, <1>3, <1>4, <2>1, <2>2, <2>3 DEF FreshInv
<1>9. NameInv'
  <2>1. \A o, q \in Gens : cur'[o] # None /\ cur'[o] = cur'[q] => o = q
    BY <1>1, <1>4, <1>5 DEF NameInv
  <2>2. ASSUME NEW m \in Chans, subs'[m] # None
        PROVE  /\ cur'[subs'[m]] # None
               /\ cur'[subs'[m]] \notin cancelled'
               /\ chan'[cur'[subs'[m]]] = m
    <3>1. CASE m = n
      BY <1>2, <1>3, <1>4, <1>5, <3>1, Sets
    <3>2. CASE m # n
      <4>1. subs'[m] = subs[m] /\ subs[m] \in Gens /\ subs[m] # h
        BY <1>1, <1>4, <1>5, <2>2, <3>2 DEF TypeOK
      <4>2. cur'[subs[m]] = cur[subs[m]] /\ cur[subs[m]] # h
        BY <1>4, <1>5, <4>1
      <4>3. cur[subs[m]] \in Gens
        BY <1>1, <2>2, <4>1 DEF NameInv, TypeOK
      <4> QED BY <1>1, <1>3, <1>4, <2>2, <4>1, <4>2, <4>3 DEF NameInv
    <3> QED BY <3>1, <3>2
  <2> QED BY <2>1, <2>2 DEF NameInv
<1>10. TeardownInv'
  <2>1. ASSUME NEW q \in Procs, NEW o \in toClose[q]
        PROVE  cur'[o] # None /\ \A m \in Chans : subs'[m] # o
    <3>1. o \in Gens /\ o # h
      BY <1>1, <1>5, <2>1 DEF TypeOK, TeardownInv
    <3> QED BY <1>1, <1>4, <2>1, <3>1 DEF TeardownInv
  <2> QED BY <1>1, <1>2, <1>3, <1>4, <2>1 DEF TeardownInv
<1>11. LoopInv'
  <2>1. ASSUME NEW g \in Gens
        PROVE  /\ loop'[g] # "none" => chan'[g] \in Chans
               /\ loop'[g] = "wait" => held[g] # None
               /\ old[g] # None => loop'[g] = "closeold"
    <3>1. CASE g = h
      BY <1>1, <1>2, <1>4, <1>5, <3>1 DEF LoopInv
    <3>2. CASE g # h
      BY <1>1, <1>4, <3>2 DEF LoopInv
    <3> QED BY <3>1, <3>2
  <2> QED BY <1>3, <2>1 DEF LoopInv
<1>12. HeirInv'
  <2> SUFFICES ASSUME NEW l \in Gens, loop'[l] = "closeold"
               PROVE  /\ heir[l] # None /\ heir[l] <= made'
                      /\ loop'[heir[l]] = "none"
                      /\ chan'[heir[l]] \in Chans
                      /\ \A m \in Chans : subs'[m] # None => cur'[subs'[m]] # l
                      /\ \A k \in Gens :
                           loop'[k] = "closeold" /\ heir[k] = heir[l] => k = l
    BY <1>3 DEF HeirInv
  <2>1. l # h /\ loop[l] = "closeold"
    BY <1>4
  <2>2. heir[l] \in Gens /\ heir[l] <= made
    BY <1>1, <2>1 DEF HeirInv, TypeOK
  <2>3. heir[l] # h /\ heir[l] <= made'
    BY <1>1, <1>2, <2>2 DEF TypeOK, Gens
  <2>4. \A k \in Gens : loop'[k] = "closeold" => loop[k] = "closeold"
    BY <1>4
  <2>5. ASSUME NEW m \in Chans, subs'[m] # None PROVE cur'[subs'[m]] # l
    <3>1. CASE m = n
      BY <1>4, <2>1, <3>1
    <3>2. CASE m # n
      <4>1. subs'[m] = subs[m] /\ subs[m] \in Gens /\ subs[m] # h
        BY <1>1, <1>4, <1>5, <2>5, <3>2 DEF TypeOK
      <4> QED BY <1>1, <1>4, <2>1, <2>5, <4>1 DEF HeirInv
    <3> QED BY <3>1, <3>2
  <2> QED BY <1>1, <1>4, <2>1, <2>2, <2>3, <2>4, <2>5 DEF HeirInv
<1>13. AliveInv'
  <2> SUFFICES ASSUME NEW m \in Chans, subs'[m] # None
               PROVE  \/ loop'[cur'[subs'[m]]] \notin {"none", "ended"}
                      \/ \E l \in Gens :
                           loop'[l] = "closeold" /\ heir[l] = cur'[subs'[m]]
    BY <1>3 DEF AliveInv
  <2>1. CASE m = n
    BY <1>4, <2>1
  <2>2. CASE m # n
    <3>1. subs'[m] = subs[m] /\ subs[m] \in Gens /\ subs[m] # h
      BY <1>1, <1>4, <1>5, <2>2 DEF TypeOK
    <3>2. cur'[subs[m]] = cur[subs[m]] /\ cur[subs[m]] # h
      BY <1>4, <1>5, <3>1
    <3>3. cur[subs[m]] \in Gens
      BY <1>1, <3>1, <2>2 DEF NameInv, TypeOK
    <3>4. \A l \in Gens : loop[l] = "closeold" => loop'[l] = "closeold"
      BY <1>4, <1>5
    <3> QED BY <1>1, <1>4, <3>1, <3>2, <3>3, <3>4 DEF AliveInv
  <2> QED BY <2>1, <2>2
<1>14. NoLeakedConnection'
  <2> SUFFICES ASSUME NEW g \in Gens, conn'[g] \in {"up", "broken"}
               PROVE  \/ \E m \in Chans : subs'[m] # None /\ cur'[subs'[m]] = g
                      \/ \E q \in Procs : \E o \in toClose[q] : cur'[o] = g
                      \/ \E l \in Gens : old[l] = g
    BY <1>3 DEF NoLeakedConnection
  <2>1. CASE g = h
    BY <1>2, <1>4, <2>1, Sets
  <2>2. CASE g # h
    <3>1. conn[g] \in {"up", "broken"}
      BY <1>4, <2>2
    <3>2. ASSUME NEW m \in Chans, subs[m] # None, cur[subs[m]] = g
          PROVE  subs'[m] # None /\ cur'[subs'[m]] = g
      <4>1. m # n /\ subs[m] \in Gens /\ subs[m] # h
        BY <1>1, <1>2, <1>5, <3>2 DEF TypeOK
      <4> QED BY <1>4, <3>2, <4>1
    <3>3. ASSUME NEW q \in Procs, NEW o \in toClose[q], cur[o] = g
          PROVE  cur'[o] = g
      <4>1. o \in Gens /\ o # h
        BY <1>1, <1>5, <3>3 DEF TypeOK, TeardownInv
      <4> QED BY <1>4, <3>3, <4>1
    <3> QED BY <1>1, <3>1, <3>2, <3>3 DEF NoLeakedConnection
  <2> QED BY <2>1, <2>2
<1> QED BY <1>6, <1>7, <1>8, <1>9, <1>10, <1>11, <1>12, <1>13, <1>14 DEF IInv

LEMMA InvReconnectDone ==
  ASSUME IInv, NEW g \in Gens, ReconnectDone(g)
  PROVE  IInv'
<1> DEFINE h == made + 1
           n == chan[g]
           o == subs[n]
<1>1. /\ TypeOK /\ LockInv /\ FreshInv /\ NameInv /\ TeardownInv
      /\ LoopInv /\ HeirInv /\ AliveInv /\ NoLeakedConnection
  BY DEF IInv
<1>2. /\ h \in Gens /\ h > made /\ \A l \in Gens : l > h => l > made
      /\ made \in Nat /\ made' = h /\ made' \in 0..MaxGen
  BY <1>1, RelayAssumption DEF ReconnectDone, TypeOK, Gens
<1>3. /\ loop[g] = "connecting" /\ n \in Chans /\ o \in Gens /\ o # None
      /\ cur[o] \in Gens /\ cur[o] # None /\ chan[cur[o]] = n
      /\ cur[o] <= made /\ o <= made
  BY <1>1 DEF ReconnectDone, LockInv, LoopInv, NameInv, FreshInv, TypeOK
<1>4. /\ UNCHANGED <<closed, subs, held, reads, proc, arg, toClose, db, opened,
                     broken>>
      /\ mu' = None
      /\ cancelled' = cancelled \cup {cur[o]}
      /\ old' = [old EXCEPT ![g] = cur[o]]
      /\ heir' = [heir EXCEPT ![g] = h]
      /\ cur' = [cur EXCEPT ![o] = h]
      /\ conn' = [conn EXCEPT ![h] = "up"]
      /\ chan' = [chan EXCEPT ![h] = n]
      /\ loop' = [loop EXCEPT ![g] = "closeold"]
  BY DEF ReconnectDone, GoLoop, procVars
<1> HIDE DEF h, n, o
<1>5. /\ cur'[o] = h /\ \A q \in Gens : q # o => cur'[q] = cur[q]
      /\ conn'[h] = "up" /\ \A l \in Gens : l # h => conn'[l] = conn[l]
      /\ chan'[h] = n /\ \A l \in Gens : l # h => chan'[l] = chan[l]
      /\ old'[g] = cur[o] /\ heir'[g] = h /\ loop'[g] = "closeold"
      /\ \A l \in Gens : l # g => /\ old'[l] = old[l] /\ heir'[l] = heir[l]
                                  /\ loop'[l] = loop[l]
  BY <1>1, <1>2, <1>3, <1>4 DEF TypeOK
<1>6. /\ loop[h] = "none" /\ conn[h] = "none" /\ h \notin cancelled
      /\ \A q \in Gens : cur[q] # h
      /\ g # h /\ cur[o] # h /\ o # h /\ g <= made
  <2>1. loop[h] = "none" /\ conn[h] = "none" /\ h \notin cancelled /\ h # None
    BY <1>1, <1>2, Sets DEF FreshInv
  <2>2. \A q \in Gens : cur[q] # h
    BY <1>1, <1>2, <2>1 DEF FreshInv
  <2>3. g # h /\ g <= made
    <3>1. ~(g > made)
      BY <1>1, <1>3 DEF FreshInv
    <3> QED BY <1>2, <1>3, <2>1, <3>1 DEF Gens
  <2>4. o # h
    BY <1>2, <1>3
  <2> QED BY <1>3, <2>1, <2>2, <2>3, <2>4
\* The *subs of other names are other *subs.
<1>7. ASSUME NEW m \in Chans, m # n, subs[m] # None
      PROVE  /\ subs[m] \in Gens /\ subs[m] # o
             /\ cur'[subs[m]] = cur[subs[m]]
             /\ cur[subs[m]] \in Gens /\ cur[subs[m]] # h
             /\ cur[subs[m]] # cur[o] /\ cur[subs[m]] # g
  <2>1. subs[m] \in Gens /\ chan[cur[subs[m]]] = m /\ cur[subs[m]] \in Gens
    BY <1>1, <1>7 DEF NameInv, TypeOK
  <2>2. subs[m] # o /\ cur[subs[m]] # cur[o] /\ cur[subs[m]] # g
    BY <1>3, <1>7, <2>1 DEF n
  <2> QED BY <1>5, <1>6, <2>1, <2>2
<1>8. TypeOK'
  <2>1. /\ cancelled' \subseteq Gens
        /\ old' \in [Gens -> Gens \cup {None}]
        /\ heir' \in [Gens -> Gens \cup {None}]
        /\ cur' \in [Gens -> Gens \cup {None}]
    BY <1>1, <1>2, <1>3, <1>4 DEF TypeOK
  <2>2. /\ conn' \in [Gens -> {"none", "up", "broken", "closed"}]
        /\ chan' \in [Gens -> Chans \cup {None}]
        /\ loop' \in [Gens -> LoopStates]
    BY <1>1, <1>2, <1>3, <1>4 DEF TypeOK, LoopStates
  <2> QED BY <1>1, <1>2, <1>4, <2>1, <2>2 DEF TypeOK
<1>9. LockInv'
  BY <1>1, <1>3, <1>4, <1>5, OneConnects DEF LockInv
<1>10. FreshInv'
  <2>1. ASSUME NEW l \in Gens, l > h
        PROVE  l # h /\ l # g /\ l # cur[o] /\ l > made
    BY <1>2, <1>3, <1>6, <2>1 DEF Gens
  <2>2. ASSUME NEW q \in Gens, cur'[q] # None PROVE q <= h /\ cur'[q] <= h
    <3>1. CASE q = o
      BY <1>2, <1>3, <1>5, <3>1 DEF Gens, h
    <3>2. CASE q # o
      <4>1. cur[q] \in Gens /\ q <= made /\ cur[q] <= made /\ cur'[q] = cur[q]
        BY <1>1, <1>5, <2>2, <3>2 DEF FreshInv, TypeOK
      <4> QED BY <1>2, <4>1 DEF Gens, h
    <3> QED BY <3>1, <3>2
  <2>3. ASSUME NEW l \in Gens, old'[l] # None PROVE old'[l] <= h
    <3>1. CASE l = g
      BY <1>2, <1>3, <1>5, <3>1 DEF Gens, h
    <3>2. CASE l # g
      <4>1. old'[l] = old[l] /\ old[l] \in Gens /\ old[l] <= made
        BY <1>1, <1>5, <2>3, <3>2 DEF FreshInv, TypeOK
      <4> QED BY <1>2, <4>1 DEF Gens, h
    <3> QED BY <3>1, <3>2
  <2> QED BY <1>1, <1>2, <1>4, <1>5, <2>1, <2>2, <2>3 DEF FreshInv
<1>11. NameInv'
  <2>1. \A p, q \in Gens : cur'[p] # None /\ cur'[p] = cur'[q] => p = q
    BY <1>1, <1>5, <1>6 DEF NameInv
  <2>2. ASSUME NEW m \in Chans, subs[m] # None
        PROVE  /\ cur'[subs[m]] # None
               /\ cur'[subs[m]] \notin cancelled'
               /\ chan'[cur'[subs[m]]] = m
    <3>1. CASE m = n
      BY <1>2, <1>4, <1>5, <1>6, <3>1, Sets DEF o
    <3>2. CASE m # n
      BY <1>1, <1>4, <1>5, <1>7, <2>2, <3>2 DEF NameInv
    <3> QED BY <3>1, <3>2
  <2> QED BY <1>4, <2>1, <2>2 DEF NameInv
<1>12. TeardownInv'
  <2>1. ASSUME NEW p \in Procs, NEW q \in toClose[p]
        PROVE  cur'[q] # None /\ \A m \in Chans : subs[m] # q
    <3>1. q \in Gens /\ q # o
      BY <1>1, <1>3, <2>1 DEF TypeOK, TeardownInv, o
    <3> QED BY <1>1, <1>5, <2>1, <3>1 DEF TeardownInv
  <2> QED BY <1>1, <1>4, <2>1 DEF TeardownInv
<1>13. LoopInv'
  <2>1. ASSUME NEW l \in Gens
        PROVE  /\ loop'[l] # "none" => chan'[l] \in Chans
               /\ loop'[l] = "wait" => held[l] # None
               /\ old'[l] # None => loop'[l] = "closeold"
    <3>1. CASE l = g
      BY <1>3, <1>5, <1>6, <3>1 DEF n
    <3>2. CASE l = h
      BY <1>1, <1>3, <1>5, <1>6, <3>2 DEF LoopInv
    <3>3. CASE l # g /\ l # h
      BY <1>1, <1>5, <3>3 DEF LoopInv
    <3> QED BY <3>1, <3>2, <3>3
  <2> QED BY <1>4, <2>1 DEF LoopInv
<1>14. HeirInv'
  <2> SUFFICES ASSUME NEW l \in Gens, loop'[l] = "closeold"
               PROVE  /\ heir'[l] # None /\ heir'[l] <= made'
                      /\ loop'[heir'[l]] = "none"
                      /\ chan'[heir'[l]] \in Chans
                      /\ \A m \in Chans : subs[m] # None => cur'[subs[m]] # l
                      /\ \A k \in Gens :
                           loop'[k] = "closeold" /\ heir'[k] = heir'[l] => k = l
    BY <1>4 DEF HeirInv
  <2>1. ASSUME NEW k \in Gens, k # g, loop'[k] = "closeold"
        PROVE  /\ k # h /\ loop[k] = "closeold" /\ heir'[k] = heir[k]
               /\ heir[k] \in Gens /\ heir[k] # None /\ heir[k] <= made
               /\ heir[k] # h /\ heir[k] # g
    <3>1. k # h /\ loop[k] = "closeold" /\ heir'[k] = heir[k]
      BY <1>5, <1>6, <2>1
    <3>2. /\ heir[k] \in Gens /\ heir[k] # None /\ heir[k] <= made
          /\ loop[heir[k]] = "none"
      BY <1>1, <3>1 DEF HeirInv, TypeOK
    <3> QED BY <1>2, <1>3, <3>1, <3>2 DEF Gens, h
  <2>2. ASSUME NEW m \in Chans, subs[m] # None PROVE cur'[subs[m]] # l
    <3>1. CASE m = n
      BY <1>5, <1>6, <2>1, <3>1 DEF o
    <3>2. CASE m # n /\ l = g
      BY <1>7, <2>2, <3>2
    <3>3. CASE m # n /\ l # g
      BY <1>1, <1>7, <2>1, <2>2, <3>3 DEF HeirInv
    <3> QED BY <3>1, <3>2, <3>3
  <2>3. CASE l = g
    <3>1. heir'[l] = h /\ loop'[h] = "none" /\ chan'[h] \in Chans /\ h # None
      BY <1>2, <1>3, <1>5, <1>6, <2>3, Sets
    <3>2. h <= made'
      BY <1>2
    <3>3. ASSUME NEW k \in Gens, loop'[k] = "closeold", heir'[k] = h PROVE k = g
      BY <2>1, <3>3
    <3> QED BY <2>2, <2>3, <3>1, <3>2, <3>3
  <2>4. CASE l # g
    <3>1. /\ loop[l] = "closeold" /\ heir'[l] = heir[l] /\ heir[l] # None
          /\ heir[l] \in Gens /\ heir[l] <= made /\ heir[l] # h /\ heir[l] # g
      BY <2>1, <2>4
    <3>2. heir[l] <= made'
      BY <1>2, <3>1 DEF Gens, h
    <3>3. loop'[heir[l]] = "none" /\ chan'[heir[l]] \in Chans
      BY <1>1, <1>5, <3>1 DEF HeirInv
    <3>4. ASSUME NEW k \in Gens, loop'[k] = "closeold", heir'[k] = heir[l]
          PROVE  k = l
      <4>1. k # g
        BY <1>5, <3>1, <3>4
      <4>2. loop[k] = "closeold" /\ heir[k] = heir[l]
        BY <2>1, <3>4, <4>1
      <4> QED BY <1>1, <3>1, <4>2 DEF HeirInv
    <3> QED BY <2>2, <3>1, <3>2, <3>3, <3>4
  <2> QED BY <2>3, <2>4
<1>15. AliveInv'
  <2> SUFFICES ASSUME NEW m \in Chans, subs[m] # None
               PROVE  \/ loop'[cur'[subs[m]]] \notin {"none", "ended"}
                      \/ \E l \in Gens :
                           loop'[l] = "closeold" /\ heir'[l] = cur'[subs[m]]
    BY <1>4 DEF AliveInv
  <2>1. CASE m = n
    BY <1>5, <2>1 DEF o
  <2>2. CASE m # n
    <3>1. \A l \in Gens : loop[l] = "closeold" => l # g
      BY <1>3
    <3> QED BY <1>1, <1>5, <1>7, <2>2, <3>1 DEF AliveInv
  <2> QED BY <2>1, <2>2
<1>16. NoLeakedConnection'
  <2> SUFFICES ASSUME NEW l \in Gens, conn'[l] \in {"up", "broken"}
               PROVE  \/ \E m \in Chans : subs[m] # None /\ cur'[subs[m]] = l
                      \/ \E p \in Procs : \E q \in toClose[p] : cur'[q] = l
                      \/ \E k \in Gens : old'[k] = l
    BY <1>4 DEF NoLeakedConnection
  <2>1. CASE l = h
    BY <1>3, <1>5, <2>1 DEF o
  <2>2. CASE l = cur[o]
    BY <1>5, <2>2
  <2>3. CASE l # h /\ l # cur[o]
    <3>1. conn[l] \in {"up", "broken"}
      BY <1>5, <2>3
    <3>2. ASSUME NEW m \in Chans, subs[m] # None, cur[subs[m]] = l
          PROVE  cur'[subs[m]] = l
      BY <1>7, <2>3, <3>2 DEF o
    <3>3. ASSUME NEW p \in Procs, NEW q \in toClose[p], cur[q] = l
          PROVE  cur'[q] = l
      BY <1>1, <1>5, <2>3, <3>3 DEF TypeOK
    <3>4. ASSUME NEW k \in Gens, old[k] = l PROVE old'[k] = l
      <4>1. k # g
        BY <1>1, <1>3, <3>4, Sets DEF LoopInv
      <4> QED BY <1>5, <3>4, <4>1
    <3> QED BY <1>1, <3>1, <3>2, <3>3, <3>4 DEF NoLeakedConnection
  <2> QED BY <2>1, <2>2, <2>3
<1> QED BY <1>8, <1>9, <1>10, <1>11, <1>12, <1>13, <1>14, <1>15, <1>16 DEF IInv

\* The loop that reconnected hands over to its heir.
LEMMA InvCloseOld ==
  ASSUME IInv, NEW g \in Gens, CloseOld(g)
  PROVE  IInv'
<1> DEFINE h == heir[g]
<1>1. /\ TypeOK /\ LockInv /\ FreshInv /\ NameInv /\ TeardownInv
      /\ LoopInv /\ HeirInv /\ AliveInv /\ NoLeakedConnection
  BY DEF IInv
<1>2. /\ loop[g] = "closeold" /\ h \in Gens /\ h # g /\ h <= made
      /\ loop[h] = "none" /\ chan[h] \in Chans
      /\ \A n \in Chans : subs[n] # None => cur[subs[n]] # g
  BY <1>1 DEF CloseOld, HeirInv, TypeOK
<1>3. /\ UNCHANGED <<mu, closed, subs, cur, chan, cancelled, held, reads, proc,
                     arg, toClose, db, made, opened, broken>>
      /\ conn' = [conn EXCEPT ![old[g]] = "closed"]
      /\ loop' = [loop EXCEPT ![g] = "ended", ![h] = "born"]
      /\ old' = [old EXCEPT ![g] = None]
      /\ heir' = [heir EXCEPT ![g] = None]
  BY DEF CloseOld, procVars, countVars
<1> HIDE DEF h
<1>4. /\ loop'[g] = "ended" /\ loop'[h] = "born"
      /\ \A l \in Gens : l # g /\ l # h => loop'[l] = loop[l]
      /\ old'[g] = None /\ heir'[g] = None
      /\ \A l \in Gens : l # g => old'[l] = old[l] /\ heir'[l] = heir[l]
      /\ \A l \in Gens : conn'[l] = IF l = old[g] THEN "closed" ELSE conn[l]
  BY <1>1, <1>2, <1>3 DEF TypeOK
<1>5. TypeOK'
  BY <1>1, <1>2, <1>3 DEF TypeOK, LoopStates
<1>6. LockInv'
  BY <1>1, <1>3, <1>4 DEF LockInv
<1>7. FreshInv'
  <2>1. ASSUME NEW l \in Gens, l > made
        PROVE  l # g /\ l # h /\ l # old[g]
    <3>1. loop[l] = "none" /\ l # h
      BY <1>1, <1>2, <2>1 DEF FreshInv, TypeOK, Gens
    <3>2. l # old[g]
      BY <1>1, <2>1, Sets DEF FreshInv, TypeOK, Gens
    <3> QED BY <1>2, <3>1, <3>2
  <2>2. \A l \in Gens : old'[l] # None => old'[l] <= made
    BY <1>1, <1>4 DEF FreshInv
  <2>3. ASSUME NEW l \in Gens, l > made
        PROVE  loop'[l] = "none" /\ conn'[l] = "none" /\ l \notin cancelled
    <3>1. loop'[l] = loop[l] /\ conn'[l] = conn[l]
      BY <1>4, <2>1, <2>3
    <3> QED BY <1>1, <2>3, <3>1 DEF FreshInv
  <2>4. \A o \in Gens : cur[o] # None => o <= made /\ cur[o] <= made
    BY <1>1 DEF FreshInv
  <2> QED BY <1>3, <2>2, <2>3, <2>4 DEF FreshInv
<1>8. NameInv' /\ TeardownInv'
  BY <1>1, <1>3 DEF NameInv, TeardownInv
<1>9. LoopInv'
  <2>1. ASSUME NEW l \in Gens
        PROVE  /\ loop'[l] # "none" => chan[l] \in Chans
               /\ loop'[l] = "wait" => held[l] # None
               /\ old'[l] # None => loop'[l] = "closeold"
    <3>1. CASE l = g
      BY <1>1, <1>2, <1>4, <3>1 DEF LoopInv
    <3>2. CASE l = h
      BY <1>1, <1>2, <1>4, <3>2 DEF LoopInv
    <3>3. CASE l # g /\ l # h
      BY <1>1, <1>4, <3>3 DEF LoopInv
    <3> QED BY <3>1, <3>2, <3>3
  <2> QED BY <1>3, <2>1 DEF LoopInv
<1>10. HeirInv'
  <2> SUFFICES ASSUME NEW l \in Gens, loop'[l] = "closeold"
               PROVE  /\ heir'[l] # None /\ heir'[l] <= made
                      /\ loop'[heir'[l]] = "none"
                      /\ chan[heir'[l]] \in Chans
                      /\ \A n \in Chans : subs[n] # None => cur[subs[n]] # l
                      /\ \A k \in Gens :
                           loop'[k] = "closeold" /\ heir'[k] = heir'[l] => k = l
    BY <1>3 DEF HeirInv
  <2>1. ASSUME NEW k \in Gens, loop'[k] = "closeold"
        PROVE  k # g /\ k # h /\ loop[k] = "closeold" /\ heir'[k] = heir[k]
    BY <1>4, <2>1
  <2>2. heir[l] \in Gens /\ heir[l] # g /\ heir[l] # h
    BY <1>1, <1>2, <2>1 DEF HeirInv, TypeOK, h
  <2> QED BY <1>1, <1>4, <2>1, <2>2 DEF HeirInv
<1>11. AliveInv'
  <2> SUFFICES ASSUME NEW n \in Chans, subs[n] # None
               PROVE  \/ loop'[cur[subs[n]]] \notin {"none", "ended"}
                      \/ \E l \in Gens :
                           loop'[l] = "closeold" /\ heir'[l] = cur[subs[n]]
    BY <1>3 DEF AliveInv
  <2>1. cur[subs[n]] \in Gens /\ cur[subs[n]] # g
    BY <1>1, <1>2 DEF TypeOK, NameInv
  <2>2. CASE cur[subs[n]] = h
    BY <1>4, <2>2
  <2>3. CASE cur[subs[n]] # h /\ loop[cur[subs[n]]] \notin {"none", "ended"}
    BY <1>4, <2>1, <2>3
  <2>4. CASE /\ cur[subs[n]] # h
             /\ \E l \in Gens : loop[l] = "closeold" /\ heir[l] = cur[subs[n]]
    <3>1. PICK l \in Gens : loop[l] = "closeold" /\ heir[l] = cur[subs[n]]
      BY <2>4
    <3>2. l # g /\ l # h
      BY <1>2, <2>4, <3>1 DEF h
    <3> QED BY <1>4, <3>1, <3>2
  <2> QED BY <1>1, <2>2, <2>3, <2>4 DEF AliveInv
<1>12. NoLeakedConnection'
  <2>1. ASSUME NEW l \in Gens, conn'[l] \in {"up", "broken"}
        PROVE  conn[l] \in {"up", "broken"} /\ old[g] # l
    BY <1>4, <2>1
  <2>2. \A l, k \in Gens : old[g] # l /\ old[k] = l => old'[k] = l
    BY <1>4
  <2> QED BY <1>1, <1>3, <2>1, <2>2 DEF NoLeakedConnection
<1> QED BY <1>5, <1>6, <1>7, <1>8, <1>9, <1>10, <1>11, <1>12 DEF IInv

-----------------------------------------------------------------------------
(* PostgreSQL, and the network to it.                                      *)

LEMMA InvEnvironment ==
  ASSUME IInv,
         \/ \E state \in {"up"} \cup Outages : DbTurns(state)
         \/ \E g \in Gens : Break(g)
         \/ UNCHANGED vars
  PROVE  IInv'
<1>1. /\ TypeOK /\ LockInv /\ FreshInv /\ NameInv /\ TeardownInv
      /\ LoopInv /\ HeirInv /\ AliveInv /\ NoLeakedConnection
  BY DEF IInv
<1>2. UNCHANGED <<mu, closed, subs, cur, chan, cancelled, loop, held, reads,
                  old, heir, proc, arg, toClose, made, opened>>
  BY DEF DbTurns, Break, vars, relayVars, loopVars, procVars, countVars
<1>3. /\ conn' \in [Gens -> {"none", "up", "broken", "closed"}]
      /\ \A g \in Gens : \/ conn'[g] = conn[g]
                         \/ conn[g] = "up" /\ conn'[g] = "broken"
  <2>1. CASE conn' = conn
    BY <1>1, <2>1 DEF TypeOK
  <2>2. ASSUME NEW g \in Gens, Break(g)
        PROVE  /\ conn' \in [Gens -> {"none", "up", "broken", "closed"}]
               /\ \A l \in Gens : \/ conn'[l] = conn[l]
                                  \/ conn[l] = "up" /\ conn'[l] = "broken"
    BY <1>1, <2>2 DEF Break, TypeOK
  <2> QED BY <2>1, <2>2 DEF DbTurns, vars, relayVars
<1>4. db' \in {"up"} \cup Outages /\ broken' \in 0..MaxBreaks
  <2>1. ASSUME NEW g \in Gens, Break(g)
        PROVE  db' \in {"up"} \cup Outages /\ broken' \in 0..MaxBreaks
    BY <1>1, <2>1, RelayAssumption DEF Break, TypeOK
  <2> QED BY <1>1, <2>1 DEF DbTurns, TypeOK, vars, countVars
<1>5. TypeOK'
  BY <1>1, <1>2, <1>3, <1>4 DEF TypeOK
<1>6. FreshInv' /\ NoLeakedConnection'
  BY <1>1, <1>2, <1>3 DEF FreshInv, NoLeakedConnection
<1>7. /\ LockInv' /\ NameInv' /\ TeardownInv' /\ LoopInv' /\ HeirInv'
      /\ AliveInv'
  BY <1>1, <1>2 DEF LockInv, NameInv, TeardownInv, LoopInv, HeirInv, AliveInv
<1> QED BY <1>5, <1>6, <1>7 DEF IInv

-----------------------------------------------------------------------------

LEMMA InvNext ==
  ASSUME IInv, [Next]_vars
  PROVE  IInv'
<1>1. CASE Environment
  <2>1. ASSUME NEW p \in Procs, NEW n \in Chans, Unsubscribe(p, n)
        PROVE  IInv'
    <3>1. p \in Handlers
      BY <2>1 DEF Unsubscribe
    <3> QED BY <2>1, <3>1, InvTakeOut
  <2>2. ASSUME NEW p \in Procs,
               AskHealthy(p) \/ \E n \in Chans : Subscribe(p, n)
        PROVE  IInv'
    BY <2>2, InvProcMoves
  <2>3. ASSUME NEW g \in Gens, Receive(g) PROVE IInv'
    BY <2>3, InvLoopMoves
  <2> QED BY <1>1, <2>1, <2>2, <2>3, InvTakeOut, InvEnvironment DEF Environment
<1>2. ASSUME NEW g \in Gens, LoopLocks(g) \/ LoopMoves(g) PROVE IInv'
  BY <1>2, InvLoopMoves, InvReconnectDone, InvCloseOld DEF LoopLocks, LoopMoves
<1>3. ASSUME NEW p \in Procs, ProcLocks(p) \/ ProcMoves(p) PROVE IInv'
  BY <1>3, InvProcMoves, InvSubscribeDone, InvCancel, InvCloseConn
     DEF ProcLocks, ProcMoves
<1> QED BY <1>1, <1>2, <1>3, InvEnvironment DEF Next

LEMMA Invariance == Spec => []IInv
<1>1. IInv /\ [Next]_vars => IInv'
  BY InvNext
<1> QED BY InvInit, <1>1, PTL DEF Spec

\* The variables of Relay keep their types.
THEOREM TypeCorrect == Spec => []TypeOK
<1>1. IInv => TypeOK
  BY DEF IInv
<1> QED BY <1>1, Invariance, PTL

\* A subscribed channel has a goroutine to listen on it, however the calls of
\* SubscribeChannel, UnsubscribeChannel, reconnectChannel and Close cross.
THEOREM AlwaysALoop == Spec => []EveryChannelHasItsLoop
<1>1. IInv => EveryChannelHasItsLoop
  BY DEF IInv, NameInv, AliveInv, EveryChannelHasItsLoop
<1> QED BY <1>1, Invariance, PTL

\* No connection to PostgreSQL is forgotten by all goroutines.
THEOREM NoLeak == Spec => []NoLeakedConnection
<1>1. IInv => NoLeakedConnection
  BY DEF IInv
<1> QED BY <1>1, Invariance, PTL

-----------------------------------------------------------------------------
(* What Close leaves behind.                                               *)

\* A relay that is closed has no channel, and no handler is connecting: Close
\* waited for r.mu, and SubscribeChannel gives up from then on.
ClosedInv ==
  closed => /\ \A n \in Chans : subs[n] = None
            /\ \A p \in Procs : proc[p] # "connecting"

\* A loop that finds no channel does not connect either.
LEMMA NobodyConnects ==
  ASSUME IInv, ClosedInv, closed
  PROVE  /\ \A p \in Procs : proc[p] # "connecting"
         /\ \A g \in Gens : loop[g] # "connecting"
<1>1. \A g \in Gens : loop[g] = "connecting" =>
        chan[g] \in Chans /\ subs[chan[g]] # None
  BY DEF IInv, LockInv, LoopInv
<1> QED BY <1>1 DEF ClosedInv

\* In a closed relay: neither the map nor the number of connections changes.
LEMMA ClosedStep ==
  ASSUME IInv, ClosedInv, closed, [Next]_vars
  PROVE  /\ made' = made /\ subs' = subs
         /\ \A p \in Procs : proc'[p] # "connecting"
<1>1. /\ \A p \in Procs : proc[p] # "connecting"
      /\ \A g \in Gens : loop[g] # "connecting"
      /\ \A n \in Chans : subs[n] = None
      /\ proc \in [Procs -> ProcStates]
  BY NobodyConnects DEF ClosedInv, IInv, TypeOK
<1>2. CASE UNCHANGED vars
  BY <1>1, <1>2 DEF vars, relayVars, procVars, countVars
<1>3. ASSUME NEW g \in Gens, LoopLocks(g) \/ LoopMoves(g) \/ Receive(g) \/ Break(g)
      PROVE  UNCHANGED <<made, subs, proc>>
  BY <1>1, <1>3
     DEF LoopLocks, LoopMoves, Lookup, Dispatch, Reconnect, Wait, WaitFails, Timer,
         BackoffDone, ReconnectFails, ReconnectDone, CloseOld, Receive, Break,
         relayVars, procVars, countVars
<1>4. ASSUME NEW p \in Procs, ProcLocks(p) \/ ProcMoves(p) \/ AskHealthy(p)
      PROVE  /\ UNCHANGED <<made, subs>>
             /\ \E state \in ProcStates \ {"connecting"} :
                  proc' = [proc EXCEPT ![p] = state] \/ proc' = proc
  BY <1>1, <1>4
     DEF ProcLocks, ProcMoves, ReadPool, SubscribeDone, SubscribeFails, Cancel,
         CloseConn, TeardownDone, Answer, AskHealthy, relayVars, procVars,
         countVars, ProcStates
<1>5. ASSUME NEW p \in Procs, NEW n \in Chans, Subscribe(p, n) \/ Unsubscribe(p, n)
      PROVE  FALSE
  BY <1>1, <1>5 DEF Subscribe, Unsubscribe
<1>6. ASSUME NEW state, DbTurns(state) PROVE UNCHANGED <<made, subs, proc>>
  BY <1>6 DEF DbTurns, relayVars, procVars, countVars
<1>7. ~Close
  BY DEF Close
<1> QED BY <1>1, <1>2, <1>3, <1>4, <1>5, <1>6, <1>7 DEF Next, Environment

LEMMA ClosedNext == IInv /\ ClosedInv /\ [Next]_vars => ClosedInv'
<1> SUFFICES ASSUME IInv, ClosedInv, [Next]_vars, closed' PROVE ClosedInv'
  BY DEF ClosedInv
<1>1. CASE closed
  BY <1>1, ClosedStep DEF ClosedInv
<1>2. CASE ~closed
  <2>1. Close
    BY <1>2 DEF Next, Environment, vars, LoopLocks, LoopMoves, Lookup, Dispatch,
       Reconnect, Wait, WaitFails, Timer, BackoffDone, ReconnectFails, ReconnectDone,
       CloseOld, Receive, Break, ProcLocks, ProcMoves, ReadPool, SubscribeDone,
       SubscribeFails, Cancel, CloseConn, TeardownDone, Answer, AskHealthy, Subscribe,
       Unsubscribe, DbTurns, relayVars
  <2>2. \A p \in Procs : proc[p] # "connecting"
    BY <2>1, OneConnects DEF Close
  <2>3. \A p \in Procs : proc'[p] # "connecting"
    BY <2>1, <2>2 DEF Close, IInv, TypeOK
  <2> QED BY <2>1, <2>3 DEF Close, ClosedInv
<1> QED BY <1>1, <1>2

\* A closed relay stays empty, and opens no connection, whoever was about to.
THEOREM ClosedStays == Spec => ClosedForGood
<1>1. Init => ClosedInv
  BY DEF Init, ClosedInv
<1>2. IInv /\ ClosedInv /\ [Next]_vars => [closed => made' = made /\ subs' = subs]_vars
  BY ClosedStep
<1> QED BY <1>1, <1>2, ClosedNext, Invariance, PTL DEF Spec, ClosedForGood
=============================================================================
