---------------------------- MODULE ServerProofs ----------------------------
(***************************************************************************)
(* Theorems about Server, for every value of its constants: type           *)
(* correctness, InOrderOnce, the refinement of EventFeed, and              *)
(* LossOnlyInWindow.                                                       *)
(*                                                                         *)
(* The argument for order: what a connection still has to write (its       *)
(* replay, then its channel) is ordered and lies above what it has         *)
(* written, and the frame broadcast is about to offer is above all of it.  *)
(* This stays true because a handler takes its replay before it registers. *)
(* The argument for completeness: an id only moves from broadcast's copy   *)
(* to the channel, and from the channel or the replay to what was sent.    *)
(***************************************************************************)
EXTENDS Server, SequenceTheorems, TLAPS

\* All of s comes before all of t.
Before(s, t) == \A i \in 1..Len(s), j \in 1..Len(t) : s[i] < t[j]

Within(s, low, high) == \A i \in 1..Len(s) : low < s[i] /\ s[i] <= high

\* The newest id that the stream of c may already hold.
Top(c) == IF c \in snapshot THEN lastID - 1 ELSE lastID

HistoryInv ==
  /\ \A i \in 1..Len(history) : history[i] = lastID - Len(history) + i
  /\ bpc = "sending" => lastID > 0
  /\ bpc # "sending" => snapshot = {}

\* What the place of a handler says of its connection.
PhaseInv(c) ==
  /\ pc[c] \in {"new", "replay", "register"} =>
       /\ c \notin clients /\ c \notin snapshot
       /\ sent[c] = <<>> /\ queue[c] = <<>>
  /\ pc[c] \in {"new", "replay"} => resume[c] = "none" /\ replay[c] = <<>>
  /\ pc[c] = "greet" => sent[c] = <<>>
  /\ resume[c] # "frames" => replay[c] = <<>>
  /\ pc[c] = "stream" => replay[c] = <<>>

OrderInv(c) ==
  /\ Floor(c) <= Top(c)
  /\ Increasing(sent[c]) /\ Increasing(replay[c]) /\ Increasing(queue[c])
  /\ Within(sent[c], Floor(c), Top(c))
  /\ Within(replay[c], Floor(c), Top(c))
  /\ Within(queue[c], Floor(c), Top(c))
  /\ Before(sent[c], replay[c])
  /\ Before(sent[c], queue[c])
  /\ Before(replay[c], queue[c])

IInv ==
  /\ TypeOK
  /\ HistoryInv
  /\ \A c \in Conns : PhaseInv(c) /\ OrderInv(c)

-----------------------------------------------------------------------------
(* Sequences of ids.                                                       *)

\* Appending an id above the elements of a sequence.
LEMMA AppendOrder ==
  ASSUME NEW s \in Seq(Int), NEW e \in Int, NEW low \in Int, NEW high \in Int,
         Increasing(s), Within(s, low, e - 1), low < e, e <= high
  PROVE  /\ Increasing(Append(s, e))
         /\ Within(Append(s, e), low, high)
<1>1. /\ Append(s, e) \in Seq(Int)
      /\ Len(Append(s, e)) = Len(s) + 1
      /\ \A i \in 1..Len(s) : Append(s, e)[i] = s[i]
      /\ Append(s, e)[Len(s) + 1] = e
  BY AppendProperties
<1>2. Len(s) \in Nat /\ \A i \in 1..Len(s) : s[i] \in Int
  OBVIOUS
<1>3. Increasing(Append(s, e))
  BY <1>1, <1>2 DEF Increasing, Within
<1>4. Within(Append(s, e), low, high)
  BY <1>1, <1>2 DEF Within
<1> QED BY <1>3, <1>4

\* Appending an id that comes before all of another sequence.
LEMMA AppendBefore ==
  ASSUME NEW s \in Seq(Int), NEW t \in Seq(Int), NEW e \in Int
  PROVE  /\ Before(s, t) /\ (\A j \in 1..Len(t) : e < t[j])
              => Before(Append(s, e), t)
         /\ Before(s, t) /\ (\A i \in 1..Len(s) : s[i] < e)
              => Before(s, Append(t, e))
<1>1. /\ Len(Append(s, e)) = Len(s) + 1
      /\ \A i \in 1..Len(s) : Append(s, e)[i] = s[i]
      /\ Append(s, e)[Len(s) + 1] = e
  BY AppendProperties
<1>2. /\ Len(Append(t, e)) = Len(t) + 1
      /\ \A i \in 1..Len(t) : Append(t, e)[i] = t[i]
      /\ Append(t, e)[Len(t) + 1] = e
  BY AppendProperties
<1>3. Len(s) \in Nat /\ Len(t) \in Nat
  OBVIOUS
<1>4. Before(s, t) /\ (\A j \in 1..Len(t) : e < t[j]) => Before(Append(s, e), t)
  BY <1>1, <1>3 DEF Before
<1>5. Before(s, t) /\ (\A i \in 1..Len(s) : s[i] < e) => Before(s, Append(t, e))
  BY <1>2, <1>3 DEF Before
<1> QED BY <1>4, <1>5

\* Taking the head of an ordered sequence.
LEMMA TailOrder ==
  ASSUME NEW s \in Seq(Int), NEW low \in Int, NEW high \in Int, s # <<>>,
         Increasing(s), Within(s, low, high)
  PROVE  /\ Head(s) \in Int /\ Tail(s) \in Seq(Int)
         /\ low < Head(s) /\ Head(s) <= high
         /\ Increasing(Tail(s))
         /\ Within(Tail(s), low, high)
         /\ \A i \in 1..Len(Tail(s)) : Head(s) < Tail(s)[i]
<1>1. /\ Head(s) \in Int
      /\ Tail(s) \in Seq(Int)
      /\ Len(Tail(s)) = Len(s) - 1
      /\ \A i \in 1..Len(Tail(s)) : Tail(s)[i] = s[i + 1]
  BY HeadTailProperties
<1>2. Head(s) = s[1] /\ Len(s) \in Nat \ {0}
  BY EmptySeq
<1>3. \A i \in 1..Len(s) : s[i] \in Int
  OBVIOUS
<1> QED BY <1>1, <1>2, <1>3 DEF Increasing, Within

\* Taking the head of a sequence keeps it before or after another.
LEMMA TailBefore ==
  ASSUME NEW s \in Seq(Int), NEW t \in Seq(Int), s # <<>>
  PROVE  /\ Before(s, t) => /\ Before(Tail(s), t)
                            /\ \A j \in 1..Len(t) : Head(s) < t[j]
         /\ Before(t, s) => /\ Before(t, Tail(s))
                            /\ \A j \in 1..Len(t) : t[j] < Head(s)
<1>1. /\ Head(s) \in Int
      /\ Tail(s) \in Seq(Int)
      /\ Len(Tail(s)) = Len(s) - 1
      /\ \A i \in 1..Len(Tail(s)) : Tail(s)[i] = s[i + 1]
  BY HeadTailProperties
<1>2. Head(s) = s[1] /\ Len(s) \in Nat \ {0}
  BY EmptySeq
<1> QED BY <1>1, <1>2 DEF Before

\* Ordered parts, one before the other, make an ordered whole.
LEMMA ConcatOrder ==
  ASSUME NEW s \in Seq(Int), NEW t \in Seq(Int),
         Increasing(s), Increasing(t), Before(s, t)
  PROVE  Increasing(s \o t)
<1>1. /\ Len(s \o t) = Len(s) + Len(t)
      /\ \A i \in 1..Len(s) : (s \o t)[i] = s[i]
      /\ \A j \in Len(s) + 1 .. Len(s) + Len(t) : (s \o t)[j] = t[j - Len(s)]
  OBVIOUS
<1>2. Len(s) \in Nat /\ Len(t) \in Nat
  OBVIOUS
<1> SUFFICES ASSUME NEW i \in 1..Len(s \o t), NEW j \in 1..Len(s \o t), i < j
             PROVE  (s \o t)[i] < (s \o t)[j]
    BY DEF Increasing
<1>3. CASE j <= Len(s)
  BY <1>1, <1>2, <1>3 DEF Increasing
<1>4. CASE i <= Len(s) /\ Len(s) < j
  BY <1>1, <1>2, <1>4 DEF Before
<1>5. CASE Len(s) < i
  <2>1. /\ i - Len(s) \in 1..Len(t) /\ j - Len(s) \in 1..Len(t)
        /\ i - Len(s) < j - Len(s)
    BY <1>1, <1>2, <1>5
  <2>2. (s \o t)[i] = t[i - Len(s)] /\ (s \o t)[j] = t[j - Len(s)]
    BY <1>1, <1>2, <1>5
  <2> QED BY <2>1, <2>2 DEF Increasing
<1> QED BY <1>2, <1>3, <1>4, <1>5

\* A sequence before two others is before one followed by the other.
LEMMA BeforeConcat ==
  ASSUME NEW s \in Seq(Int), NEW t \in Seq(Int), NEW u \in Seq(Int),
         Before(s, t), Before(s, u)
  PROVE  Before(s, t \o u)
<1>1. /\ Len(t \o u) = Len(t) + Len(u)
      /\ \A i \in 1..Len(t) : (t \o u)[i] = t[i]
      /\ \A j \in Len(t) + 1 .. Len(t) + Len(u) : (t \o u)[j] = u[j - Len(t)]
  OBVIOUS
<1>2. Len(t) \in Nat /\ Len(u) \in Nat
  OBVIOUS
<1> SUFFICES ASSUME NEW i \in 1..Len(s), NEW j \in 1..Len(t \o u)
             PROVE  s[i] < (t \o u)[j]
    BY DEF Before
<1>3. CASE j <= Len(t)
  BY <1>1, <1>2, <1>3 DEF Before
<1>4. CASE Len(t) < j
  <2>1. j - Len(t) \in 1..Len(u)
    BY <1>1, <1>2, <1>4
  <2>2. (t \o u)[j] = u[j - Len(t)]
    BY <1>1, <1>2, <1>4
  <2> QED BY <2>1, <2>2 DEF Before
<1> QED BY <1>2, <1>3, <1>4

-----------------------------------------------------------------------------
(* The inductive invariant.                                                *)

LEMMA InvInit == Init => IInv
<1> SUFFICES ASSUME Init PROVE IInv
    OBVIOUS
<1>1. TypeOK
  BY ServerAssumption
     DEF Init, TypeOK, BroadcastStates, HandlerStates, ResumeKinds
<1>2. HistoryInv
  BY DEF Init, HistoryInv
<1>3. ASSUME NEW c \in Conns PROVE PhaseInv(c) /\ OrderInv(c)
  BY DEF Init, PhaseInv, OrderInv, Floor, Top, Increasing, Within, Before
<1> QED BY <1>1, <1>2, <1>3 DEF IInv

\* The types a step of the proofs needs of one connection.
LEMMA ConnTypes ==
  ASSUME TypeOK, NEW c \in Conns
  PROVE  /\ lastID \in Nat /\ lastEventID[c] \in Nat
         /\ sent[c] \in Seq(Int) /\ replay[c] \in Seq(Int)
         /\ queue[c] \in Seq(Int)
         /\ sent[c] \in Seq(1..MaxID) /\ replay[c] \in Seq(1..MaxID)
         /\ queue[c] \in Seq(1..MaxID)
         /\ Floor(c) \in Nat /\ Top(c) \in Int
<1> USE ServerAssumption DEF TypeOK
<1>1. lastID \in Nat /\ lastEventID[c] \in Nat
  OBVIOUS
<1>2. /\ sent[c] \in Seq(1..MaxID) /\ replay[c] \in Seq(1..MaxID)
      /\ queue[c] \in Seq(1..MaxID)
  OBVIOUS
<1>3. \A s \in Seq(1..MaxID) : s \in Seq(Int)
  OBVIOUS
<1>4. Floor(c) \in Nat /\ Top(c) \in Int
  BY <1>1 DEF Floor, Top
<1> QED BY <1>1, <1>2, <1>3, <1>4

\* A connection none of whose variables change keeps what is said of it.
LEMMA Untouched ==
  ASSUME NEW c \in Conns, PhaseInv(c), OrderInv(c),
         lastID' = lastID, c \in snapshot' <=> c \in snapshot,
         c \in clients' <=> c \in clients,
         pc'[c] = pc[c], lastEventID'[c] = lastEventID[c],
         resume'[c] = resume[c], replay'[c] = replay[c],
         sent'[c] = sent[c], queue'[c] = queue[c]
  PROVE  PhaseInv(c)' /\ OrderInv(c)'
<1>1. PhaseInv(c)'
  BY DEF PhaseInv
<1>2. Floor(c)' = Floor(c) /\ Top(c)' = Top(c)
  BY DEF Floor, Top
<1>3. OrderInv(c)'
  BY <1>2 DEF OrderInv, Increasing, Within, Before
<1> QED BY <1>1, <1>3

\* PushHistory keeps the newest ids, in sequence.
LEMMA PushHistoryKeeps ==
  ASSUME TypeOK, HistoryInv, lastID < MaxID
  PROVE  /\ PushHistory(lastID + 1) \in Seq(1..MaxID)
         /\ Len(PushHistory(lastID + 1)) <= HistoryRetention
         /\ \A i \in 1..Len(PushHistory(lastID + 1)) :
              PushHistory(lastID + 1)[i]
                = lastID + 1 - Len(PushHistory(lastID + 1)) + i
<1> DEFINE all == Append(history, lastID + 1)
           kept == SubSeq(all, Len(all) - HistoryRetention + 1, Len(all))
<1>1. lastID + 1 \in 1..MaxID /\ HistoryRetention \in Nat \ {0}
  BY ServerAssumption DEF TypeOK
<1>2. history \in Seq(1..MaxID) /\ Len(history) <= HistoryRetention
  BY DEF TypeOK
<1>3. all \in Seq(1..MaxID) /\ Len(all) = Len(history) + 1
  BY <1>1, <1>2
<1>4. \A i \in 1..Len(all) : all[i] = lastID + 1 - Len(all) + i
  <2>1. /\ \A i \in 1..Len(history) : all[i] = history[i]
        /\ all[Len(history) + 1] = lastID + 1
    BY <1>1, <1>2, AppendProperties
  <2> HIDE DEF all
  <2>2. lastID \in Nat /\ Len(history) \in Nat
    BY <1>2, ServerAssumption DEF TypeOK
  <2> QED BY <1>3, <2>1, <2>2 DEF HistoryInv
<1> HIDE DEF all
<1>5. CASE Len(all) > HistoryRetention
  <2>1. PushHistory(lastID + 1) = kept
    BY <1>5 DEF PushHistory, all
  <2>2. Len(all) = HistoryRetention + 1
    BY <1>1, <1>2, <1>3, <1>5
  <2>3. /\ Len(all) - HistoryRetention + 1 \in Int /\ Len(all) \in Int
        /\ \A i \in Len(all) - HistoryRetention + 1 .. Len(all) :
             all[i] \in 1..MaxID
    <3>1. Len(all) - HistoryRetention + 1 = 2 /\ Len(all) \in Int
      BY <1>1, <2>2
    <3>2. \A i \in 1..Len(all) : all[i] \in 1..MaxID
      BY <1>3, ElementOfSeq
    <3>3. \A i \in 2..Len(all) : i \in 1..Len(all)
      BY <3>1
    <3> QED BY <3>1, <3>2, <3>3
  <2>4. /\ kept \in Seq(1..MaxID)
        /\ Len(kept) = HistoryRetention
        /\ \A i \in 1..HistoryRetention : kept[i] = all[i + 1]
    <3> HIDE DEF kept
    <3>1. /\ kept \in Seq(1..MaxID)
          /\ Len(kept) = IF Len(all) - HistoryRetention + 1 <= Len(all)
                         THEN Len(all) - (Len(all) - HistoryRetention + 1) + 1
                         ELSE 0
          /\ \A i \in 1 .. Len(all) - (Len(all) - HistoryRetention + 1) + 1 :
               kept[i] = all[Len(all) - HistoryRetention + 1 + i - 1]
      BY <2>3, SubSeqProperties DEF kept
    <3> QED BY <1>1, <2>2, <3>1
  <2> HIDE DEF kept
  <2> QED BY <1>1, <1>4, <2>1, <2>2, <2>4 DEF TypeOK
<1>6. CASE ~(Len(all) > HistoryRetention)
  <2>1. PushHistory(lastID + 1) = all
    BY <1>6 DEF PushHistory, all
  <2> QED BY <1>1, <1>3, <1>4, <1>6, <2>1
<1> QED BY <1>5, <1>6

LEMMA InvBroadcast == IInv /\ Broadcast => IInv'
<1> SUFFICES ASSUME IInv, Broadcast PROVE IInv'
    OBVIOUS
<1>1. TypeOK /\ HistoryInv
  BY DEF IInv
<1>2. /\ lastID' = lastID + 1 /\ lastID < MaxID
      /\ history' = PushHistory(lastID + 1)
      /\ snapshot' = clients /\ bpc' = "sending" /\ snapshot = {}
  BY <1>1 DEF Broadcast, HistoryInv
<1>3. UNCHANGED <<handlerVars, peerVars, clients, closed, queue, sent, alive,
                  dropped>>
  BY DEF Broadcast
<1>4. TypeOK'
  <2>1. /\ history' \in Seq(1..MaxID) /\ Len(history') <= HistoryRetention
        /\ lastID' \in 0..MaxID
    BY ServerAssumption, <1>1, <1>2, PushHistoryKeeps DEF TypeOK
  <2>2. snapshot' \subseteq Conns /\ bpc' \in BroadcastStates
    BY <1>1, <1>2 DEF TypeOK, BroadcastStates
  <2> QED BY <1>1, <1>3, <2>1, <2>2 DEF TypeOK, handlerVars, peerVars
<1>5. HistoryInv'
  BY ServerAssumption, <1>1, <1>2, PushHistoryKeeps DEF HistoryInv, TypeOK
<1>6. ASSUME NEW c \in Conns PROVE PhaseInv(c)' /\ OrderInv(c)'
  <2>1. PhaseInv(c) /\ OrderInv(c)
    BY DEF IInv
  <2>2. PhaseInv(c)'
    BY <1>2, <1>3, <2>1 DEF PhaseInv, handlerVars
  <2>3. Floor(c)' = Floor(c) /\ Top(c) <= Top(c)' /\ Floor(c) \in Nat
        /\ Top(c) \in Int /\ Top(c)' \in Int
    BY <1>1, <1>2, <1>3, ConnTypes DEF Floor, Top, handlerVars
  <2>4. sent'[c] = sent[c] /\ replay'[c] = replay[c] /\ queue'[c] = queue[c]
    BY <1>3 DEF handlerVars
  <2>5. ASSUME NEW s \in Seq(Int), Within(s, Floor(c), Top(c))
        PROVE  Within(s, Floor(c)', Top(c)')
    BY <2>3, <2>5 DEF Within
  <2>6. /\ Within(sent[c], Floor(c)', Top(c)')
        /\ Within(replay[c], Floor(c)', Top(c)')
        /\ Within(queue[c], Floor(c)', Top(c)')
    BY <1>1, <2>1, <2>5, ConnTypes DEF OrderInv
  <2>7. OrderInv(c)'
    BY <2>1, <2>3, <2>4, <2>6 DEF OrderInv, Increasing, Within, Before
  <2> QED BY <2>2, <2>7
<1> QED BY <1>4, <1>5, <1>6 DEF IInv

LEMMA InvOffer ==
  ASSUME IInv, NEW c \in Conns, Offer(c)
  PROVE  IInv'
<1>1. TypeOK /\ HistoryInv /\ PhaseInv(c) /\ OrderInv(c)
  BY DEF IInv
<1>2. /\ lastID \in 1..MaxID /\ c \in snapshot /\ snapshot' = snapshot \ {c}
      /\ UNCHANGED <<lastID, history, bpc, handlerVars, peerVars, clients,
                     closed, sent>>
  BY <1>1, ServerAssumption DEF Offer, HistoryInv, TypeOK
<1>3. \/ queue' = queue
      \/ /\ Len(queue[c]) < QueueCap
         /\ queue' = [queue EXCEPT ![c] = Append(@, lastID)]
  BY DEF Offer, Enqueue, Drop, Room
<1>4. /\ alive' \in BOOLEAN
      /\ dropped' \in [Conns -> SUBSET (1..MaxID)]
  <2>1. alive \in BOOLEAN /\ dropped \in [Conns -> SUBSET (1..MaxID)]
    BY <1>1 DEF TypeOK
  <2>2. dropped[c] \cup {lastID} \in SUBSET (1..MaxID)
    BY <1>2, <2>1
  <2>3. alive' \in BOOLEAN
    BY <2>1 DEF Offer
  <2>4. \/ dropped' = dropped
        \/ dropped' = [dropped EXCEPT ![c] = dropped[c] \cup {lastID}]
    BY DEF Offer, Enqueue, Drop
  <2> QED BY <2>1, <2>2, <2>3, <2>4
<1>5. queue' \in [Conns -> Seq(1..MaxID)]
      /\ \A d \in Conns : Len(queue'[d]) <= QueueCap
  <2>1. CASE queue' = queue
    BY <1>1, <2>1 DEF TypeOK
  <2>2. CASE /\ Len(queue[c]) < QueueCap
             /\ queue' = [queue EXCEPT ![c] = Append(@, lastID)]
    <3>1. /\ Append(queue[c], lastID) \in Seq(1..MaxID)
          /\ Len(Append(queue[c], lastID)) = Len(queue[c]) + 1
          /\ Len(queue[c]) \in Nat
      BY <1>1, <1>2, AppendProperties DEF TypeOK
    <3> QED BY ServerAssumption, <1>1, <2>2, <3>1 DEF TypeOK
  <2> QED BY <1>3, <2>1, <2>2
<1>6. TypeOK'
  BY <1>1, <1>2, <1>4, <1>5 DEF TypeOK, handlerVars, peerVars
<1>7. HistoryInv'
  BY <1>1, <1>2 DEF HistoryInv
<1>8. ASSUME NEW d \in Conns, d # c PROVE PhaseInv(d)' /\ OrderInv(d)'
  BY <1>1, <1>2, <1>3, <1>8, Untouched DEF IInv, TypeOK, handlerVars
<1>9. PhaseInv(c)'
  BY <1>1, <1>2 DEF PhaseInv, handlerVars
<1>10. OrderInv(c)'
  <2>1. /\ Floor(c)' = Floor(c) /\ Top(c) = lastID - 1 /\ Top(c)' = lastID
        /\ Floor(c) \in Nat /\ lastID \in Int
        /\ sent'[c] = sent[c] /\ replay'[c] = replay[c]
    BY <1>1, <1>2, ConnTypes DEF Floor, Top, handlerVars
  <2>2. /\ sent[c] \in Seq(Int) /\ replay[c] \in Seq(Int)
        /\ queue[c] \in Seq(Int)
    BY <1>1, ConnTypes
  <2>3. ASSUME NEW s \in Seq(Int), Within(s, Floor(c), lastID - 1)
        PROVE  /\ Within(s, Floor(c), lastID)
               /\ \A i \in 1..Len(s) : s[i] < lastID
    BY <2>1, <2>3 DEF Within
  <2>4. CASE queue' = queue
    <3>1. /\ Within(sent[c], Floor(c), lastID)
          /\ Within(replay[c], Floor(c), lastID)
          /\ Within(queue[c], Floor(c), lastID)
      BY <1>1, <2>1, <2>2, <2>3 DEF OrderInv
    <3> QED BY <1>1, <2>1, <2>4, <3>1 DEF OrderInv, Increasing, Within, Before
  <2>5. CASE queue' = [queue EXCEPT ![c] = Append(@, lastID)]
    <3>1. queue'[c] = Append(queue[c], lastID)
      BY <1>1, <2>5 DEF TypeOK
    <3>2. /\ Within(sent[c], Floor(c), lastID)
          /\ Within(replay[c], Floor(c), lastID)
          /\ \A i \in 1..Len(sent[c]) : sent[c][i] < lastID
          /\ \A i \in 1..Len(replay[c]) : replay[c][i] < lastID
      BY <1>1, <2>1, <2>2, <2>3 DEF OrderInv
    <3>3. /\ Increasing(queue'[c])
          /\ Within(queue'[c], Floor(c), lastID)
      BY <1>1, <2>1, <2>2, <3>1, AppendOrder DEF OrderInv
    <3>4. Before(sent[c], queue'[c]) /\ Before(replay[c], queue'[c])
      <4>1. Before(sent[c], queue[c]) /\ Before(replay[c], queue[c])
        BY <1>1 DEF OrderInv
      <4>2. Before(sent[c], Append(queue[c], lastID))
        BY <2>1, <2>2, <3>2, <4>1, AppendBefore
      <4>3. Before(replay[c], Append(queue[c], lastID))
        BY <2>1, <2>2, <3>2, <4>1, AppendBefore
      <4> QED BY <3>1, <4>2, <4>3
    <3> QED
      BY <1>1, <2>1, <3>2, <3>3, <3>4 DEF OrderInv
  <2> QED BY <1>3, <2>4, <2>5
<1> QED BY <1>6, <1>7, <1>8, <1>9, <1>10 DEF IInv

LEMMA InvReplay ==
  ASSUME IInv, NEW c \in Conns, Replay(c)
  PROVE  IInv'
<1> DEFINE result == ReplayAfter(lastEventID[c])
<1>1. TypeOK /\ HistoryInv /\ PhaseInv(c) /\ OrderInv(c)
  BY DEF IInv
<1>2. /\ pc[c] = "replay" /\ pc' = [pc EXCEPT ![c] = "register"]
      /\ resume' = [resume EXCEPT ![c] = result.kind]
      /\ replay' = [replay EXCEPT ![c] = result.frames]
      /\ seenTo' = [seenTo EXCEPT ![c] = lastID]
      /\ UNCHANGED <<bcastVars, lastEventID, announced, regAt, peerVars,
                     clients, closed, queue, sent, alive, dropped>>
  BY DEF Replay, Goto
<1>3. /\ c \notin snapshot /\ c \notin clients
      /\ sent[c] = <<>> /\ queue[c] = <<>>
  BY <1>1, <1>2 DEF PhaseInv
<1>4. /\ result.kind \in ResumeKinds
      /\ result.frames \in Seq(1..MaxID)
      /\ result.kind # "frames" => result.frames = <<>>
      /\ result.kind = "frames" =>
           /\ lastEventID[c] <= lastID
           /\ Increasing(result.frames)
           /\ Within(result.frames, lastEventID[c], lastID)
  <2> DEFINE at == {i \in 1..Len(history) : history[i] = lastEventID[c]}
             k  == CHOOSE i \in at : TRUE
             kept == SubSeq(history, k + 1, Len(history))
  <2>1. CASE history = <<>>
    BY <2>1 DEF ReplayAfter, ResumeKinds
  <2>2. CASE history # <<>> /\ at = {}
    BY <2>2 DEF ReplayAfter, ResumeKinds
  <2>3. CASE history # <<>> /\ at # {}
    <3>1. k \in 1..Len(history) /\ history[k] = lastEventID[c]
      BY <2>3
    <3>2. result.kind = "frames" /\ result.frames = kept
      BY <2>3 DEF ReplayAfter, FramesAfter
    <3> HIDE DEF at, k, result
    <3>3. history \in Seq(1..MaxID) /\ Len(history) \in Nat /\ lastID \in Nat
      BY <1>1, ServerAssumption DEF TypeOK
    <3>4. \A i \in 1..Len(history) : history[i] = lastID - Len(history) + i
      BY <1>1 DEF HistoryInv
    <3>5. \A i \in k + 1 .. Len(history) : history[i] \in 1..MaxID
      <4>1. \A i \in k + 1 .. Len(history) : i \in 1..Len(history)
        BY <3>1, <3>3
      <4> QED BY <3>3, <4>1, ElementOfSeq
    <3>6. /\ kept \in Seq(1..MaxID)
          /\ Len(kept) = IF k + 1 <= Len(history)
                         THEN Len(history) - (k + 1) + 1 ELSE 0
          /\ \A i \in 1 .. Len(history) - (k + 1) + 1 :
               kept[i] = history[k + 1 + i - 1]
      BY <3>1, <3>3, <3>5, SubSeqProperties
    <3> HIDE DEF kept
    <3>7. \A i \in 1..Len(kept) :
             kept[i] = lastEventID[c] + i /\ kept[i] <= lastID
      BY <3>1, <3>3, <3>4, <3>6
    <3>8. lastEventID[c] \in Nat /\ lastEventID[c] <= lastID
      <4>1. lastID - Len(history) + k <= lastID
        BY <3>1, <3>3
      <4> QED BY <1>1, <3>1, <3>4, <4>1, ConnTypes
    <3>9. Increasing(kept) /\ Within(kept, lastEventID[c], lastID)
      BY <3>6, <3>7, <3>8 DEF Increasing, Within
    <3> QED BY <3>2, <3>6, <3>8, <3>9 DEF ResumeKinds
  <2> QED BY <2>1, <2>2, <2>3
<1> HIDE DEF result
<1>5. TypeOK'
  BY <1>1, <1>2, <1>4 DEF TypeOK, bcastVars, peerVars, HandlerStates
<1>6. HistoryInv'
  BY <1>1, <1>2 DEF HistoryInv, bcastVars
<1>7. ASSUME NEW d \in Conns, d # c PROVE PhaseInv(d)' /\ OrderInv(d)'
  BY <1>1, <1>2, <1>7, Untouched DEF IInv, TypeOK, bcastVars
<1>8. /\ pc'[c] = "register" /\ resume'[c] = result.kind
      /\ replay'[c] = result.frames /\ lastEventID'[c] = lastEventID[c]
      /\ sent'[c] = <<>> /\ queue'[c] = <<>>
      /\ c \notin snapshot' /\ c \notin clients' /\ lastID' = lastID
  BY <1>1, <1>2, <1>3 DEF TypeOK, bcastVars
<1>9. PhaseInv(c)'
  BY <1>4, <1>8 DEF PhaseInv
<1>10. OrderInv(c)'
  <2>1. lastID \in Nat
    BY <1>1, ConnTypes
  <2>2. CASE result.kind = "frames"
    BY <1>4, <1>8, <2>1, <2>2
       DEF OrderInv, Floor, Top, Increasing, Within, Before
  <2>3. CASE result.kind # "frames"
    BY <1>4, <1>8, <2>1, <2>3
       DEF OrderInv, Floor, Top, Increasing, Within, Before
  <2> QED BY <2>2, <2>3
<1> QED BY <1>5, <1>6, <1>7, <1>9, <1>10 DEF IInv

\* A frame of the replay is written.
LEMMA InvResend ==
  ASSUME IInv, NEW c \in Conns, Resend(c)
  PROVE  IInv'
<1>1. TypeOK /\ HistoryInv /\ PhaseInv(c) /\ OrderInv(c)
  BY DEF IInv
<1>2. /\ pc[c] = "resend" /\ replay[c] # <<>>
      /\ sent' = [sent EXCEPT ![c] = Append(@, Head(replay[c]))]
      /\ replay' = [replay EXCEPT ![c] = Tail(@)]
      /\ UNCHANGED <<bcastVars, pc, lastEventID, resume, announced, seenTo,
                     regAt, peerVars, clients, closed, queue, alive, dropped>>
  BY DEF Resend
<1>3. /\ Head(replay[c]) \in 1..MaxID /\ Tail(replay[c]) \in Seq(1..MaxID)
      /\ Append(sent[c], Head(replay[c])) \in Seq(1..MaxID)
  BY <1>1, <1>2, ConnTypes, HeadTailProperties, AppendProperties
<1>4. TypeOK'
  BY <1>1, <1>2, <1>3 DEF TypeOK, bcastVars, peerVars
<1>5. HistoryInv'
  BY <1>1, <1>2 DEF HistoryInv, bcastVars
<1>6. ASSUME NEW d \in Conns, d # c PROVE PhaseInv(d)' /\ OrderInv(d)'
  BY <1>1, <1>2, <1>6, Untouched DEF IInv, TypeOK, bcastVars
<1>7. PhaseInv(c)'
  BY <1>1, <1>2 DEF PhaseInv, TypeOK
<1>8. OrderInv(c)'
  <2>1. /\ sent'[c] = Append(sent[c], Head(replay[c]))
        /\ replay'[c] = Tail(replay[c]) /\ queue'[c] = queue[c]
        /\ Floor(c)' = Floor(c) /\ Top(c)' = Top(c)
    BY <1>1, <1>2 DEF TypeOK, bcastVars, Floor, Top
  <2>2. /\ sent[c] \in Seq(Int) /\ replay[c] \in Seq(Int)
        /\ queue[c] \in Seq(Int) /\ Floor(c) \in Int /\ Top(c) \in Int
    BY <1>1, ConnTypes
  <2> DEFINE e == Head(replay[c])
             rest == Tail(replay[c])
  <2>3. /\ Increasing(sent[c]) /\ Increasing(replay[c])
        /\ Within(sent[c], Floor(c), Top(c))
        /\ Within(replay[c], Floor(c), Top(c))
        /\ Before(sent[c], replay[c])
        /\ Before(sent[c], queue[c]) /\ Before(replay[c], queue[c])
    BY <1>1 DEF OrderInv
  <2>4. /\ e \in Int /\ rest \in Seq(Int) /\ Floor(c) < e /\ e <= Top(c)
        /\ Increasing(rest) /\ Within(rest, Floor(c), Top(c))
        /\ \A i \in 1..Len(rest) : e < rest[i]
    BY <1>2, <2>2, <2>3, TailOrder
  <2>5. /\ Before(sent[c], rest) /\ Before(rest, queue[c])
        /\ \A i \in 1..Len(sent[c]) : sent[c][i] < e
        /\ \A i \in 1..Len(queue[c]) : e < queue[c][i]
    BY <1>2, <2>2, <2>3, TailBefore
  <2> HIDE DEF e, rest
  <2>6. Within(sent[c], Floor(c), e - 1)
    BY <2>2, <2>3, <2>4, <2>5 DEF Within
  <2>7. /\ Increasing(Append(sent[c], e))
        /\ Within(Append(sent[c], e), Floor(c), Top(c))
    BY <2>2, <2>3, <2>4, <2>6, AppendOrder
  <2>8. Before(Append(sent[c], e), rest)
    BY <2>2, <2>4, <2>5, AppendBefore
  <2>9. Before(Append(sent[c], e), queue[c])
    BY <2>2, <2>3, <2>4, <2>5, AppendBefore
  <2>10. sent'[c] = Append(sent[c], e) /\ replay'[c] = rest
    BY <2>1 DEF e, rest
  <2> QED
    BY <1>1, <2>1, <2>4, <2>5, <2>7, <2>8, <2>9, <2>10 DEF OrderInv
<1> QED BY <1>4, <1>5, <1>6, <1>7, <1>8 DEF IInv

\* A frame of the channel is written.
LEMMA InvDeliver ==
  ASSUME IInv, NEW c \in Conns, Deliver(c)
  PROVE  IInv'
<1>1. TypeOK /\ HistoryInv /\ PhaseInv(c) /\ OrderInv(c)
  BY DEF IInv
<1>2. /\ pc[c] = "stream" /\ queue[c] # <<>> /\ replay[c] = <<>>
      /\ queue' = [queue EXCEPT ![c] = Tail(@)]
      /\ sent' = [sent EXCEPT ![c] = Append(@, Head(queue[c]))]
      /\ UNCHANGED <<bcastVars, handlerVars, peerVars, clients, closed, alive,
                     dropped>>
  BY <1>1 DEF Deliver, PhaseInv
<1>3. /\ Head(queue[c]) \in 1..MaxID /\ Tail(queue[c]) \in Seq(1..MaxID)
      /\ Len(Tail(queue[c])) = Len(queue[c]) - 1 /\ Len(queue[c]) \in Nat
      /\ Append(sent[c], Head(queue[c])) \in Seq(1..MaxID)
  <2>1. sent[c] \in Seq(1..MaxID) /\ queue[c] \in Seq(1..MaxID)
    BY <1>1, ConnTypes
  <2>2. /\ Head(queue[c]) \in 1..MaxID /\ Tail(queue[c]) \in Seq(1..MaxID)
        /\ Len(Tail(queue[c])) = Len(queue[c]) - 1
    BY <1>2, <2>1, HeadTailProperties
  <2>3. Append(sent[c], Head(queue[c])) \in Seq(1..MaxID)
    BY <2>1, <2>2, AppendProperties
  <2> QED BY <2>1, <2>2, <2>3
<1>4. TypeOK'
  <2>1. \A d \in Conns : Len(queue'[d]) <= QueueCap
    <3>1. Len(Tail(queue[c])) <= QueueCap
      BY ServerAssumption, <1>1, <1>3 DEF TypeOK
    <3> QED BY <1>1, <1>2, <3>1 DEF TypeOK
  <2> QED BY <1>1, <1>2, <1>3, <2>1 DEF TypeOK, bcastVars, handlerVars, peerVars
<1>5. HistoryInv'
  BY <1>1, <1>2 DEF HistoryInv, bcastVars
<1>6. ASSUME NEW d \in Conns, d # c PROVE PhaseInv(d)' /\ OrderInv(d)'
  BY <1>1, <1>2, <1>6, Untouched DEF IInv, TypeOK, bcastVars, handlerVars
<1>7. PhaseInv(c)'
  BY <1>1, <1>2 DEF PhaseInv, TypeOK, handlerVars
<1>8. OrderInv(c)'
  <2> DEFINE e == Head(queue[c])
             rest == Tail(queue[c])
  <2>1. /\ sent'[c] = Append(sent[c], e) /\ queue'[c] = rest
        /\ replay'[c] = <<>> /\ Floor(c)' = Floor(c) /\ Top(c)' = Top(c)
    BY <1>1, <1>2 DEF TypeOK, bcastVars, handlerVars, Floor, Top
  <2>2. /\ sent[c] \in Seq(Int) /\ queue[c] \in Seq(Int)
        /\ Floor(c) \in Int /\ Top(c) \in Int
    BY <1>1, ConnTypes
  <2>3. /\ Increasing(sent[c]) /\ Increasing(queue[c])
        /\ Within(sent[c], Floor(c), Top(c))
        /\ Within(queue[c], Floor(c), Top(c))
        /\ Before(sent[c], queue[c])
    BY <1>1 DEF OrderInv
  <2>4. /\ e \in Int /\ rest \in Seq(Int) /\ Floor(c) < e /\ e <= Top(c)
        /\ Increasing(rest) /\ Within(rest, Floor(c), Top(c))
        /\ \A i \in 1..Len(rest) : e < rest[i]
    BY <1>2, <2>2, <2>3, TailOrder
  <2>5. /\ Before(sent[c], rest)
        /\ \A i \in 1..Len(sent[c]) : sent[c][i] < e
    BY <1>2, <2>2, <2>3, TailBefore
  <2> HIDE DEF e, rest
  <2>6. Within(sent[c], Floor(c), e - 1)
    BY <2>2, <2>3, <2>4, <2>5 DEF Within
  <2>7. /\ Increasing(Append(sent[c], e))
        /\ Within(Append(sent[c], e), Floor(c), Top(c))
    BY <2>2, <2>3, <2>4, <2>6, AppendOrder
  <2>8. Before(Append(sent[c], e), rest)
    BY <2>2, <2>4, <2>5, AppendBefore
  <2>9. /\ Increasing(<<>>) /\ Within(<<>>, Floor(c), Top(c))
        /\ Before(Append(sent[c], e), <<>>) /\ Before(<<>>, rest)
    BY DEF Increasing, Within, Before
  <2> QED
    BY <1>1, <2>1, <2>4, <2>7, <2>8, <2>9 DEF OrderInv
<1> QED BY <1>4, <1>5, <1>6, <1>7, <1>8 DEF IInv

\* The steps that move a handler or a peer and write nothing.
LEMMA InvMove ==
  ASSUME IInv, NEW c \in Conns,
         \/ \E h \in Headers : Connect(c, h)
         \/ Register(c) \/ Greet(c) \/ ResendDone(c) \/ ResendFails(c)
         \/ DeliverFails(c) \/ HeartbeatFails(c) \/ ContextDone(c)
         \/ Unregister(c) \/ CloseQueue(c) \/ PeerLeaves(c) \/ Notice(c)
  PROVE  IInv'
<1>1. TypeOK /\ HistoryInv /\ PhaseInv(c) /\ OrderInv(c)
  BY DEF IInv
<1>2. CASE \E h \in Headers : Connect(c, h)
  <2>1. PICK h \in Headers : Connect(c, h)
    BY <1>2
  <2>2. ParseLastEventID(h) \in 0..MaxID + 1
    BY ServerAssumption DEF Headers, ParseLastEventID
  <2>3. TypeOK'
    BY <1>1, <2>1, <2>2
       DEF TypeOK, Connect, Goto, bcastVars, peerVars, HandlerStates
  <2>4. HistoryInv'
    BY <1>1, <2>1 DEF HistoryInv, Connect, bcastVars
  <2>5. ASSUME NEW d \in Conns, d # c PROVE PhaseInv(d)' /\ OrderInv(d)'
    BY <1>1, <2>1, <2>5, Untouched DEF IInv, TypeOK, Connect, Goto, bcastVars
  <2>6. PhaseInv(c)'
    BY <1>1, <2>1 DEF PhaseInv, TypeOK, Connect, Goto, bcastVars
  <2>7. Floor(c)' = Floor(c) /\ Top(c)' = Top(c)
    BY <1>1, <2>1 DEF PhaseInv, Connect, Floor, Top, bcastVars
  <2>8. OrderInv(c)'
    BY <1>1, <2>1, <2>7
       DEF OrderInv, Connect, bcastVars, Increasing, Within, Before
  <2> QED BY <2>3, <2>4, <2>5, <2>6, <2>8 DEF IInv
<1>3. CASE DeliverFails(c)
  <2>1. /\ pc[c] = "stream" /\ queue[c] # <<>>
        /\ queue' = [queue EXCEPT ![c] = Tail(@)]
        /\ pc' = [pc EXCEPT ![c] = "leave"]
        /\ UNCHANGED <<bcastVars, lastEventID, resume, replay, announced,
                       seenTo, regAt, peerVars, clients, closed, sent, alive,
                       dropped>>
    BY <1>3 DEF DeliverFails, Goto
  <2>2. /\ Tail(queue[c]) \in Seq(1..MaxID) /\ Len(queue[c]) \in Nat
        /\ Len(Tail(queue[c])) = Len(queue[c]) - 1
    <3>1. queue[c] \in Seq(1..MaxID)
      BY <1>1, ConnTypes
    <3>2. Len(queue[c]) \in Nat
      BY <3>1
    <3>3. /\ Tail(queue[c]) \in Seq(1..MaxID)
          /\ Len(Tail(queue[c])) = Len(queue[c]) - 1
      BY <2>1, <3>1, HeadTailProperties
    <3> QED BY <3>2, <3>3
  <2>3. TypeOK'
    <3>1. \A d \in Conns : Len(queue'[d]) <= QueueCap
      <4>1. Len(Tail(queue[c])) <= QueueCap
        BY ServerAssumption, <1>1, <2>2 DEF TypeOK
      <4> QED BY <1>1, <2>1, <4>1 DEF TypeOK
    <3> QED
      BY <1>1, <2>1, <2>2, <3>1 DEF TypeOK, bcastVars, peerVars, HandlerStates
  <2>4. HistoryInv'
    BY <1>1, <2>1 DEF HistoryInv, bcastVars
  <2>5. ASSUME NEW d \in Conns, d # c PROVE PhaseInv(d)' /\ OrderInv(d)'
    BY <1>1, <2>1, <2>5, Untouched DEF IInv, TypeOK, bcastVars
  <2>6. PhaseInv(c)'
    BY <1>1, <2>1 DEF PhaseInv, TypeOK, bcastVars
  <2>7. OrderInv(c)'
    <3>1. /\ queue'[c] = Tail(queue[c])
          /\ Floor(c)' = Floor(c) /\ Top(c)' = Top(c)
      BY <1>1, <2>1 DEF TypeOK, bcastVars, Floor, Top
    <3>2. /\ sent[c] \in Seq(Int) /\ replay[c] \in Seq(Int)
          /\ queue[c] \in Seq(Int) /\ Floor(c) \in Int /\ Top(c) \in Int
      BY <1>1, ConnTypes
    <3>3. Increasing(queue[c]) /\ Within(queue[c], Floor(c), Top(c))
      BY <1>1 DEF OrderInv
    <3>4. Increasing(Tail(queue[c])) /\ Within(Tail(queue[c]), Floor(c), Top(c))
      BY <2>1, <3>2, <3>3, TailOrder
    <3>5. Before(sent[c], Tail(queue[c])) /\ Before(replay[c], Tail(queue[c]))
      BY <1>1, <2>1, <3>2, TailBefore DEF OrderInv
    <3> QED BY <1>1, <2>1, <3>1, <3>4, <3>5 DEF OrderInv
  <2> QED BY <2>3, <2>4, <2>5, <2>6, <2>7 DEF IInv
<1>4. CASE \/ Register(c) \/ Greet(c) \/ ResendDone(c) \/ ResendFails(c)
           \/ HeartbeatFails(c) \/ ContextDone(c)
           \/ Unregister(c) \/ CloseQueue(c) \/ PeerLeaves(c) \/ Notice(c)
  <2> USE DEF Register, Greet, ResendDone, ResendFails, HeartbeatFails,
              ContextDone, Unregister, CloseQueue, PeerLeaves, Notice, Goto,
              bcastVars, handlerVars, peerVars
  <2>1. UNCHANGED <<lastID, history, bpc, snapshot, lastEventID, resume,
                    replay, sent, queue>>
    BY <1>4
  <2>2. TypeOK'
    <3> USE <1>1 DEF TypeOK, HandlerStates
    <3>1. ASSUME Register(c) PROVE TypeOK'
      <4>1. /\ pc' \in [Conns -> HandlerStates]
            /\ clients' \subseteq Conns
            /\ regAt' \in [Conns -> 0..MaxID]
        BY <3>1
      <4> QED BY <3>1, <4>1
    <3>8. ASSUME Unregister(c) PROVE TypeOK'
      <4>1. /\ pc' \in [Conns -> HandlerStates]
            /\ clients' \subseteq Conns
        BY <3>8
      <4> QED BY <3>8, <4>1
    <3>2. ASSUME Greet(c) PROVE TypeOK'
      <4>1. /\ pc' \in [Conns -> HandlerStates]
            /\ announced' \in [Conns -> {"nothing", "contiguous", "gap"}]
        BY <3>2
      <4> QED BY <3>2, <4>1
    <3>3. ASSUME ResendDone(c) \/ ResendFails(c) PROVE TypeOK'
      BY <3>3
    <3>4. ASSUME HeartbeatFails(c) \/ ContextDone(c) PROVE TypeOK'
      BY <3>4
    <3>5. ASSUME CloseQueue(c) PROVE TypeOK'
      BY <3>5
    <3>6. ASSUME PeerLeaves(c) PROVE TypeOK'
      BY <3>6
    <3>7. ASSUME Notice(c) PROVE TypeOK'
      BY <3>7
    <3> HIDE <1>1 DEF TypeOK
    <3> QED BY <1>4, <3>1, <3>2, <3>3, <3>4, <3>5, <3>6, <3>7,
               <3>8
  <2>3. HistoryInv'
    BY <1>1, <2>1 DEF HistoryInv
  <2>4. ASSUME NEW d \in Conns, d # c PROVE PhaseInv(d)' /\ OrderInv(d)'
    <3>1. /\ pc'[d] = pc[d]
          /\ d \in clients' <=> d \in clients
      BY <1>1, <1>4, <2>4 DEF TypeOK
    <3> QED BY <2>1, <3>1, Untouched DEF IInv
  <2>5. PhaseInv(c)'
    BY <1>1, <1>4 DEF PhaseInv, TypeOK
  <2>6. OrderInv(c)'
    BY <1>1, <2>1 DEF OrderInv, Floor, Top, Increasing, Within, Before
  <2> QED BY <2>2, <2>3, <2>4, <2>5, <2>6 DEF IInv
<1> QED BY <1>2, <1>3, <1>4

LEMMA InvNext == IInv /\ [Next]_vars => IInv'
<1> SUFFICES ASSUME IInv, [Next]_vars PROVE IInv'
    OBVIOUS
<1>1. CASE Environment
  <2>1. CASE Broadcast
    BY <2>1, InvBroadcast
  <2>2. CASE StopBroadcasting
    <3>1. TypeOK'
      BY <2>2 DEF IInv, TypeOK, StopBroadcasting, handlerVars, peerVars,
                  BroadcastStates
    <3>2. HistoryInv'
      BY <2>2 DEF IInv, HistoryInv, StopBroadcasting
    <3>3. ASSUME NEW c \in Conns PROVE PhaseInv(c)' /\ OrderInv(c)'
      BY <2>2, Untouched DEF IInv, StopBroadcasting, handlerVars
    <3> QED BY <3>1, <3>2, <3>3 DEF IInv
  <2>3. CASE \E c \in Conns : \/ \E h \in Headers : Connect(c, h)
                              \/ PeerLeaves(c) \/ Notice(c)
    BY <2>3, InvMove
  <2> QED BY <1>1, <2>1, <2>2, <2>3 DEF Environment
<1>2. CASE Broadcasting
  <2>1. CASE \E c \in Conns : Offer(c)
    BY <2>1, InvOffer
  <2>2. CASE EndBroadcast
    <3>1. TypeOK'
      BY <2>2 DEF IInv, TypeOK, EndBroadcast, handlerVars, peerVars,
                  BroadcastStates
    <3>2. HistoryInv'
      BY <2>2 DEF IInv, HistoryInv, EndBroadcast
    <3>3. ASSUME NEW c \in Conns PROVE PhaseInv(c)' /\ OrderInv(c)'
      BY <2>2, Untouched DEF IInv, EndBroadcast, handlerVars
    <3> QED BY <3>1, <3>2, <3>3 DEF IInv
  <2> QED BY <1>2, <2>1, <2>2 DEF Broadcasting
<1>3. ASSUME NEW c \in Conns,
             \/ HandlerMoves(c) \/ Writes(c) \/ WritesFail(c)
             \/ SeesDone(c)
      PROVE  IInv'
  BY <1>3, InvReplay, InvResend, InvDeliver, InvMove
     DEF HandlerMoves, Writes, WritesFail, SeesDone
<1>4. CASE UNCHANGED vars
  <2>1. TypeOK'
    BY <1>4 DEF IInv, TypeOK, vars, bcastVars, handlerVars, peerVars
  <2>2. HistoryInv'
    BY <1>4 DEF IInv, HistoryInv, vars, bcastVars
  <2>3. ASSUME NEW c \in Conns PROVE PhaseInv(c)' /\ OrderInv(c)'
    BY <1>4, Untouched DEF IInv, vars, bcastVars, handlerVars
  <2> QED BY <2>1, <2>2, <2>3 DEF IInv
<1> QED BY <1>1, <1>2, <1>3, <1>4 DEF Next

\* IInv is an invariant of the server.
THEOREM Invariance == Spec => []IInv
BY InvInit, InvNext, PTL DEF Spec

\* Type correctness, for any number of connections, any retention, capacity
\* and number of broadcasts.
THEOREM TypeCorrect == Spec => []TypeOK
<1>1. IInv => TypeOK
  BY DEF IInv
<1> QED BY <1>1, Invariance, PTL

\* The whole stream of a connection (what handleListen wrote, what it still
\* has to replay, what waits in its channel) is strictly increasing, and
\* nothing at or before the id it resumed after is sent.
THEOREM Ordered == Spec => []InOrderOnce
<1>1. IInv => InOrderOnce
  <2> SUFFICES ASSUME IInv, NEW c \in Conns
               PROVE  /\ Increasing(sent[c] \o replay[c] \o queue[c])
                      /\ \A id \in Range(sent[c]) : Floor(c) < id
      BY DEF InOrderOnce
  <2>1. TypeOK /\ OrderInv(c)
    BY DEF IInv
  <2>2. /\ sent[c] \in Seq(Int) /\ replay[c] \in Seq(Int)
        /\ queue[c] \in Seq(Int)
    BY <2>1, ConnTypes
  <2>3. Increasing(replay[c] \o queue[c])
    BY <2>1, <2>2, ConcatOrder DEF OrderInv
  <2>4. Before(sent[c], replay[c] \o queue[c])
    BY <2>1, <2>2, BeforeConcat DEF OrderInv
  <2>5. Increasing(sent[c] \o (replay[c] \o queue[c]))
    <3>1. replay[c] \o queue[c] \in Seq(Int) /\ Increasing(sent[c])
      BY <2>1, <2>2 DEF OrderInv
    <3> QED BY <2>2, <2>3, <2>4, <3>1, ConcatOrder
  <2>6. sent[c] \o (replay[c] \o queue[c]) = sent[c] \o replay[c] \o queue[c]
    <3>1. \A s, t, u \in Seq(Int) : (s \o t) \o u = s \o (t \o u)
      BY ConcatAssociative
    <3> QED BY <2>2, <3>1
  <2>7. \A id \in Range(sent[c]) : Floor(c) < id
    BY <2>1, <2>2 DEF OrderInv, Within, Range
  <2> QED BY <2>5, <2>6, <2>7
<1> QED BY <1>1, Invariance, PTL

-----------------------------------------------------------------------------
(* The server implements the feed: a broadcast publishes, a replay that     *)
(* finds its id resumes, a write of a frame receives, the rest stutters.    *)

FloorMap == [c \in Conns |-> Floor(c)]

LEMMA FeedInit == Init => Feed!Init
BY DEF Init, Feed!Init, Floor

\* A frame above all that was sent is received by the feed.
LEMMA FeedReceive ==
  ASSUME IInv, NEW c \in Conns, NEW e \in 1..lastID, Floor(c) < e,
         \A i \in 1..Len(sent[c]) : sent[c][i] < e,
         sent' = [sent EXCEPT ![c] = Append(@, e)],
         UNCHANGED <<lastID, resume, lastEventID>>
  PROVE  Feed!Next
<1>1. FloorMap' = FloorMap
  BY DEF FloorMap, Floor
<1>2. Feed!Receive(c, e)
  BY <1>1, ConnTypes DEF Feed!Receive, FloorMap, IInv
<1> QED BY <1>2 DEF Feed!Next

LEMMA FeedStep == IInv /\ [Next]_vars => [Feed!Next]_Feed!vars
<1> SUFFICES ASSUME IInv, [Next]_vars PROVE [Feed!Next]_Feed!vars
    OBVIOUS
<1>1. TypeOK /\ HistoryInv
  BY DEF IInv
<1>2. ASSUME UNCHANGED <<lastID, resume, lastEventID, sent>>
      PROVE  UNCHANGED Feed!vars
  BY <1>2 DEF Feed!vars, Floor
<1>3. CASE Broadcast
  <2>1. lastID' = lastID + 1 /\ sent' = sent /\ FloorMap' = FloorMap
    BY <1>3 DEF Broadcast, handlerVars, FloorMap, Floor
  <2>2. Feed!Publish
    BY <2>1 DEF Feed!Publish, FloorMap
  <2> QED BY <2>2 DEF Feed!Next
<1>4. ASSUME NEW c \in Conns, NEW h \in Headers, Connect(c, h)
      PROVE  UNCHANGED Feed!vars
  <2>1. resume[c] = "none"
    BY <1>4 DEF IInv, PhaseInv, Connect
  <2>2. \A d \in Conns : Floor(d)' = Floor(d)
    BY <1>1, <1>4, <2>1 DEF Connect, TypeOK, Floor
  <2> QED BY <1>4, <2>2 DEF Feed!vars, Connect, bcastVars
<1>5. ASSUME NEW c \in Conns, Replay(c)
      PROVE  [Feed!Next]_Feed!vars
  <2>1. /\ resume[c] = "none" /\ sent[c] = <<>> /\ c \notin snapshot
    BY <1>5 DEF IInv, PhaseInv, Replay
  <2>2. UNCHANGED <<lastID, lastEventID, sent>>
    BY <1>5 DEF Replay, bcastVars
  <2>3. \A d \in Conns \ {c} : Floor(d)' = Floor(d)
    BY <1>1, <1>5, <2>2 DEF Replay, Floor, TypeOK
  <2>4. CASE resume'[c] = "frames"
    <3>1. Floor(c)' = lastEventID[c] /\ Floor(c)' <= Top(c)'
      BY <1>5, <2>2, <2>4, InvReplay DEF Floor, IInv, OrderInv
    <3>2. lastEventID[c] <= lastID
      BY <1>5, <2>1, <2>2, <3>1 DEF Top, Replay, bcastVars
    <3>3. FloorMap' = [FloorMap EXCEPT ![c] = lastEventID[c]]
      BY <2>3, <3>1 DEF FloorMap
    <3>4. CASE lastEventID[c] = 0
      <4>1. \A d \in Conns : Floor(d)' = Floor(d)
        BY <2>1, <2>3, <3>1, <3>4 DEF Floor
      <4> QED BY <2>2, <4>1 DEF Feed!vars
    <3>5. CASE lastEventID[c] # 0
      <4>1. lastEventID[c] \in 1..lastID
        BY <1>1, <3>2, <3>5, ConnTypes
      <4>2. Feed!Resume(c, lastEventID[c])
        BY <2>1, <2>2, <3>2, <3>3 DEF Feed!Resume, FloorMap
      <4> QED BY <4>1, <4>2 DEF Feed!Next
    <3> QED BY <3>4, <3>5
  <2>5. CASE resume'[c] # "frames"
    <3>1. \A d \in Conns : Floor(d)' = Floor(d)
      BY <2>1, <2>3, <2>5 DEF Floor
    <3> QED BY <2>2, <3>1 DEF Feed!vars
  <2> QED BY <2>4, <2>5
<1>6. ASSUME NEW c \in Conns, Resend(c)
      PROVE  Feed!Next
  <2> DEFINE e == Head(replay[c])
  <2>1. /\ replay[c] # <<>> /\ replay[c] \in Seq(Int) /\ sent[c] \in Seq(Int)
        /\ Floor(c) \in Nat /\ Top(c) \in Int /\ lastID \in Nat
        /\ Top(c) <= lastID
    BY <1>1, <1>6, ConnTypes DEF Resend, Top
  <2>2. /\ Increasing(replay[c]) /\ Within(replay[c], Floor(c), Top(c))
        /\ Before(sent[c], replay[c])
    BY DEF IInv, OrderInv
  <2>3. e \in Int /\ Floor(c) < e /\ e <= Top(c)
    BY <2>1, <2>2, TailOrder
  <2>4. \A i \in 1..Len(sent[c]) : sent[c][i] < e
    BY <2>1, <2>2, TailBefore
  <2>5. /\ sent' = [sent EXCEPT ![c] = Append(@, e)]
        /\ UNCHANGED <<lastID, resume, lastEventID>>
    BY <1>6 DEF Resend, bcastVars
  <2> HIDE DEF e
  <2>6. e \in 1..lastID
    BY <2>1, <2>3
  <2> QED BY <2>3, <2>4, <2>5, <2>6, FeedReceive
<1>7. ASSUME NEW c \in Conns, Deliver(c)
      PROVE  Feed!Next
  <2> DEFINE e == Head(queue[c])
  <2>1. /\ queue[c] # <<>> /\ queue[c] \in Seq(Int) /\ sent[c] \in Seq(Int)
        /\ Floor(c) \in Nat /\ Top(c) \in Int /\ lastID \in Nat
        /\ Top(c) <= lastID
    BY <1>1, <1>7, ConnTypes DEF Deliver, Top
  <2>2. /\ Increasing(queue[c]) /\ Within(queue[c], Floor(c), Top(c))
        /\ Before(sent[c], queue[c])
    BY DEF IInv, OrderInv
  <2>3. e \in Int /\ Floor(c) < e /\ e <= Top(c)
    BY <2>1, <2>2, TailOrder
  <2>4. \A i \in 1..Len(sent[c]) : sent[c][i] < e
    BY <2>1, <2>2, TailBefore
  <2>5. /\ sent' = [sent EXCEPT ![c] = Append(@, e)]
        /\ UNCHANGED <<lastID, resume, lastEventID>>
    BY <1>7 DEF Deliver, bcastVars, handlerVars
  <2> HIDE DEF e
  <2>6. e \in 1..lastID
    BY <2>1, <2>3
  <2> QED BY <2>3, <2>4, <2>5, <2>6, FeedReceive
<1>8. CASE \/ StopBroadcasting \/ EndBroadcast
           \/ \E c \in Conns : \/ PeerLeaves(c) \/ Notice(c) \/ Offer(c)
                               \/ Register(c) \/ Greet(c) \/ ResendDone(c)
                               \/ Unregister(c) \/ CloseQueue(c)
                               \/ HeartbeatFails(c) \/ DeliverFails(c)
                               \/ ResendFails(c) \/ ContextDone(c)
  <2> USE DEF StopBroadcasting, EndBroadcast, PeerLeaves, Notice, Offer,
              Register, Greet, ResendDone, Unregister, CloseQueue,
              HeartbeatFails, DeliverFails, ResendFails, ContextDone,
              bcastVars, handlerVars
  <2>1. UNCHANGED <<lastID, resume, lastEventID, sent>>
    BY <1>8
  <2> QED BY <1>2, <2>1
<1>9. CASE UNCHANGED vars
  BY <1>2, <1>9 DEF vars, bcastVars, handlerVars
<1> QED
  BY <1>3, <1>4, <1>5, <1>6, <1>7, <1>8, <1>9
  DEF Next, Environment, Broadcasting, HandlerMoves, Writes, WritesFail,
      SeesDone

\* The server implements EventFeed: ids are handed out one by one, and a
\* connection receives ids above its floor, each once and in order.
THEOREM Refinement == Spec => ImplementsFeed
BY Invariance, FeedInit, FeedStep, PTL DEF Spec, ImplementsFeed, Feed!Spec
-----------------------------------------------------------------------------
(* What is never lost.                                                     *)

\* The events broadcast since a handler registered, and those between the
\* event it resumed after and the moment it took its replay, are accounted
\* for until the handler leaves.
LossInv(c) ==
  /\ c \in clients => pc[c] \in {"greet", "resend", "stream", "leave"}
  /\ c \in closed => pc[c] = "done"
  /\ pc[c] \in {"greet", "resend", "stream"} =>
       c \in clients /\ regAt[c] + 1 .. lastID \subseteq Accounted(c)
  /\ pc[c] \in {"register", "greet", "resend", "stream"} /\ resume[c] = "frames"
       => lastEventID[c] + 1 .. seenTo[c] \subseteq Accounted(c)

WindowInv == \A c \in Conns : LossInv(c)

\* The elements of a sequence, by its indices.
LEMMA RangeParts ==
  ASSUME NEW S, NEW s \in Seq(S)
  PROVE  Range(s) = {s[i] : i \in 1..Len(s)} /\ Range(s) \subseteq S
BY DEF Range

LEMMA RangeAppend ==
  ASSUME NEW S, NEW s \in Seq(S), NEW e \in S
  PROVE  Range(Append(s, e)) = Range(s) \cup {e}
<1>1. /\ Append(s, e) \in Seq(S) /\ Len(Append(s, e)) = Len(s) + 1
      /\ \A i \in 1..Len(s) : Append(s, e)[i] = s[i]
      /\ Append(s, e)[Len(s) + 1] = e
      /\ Len(s) \in Nat
  BY AppendProperties
<1>2. /\ Range(s) = {s[i] : i \in 1..Len(s)}
      /\ Range(Append(s, e)) = {Append(s, e)[i] : i \in 1..Len(s) + 1}
  BY <1>1, RangeParts
<1>3. \A i \in 1..Len(s) + 1 : i = Len(s) + 1 \/ i \in 1..Len(s)
  BY <1>1
<1>4. \A i \in 1..Len(s) : i \in 1..Len(s) + 1
  BY <1>1
<1>5. Len(s) + 1 \in 1..Len(s) + 1
  BY <1>1
<1> QED BY <1>1, <1>2, <1>3, <1>4, <1>5

LEMMA RangeTail ==
  ASSUME NEW S, NEW s \in Seq(S), s # <<>>
  PROVE  /\ Head(s) \in S /\ Tail(s) \in Seq(S)
         /\ Range(s) = {Head(s)} \cup Range(Tail(s))
<1>1. /\ Head(s) = s[1] /\ Head(s) \in S /\ Tail(s) \in Seq(S)
      /\ Len(s) \in Nat \ {0} /\ Len(Tail(s)) = Len(s) - 1
      /\ \A i \in 1..Len(Tail(s)) : Tail(s)[i] = s[i + 1]
  BY EmptySeq, HeadTailProperties
<1>2. /\ Range(s) = {s[i] : i \in 1..Len(s)}
      /\ Range(Tail(s)) = {Tail(s)[i] : i \in 1..Len(Tail(s))}
  BY <1>1, RangeParts
<1>3. ASSUME NEW i \in 1..Len(s), i # 1 PROVE s[i] \in Range(Tail(s))
  <2>1. i - 1 \in 1..Len(Tail(s)) /\ (i - 1) + 1 = i
    BY <1>1, <1>3
  <2>2. Tail(s)[i - 1] = s[i]
    BY <1>1, <2>1
  <2> QED BY <1>2, <2>1, <2>2
<1>4. ASSUME NEW i \in 1..Len(Tail(s)) PROVE Tail(s)[i] \in Range(s)
  <2>1. i + 1 \in 1..Len(s)
    BY <1>1
  <2> QED BY <1>1, <1>2, <2>1
<1>5. Head(s) \in Range(s)
  BY <1>1, <1>2
<1> QED BY <1>1, <1>2, <1>3, <1>4, <1>5

\* A handler that does not move loses nothing when its events stay accounted
\* for.
LEMMA LossKept ==
  ASSUME NEW c \in Conns, LossInv(c), Accounted(c) \subseteq Accounted(c)',
         lastID' = lastID, c \in clients' <=> c \in clients,
         c \in closed' <=> c \in closed, pc'[c] = pc[c],
         regAt'[c] = regAt[c], seenTo'[c] = seenTo[c],
         resume'[c] = resume[c], lastEventID'[c] = lastEventID[c]
  PROVE  LossInv(c)'
BY DEF LossInv

LEMMA AccountedSame ==
  ASSUME NEW c \in Conns, sent'[c] = sent[c], replay'[c] = replay[c],
         queue'[c] = queue[c], dropped'[c] = dropped[c], lastID' = lastID,
         c \in snapshot' <=> c \in snapshot
  PROVE  Accounted(c)' = Accounted(c)
BY DEF Accounted

\* The frame is offered to every registered connection.
LEMMA WindowBroadcast ==
  ASSUME IInv, WindowInv, Broadcast
  PROVE  WindowInv'
<1> SUFFICES ASSUME NEW c \in Conns PROVE LossInv(c)'
    BY DEF WindowInv
<1>1. LossInv(c) /\ TypeOK /\ snapshot = {} /\ lastID \in Nat
  BY ConnTypes DEF WindowInv, IInv, HistoryInv, Broadcast
<1>2. /\ lastID' = lastID + 1 /\ snapshot' = clients
      /\ UNCHANGED <<pc, lastEventID, resume, replay, seenTo, regAt, clients,
                     closed, queue, sent, dropped>>
  BY DEF Broadcast, handlerVars
<1>3. Accounted(c) \subseteq Accounted(c)'
  BY <1>1, <1>2 DEF Accounted
<1>4. c \in clients => lastID + 1 \in Accounted(c)'
  BY <1>2 DEF Accounted
<1>5. regAt[c] \in Nat
  BY <1>1 DEF TypeOK
<1>6. ASSUME c \in clients, regAt[c] + 1 .. lastID \subseteq Accounted(c)
      PROVE  regAt[c] + 1 .. lastID + 1 \subseteq Accounted(c)'
  <2>1. \A i \in regAt[c] + 1 .. lastID + 1 :
           i = lastID + 1 \/ i \in regAt[c] + 1 .. lastID
    BY <1>1, <1>5
  <2> QED BY <1>3, <1>4, <1>6, <2>1
<1> QED BY <1>1, <1>2, <1>3, <1>6 DEF LossInv

\* What broadcast holds for a connection goes to its channel or is dropped.
LEMMA WindowOffer ==
  ASSUME IInv, WindowInv, NEW c \in Conns, Offer(c)
  PROVE  WindowInv'
<1>1. /\ TypeOK /\ c \in snapshot /\ snapshot' = snapshot \ {c}
      /\ lastID \in 1..MaxID
      /\ UNCHANGED <<lastID, pc, lastEventID, resume, replay, seenTo, regAt,
                     clients, closed, sent>>
  BY ServerAssumption DEF IInv, HistoryInv, TypeOK, Offer, handlerVars
<1>2. ASSUME NEW d \in Conns, d # c PROVE LossInv(d)'
  <2>1. queue'[d] = queue[d] /\ dropped'[d] = dropped[d]
    BY <1>1, <1>2 DEF TypeOK, Offer, Enqueue, Drop
  <2>2. Accounted(d)' = Accounted(d)
    BY <1>1, <1>2, <2>1, AccountedSame
  <2> QED BY <1>1, <2>2, LossKept DEF WindowInv
<1>3. CASE c \in closed
  <2>1. LossInv(c)'
    BY <1>1, <1>3 DEF WindowInv, LossInv
  <2> QED BY <1>2, <2>1 DEF WindowInv
<1>4. CASE c \notin closed
  <2>1. Accounted(c) \subseteq Accounted(c)'
    <3>1. queue[c] \in Seq(1..MaxID)
      BY <1>1, ConnTypes
    <3>2. CASE Enqueue(c)
      <4>1. queue'[c] = Append(queue[c], lastID) /\ dropped'[c] = dropped[c]
        BY <1>1, <3>2 DEF TypeOK, Enqueue
      <4>2. \A e \in 1..MaxID :
              Range(Append(queue[c], e)) = Range(queue[c]) \cup {e}
        BY <3>1, RangeAppend
      <4>3. Range(queue'[c]) = Range(queue[c]) \cup {lastID}
        BY <1>1, <4>1, <4>2
      <4> QED BY <1>1, <4>1, <4>3 DEF Accounted
    <3>3. CASE Drop(c)
      <4>1. queue'[c] = queue[c] /\ dropped'[c] = dropped[c] \cup {lastID}
        BY <1>1, <3>3 DEF TypeOK, Drop
      <4> QED BY <1>1, <4>1 DEF Accounted
    <3> QED BY <1>4, <3>2, <3>3 DEF Offer
  <2>2. LossInv(c)'
    BY <1>1, <2>1, LossKept DEF WindowInv
  <2> QED BY <1>2, <2>2 DEF WindowInv
<1> QED BY <1>3, <1>4

\* A handler that resumes takes every event after its Last-Event-ID.
LEMMA WindowReplay ==
  ASSUME IInv, WindowInv, NEW c \in Conns, Replay(c)
  PROVE  WindowInv'
<1> DEFINE result == ReplayAfter(lastEventID[c])
<1>1. TypeOK /\ HistoryInv /\ PhaseInv(c) /\ LossInv(c)
  BY DEF IInv, WindowInv
<1>2. /\ pc[c] = "replay" /\ pc' = [pc EXCEPT ![c] = "register"]
      /\ resume' = [resume EXCEPT ![c] = result.kind]
      /\ replay' = [replay EXCEPT ![c] = result.frames]
      /\ seenTo' = [seenTo EXCEPT ![c] = lastID]
      /\ UNCHANGED <<bcastVars, lastEventID, announced, regAt, peerVars,
                     clients, closed, queue, sent, alive, dropped>>
  BY DEF Replay, Goto
<1>3. result.kind = "frames" =>
        lastEventID[c] + 1 .. lastID \subseteq Range(result.frames)
  <2> DEFINE at == {i \in 1..Len(history) : history[i] = lastEventID[c]}
             k  == CHOOSE i \in at : TRUE
             kept == SubSeq(history, k + 1, Len(history))
  <2>1. CASE history = <<>> \/ at = {}
    BY <2>1 DEF ReplayAfter
  <2>2. CASE history # <<>> /\ at # {}
    <3>1. k \in 1..Len(history) /\ history[k] = lastEventID[c]
      BY <2>2
    <3>2. result.frames = kept
      BY <2>2 DEF ReplayAfter, FramesAfter
    <3> HIDE DEF at, k, result
    <3>3. /\ history \in Seq(1..MaxID) /\ Len(history) \in Nat
          /\ lastID \in Nat
      BY <1>1, ServerAssumption DEF TypeOK
    <3>4. \A i \in 1..Len(history) : history[i] = lastID - Len(history) + i
      BY <1>1 DEF HistoryInv
    <3>5. \A i \in k + 1 .. Len(history) : history[i] \in 1..MaxID
      <4>1. \A i \in k + 1 .. Len(history) : i \in 1..Len(history)
        BY <3>1, <3>3
      <4> QED BY <3>3, <4>1, ElementOfSeq
    <3>6. /\ kept \in Seq(1..MaxID)
          /\ Len(kept) = IF k + 1 <= Len(history)
                         THEN Len(history) - (k + 1) + 1 ELSE 0
          /\ \A i \in 1 .. Len(history) - (k + 1) + 1 :
               kept[i] = history[k + 1 + i - 1]
      BY <3>1, <3>3, <3>5, SubSeqProperties
    <3> HIDE DEF kept
    <3>7. /\ lastEventID[c] = lastID - Len(history) + k
          /\ Len(kept) = lastID - lastEventID[c]
          /\ \A i \in 1..Len(kept) : kept[i] = lastEventID[c] + i
      BY <3>1, <3>3, <3>4, <3>6
    <3>8. ASSUME NEW id \in lastEventID[c] + 1 .. lastID
          PROVE  id \in Range(kept)
      <4>1. lastEventID[c] \in Nat
        BY <1>1, ConnTypes
      <4>2. id - lastEventID[c] \in 1..Len(kept)
        BY <3>3, <3>7, <4>1
      <4>3. kept[id - lastEventID[c]] = id
        BY <3>7, <4>1, <4>2
      <4>4. DOMAIN kept = 1..Len(kept)
        BY <3>6
      <4> QED BY <4>2, <4>3, <4>4 DEF Range
    <3> QED BY <3>2, <3>8
  <2> QED BY <2>1, <2>2
<1> HIDE DEF result
<1>4. ASSUME NEW d \in Conns, d # c PROVE LossInv(d)'
  <2>1. /\ pc'[d] = pc[d] /\ resume'[d] = resume[d]
        /\ replay'[d] = replay[d] /\ seenTo'[d] = seenTo[d]
    BY <1>1, <1>2, <1>4 DEF TypeOK
  <2>2. Accounted(d)' = Accounted(d)
    BY <1>2, <2>1, AccountedSame DEF bcastVars
  <2> QED BY <1>2, <2>1, <2>2, LossKept DEF WindowInv, bcastVars
<1>5. LossInv(c)'
  <2>1. /\ pc'[c] = "register" /\ resume'[c] = result.kind
        /\ replay'[c] = result.frames /\ seenTo'[c] = lastID
    BY <1>1, <1>2 DEF TypeOK
  <2>2. Range(result.frames) \subseteq Accounted(c)'
    BY <2>1 DEF Accounted
  <2> QED BY <1>1, <1>2, <1>3, <2>1, <2>2 DEF LossInv, PhaseInv
<1> QED BY <1>4, <1>5 DEF WindowInv

\* A frame that is written passes from the replay, or from the channel, to
\* what was sent.
LEMMA WindowWrite ==
  ASSUME IInv, WindowInv, NEW c \in Conns, Resend(c) \/ Deliver(c)
  PROVE  WindowInv'
<1>1. TypeOK
  BY DEF IInv
<1>2. UNCHANGED <<bcastVars, pc, lastEventID, resume, seenTo, regAt, clients,
                  closed, dropped>>
  BY DEF Resend, Deliver, handlerVars
<1>3. ASSUME NEW d \in Conns, d # c PROVE LossInv(d)'
  <2>1. sent'[d] = sent[d] /\ replay'[d] = replay[d] /\ queue'[d] = queue[d]
    BY <1>1, <1>3 DEF TypeOK, Resend, Deliver, handlerVars
  <2>2. Accounted(d)' = Accounted(d)
    BY <1>2, <2>1, AccountedSame DEF bcastVars
  <2> QED BY <1>2, <2>2, LossKept DEF WindowInv, bcastVars
<1>4. /\ sent[c] \in Seq(1..MaxID) /\ replay[c] \in Seq(1..MaxID)
      /\ queue[c] \in Seq(1..MaxID)
  BY <1>1, ConnTypes
<1>5. Accounted(c) \subseteq Accounted(c)'
  <2>1. CASE Resend(c)
    <3>1. /\ replay[c] # <<>> /\ replay'[c] = Tail(replay[c])
          /\ sent'[c] = Append(sent[c], Head(replay[c]))
          /\ queue' = queue
      BY <1>1, <2>1 DEF TypeOK, Resend
    <3>2. Range(sent[c]) \cup Range(replay[c]) \subseteq
            Range(sent'[c]) \cup Range(replay'[c])
      BY <1>4, <3>1, RangeTail, RangeAppend
    <3> QED BY <1>2, <3>1, <3>2 DEF Accounted, bcastVars
  <2>2. CASE Deliver(c)
    <3>1. /\ queue[c] # <<>> /\ queue'[c] = Tail(queue[c])
          /\ sent'[c] = Append(sent[c], Head(queue[c]))
          /\ replay' = replay
      BY <1>1, <2>2 DEF TypeOK, Deliver, handlerVars
    <3>2. Range(sent[c]) \cup Range(queue[c]) \subseteq
            Range(sent'[c]) \cup Range(queue'[c])
      BY <1>4, <3>1, RangeTail, RangeAppend
    <3> QED BY <1>2, <3>1, <3>2 DEF Accounted, bcastVars
  <2> QED BY <2>1, <2>2
<1>6. LossInv(c)'
  BY <1>2, <1>5, LossKept DEF WindowInv, bcastVars
<1> QED BY <1>3, <1>6 DEF WindowInv

\* The steps that move a handler or a peer and write nothing.
LEMMA WindowMove ==
  ASSUME IInv, WindowInv, NEW c \in Conns,
         \/ \E h \in Headers : Connect(c, h)
         \/ Register(c) \/ Greet(c) \/ ResendDone(c) \/ ResendFails(c)
         \/ DeliverFails(c) \/ HeartbeatFails(c) \/ ContextDone(c)
         \/ Unregister(c) \/ CloseQueue(c) \/ PeerLeaves(c) \/ Notice(c)
  PROVE  WindowInv'
<1> USE DEF Connect, Register, Greet, ResendDone, ResendFails, DeliverFails,
            HeartbeatFails, ContextDone, Unregister, CloseQueue, PeerLeaves,
            Notice, Goto, bcastVars, handlerVars, peerVars
<1>1. TypeOK /\ PhaseInv(c) /\ LossInv(c)
  BY DEF IInv, WindowInv
<1>2. UNCHANGED <<lastID, snapshot, resume, replay, seenTo, sent, dropped>>
  OBVIOUS
<1>3. ASSUME NEW d \in Conns, d # c PROVE LossInv(d)'
  <2>1. /\ pc'[d] = pc[d] /\ regAt'[d] = regAt[d] /\ queue'[d] = queue[d]
        /\ lastEventID'[d] = lastEventID[d]
        /\ d \in clients' <=> d \in clients
        /\ d \in closed' <=> d \in closed
    BY <1>1, <1>3 DEF TypeOK
  <2>2. Accounted(d)' = Accounted(d)
    BY <1>2, <2>1, AccountedSame
  <2> QED BY <1>2, <2>1, <2>2, LossKept DEF WindowInv
<1>4. LossInv(c)'
  <2>1. CASE \/ \E h \in Headers : Connect(c, h)
             \/ Unregister(c) \/ CloseQueue(c) \/ DeliverFails(c)
             \/ ResendFails(c) \/ HeartbeatFails(c) \/ ContextDone(c)
    BY <1>1, <2>1 DEF LossInv, PhaseInv, TypeOK
  <2>2. CASE Register(c)
    <3>1. Accounted(c)' = Accounted(c)
      BY <1>2, <2>2, AccountedSame
    <3>2. /\ pc[c] = "register" /\ pc'[c] = "greet" /\ c \in clients'
          /\ regAt'[c] = lastID /\ closed' = closed
          /\ lastEventID' = lastEventID
      BY <1>1, <2>2 DEF TypeOK
    <3>3. lastID + 1 .. lastID = {}
      BY <1>1, ConnTypes
    <3> HIDE DEF Register, Goto
    <3> QED BY <1>1, <1>2, <3>1, <3>2, <3>3 DEF LossInv
  <2>3. CASE Greet(c) \/ ResendDone(c)
    <3>1. Accounted(c)' = Accounted(c)
      BY <1>2, <2>3, AccountedSame
    <3>2. /\ pc[c] \in {"greet", "resend"} /\ pc'[c] \in {"resend", "stream"}
          /\ UNCHANGED <<clients, closed, regAt, lastEventID>>
      BY <1>1, <2>3 DEF TypeOK
    <3> QED BY <1>1, <1>2, <3>1, <3>2 DEF LossInv
  <2>4. CASE PeerLeaves(c) \/ Notice(c)
    <3>1. UNCHANGED <<pc, clients, closed, regAt, lastEventID, queue>>
      BY <2>4
    <3>2. Accounted(c)' = Accounted(c)
      BY <1>2, <3>1, AccountedSame
    <3> QED BY <1>1, <1>2, <3>1, <3>2, LossKept
  <2> QED BY <2>1, <2>2, <2>3, <2>4
<1> QED BY <1>3, <1>4 DEF WindowInv

LEMMA WindowNext == IInv /\ WindowInv /\ [Next]_vars => WindowInv'
<1> SUFFICES ASSUME IInv, WindowInv, [Next]_vars PROVE WindowInv'
    OBVIOUS
<1>1. CASE StopBroadcasting \/ EndBroadcast \/ UNCHANGED vars
  <2> SUFFICES ASSUME NEW c \in Conns PROVE LossInv(c)'
      BY DEF WindowInv
  <2>1. UNCHANGED <<lastID, snapshot, handlerVars, clients, closed, queue,
                    sent, dropped>>
    BY <1>1 DEF StopBroadcasting, EndBroadcast, vars, bcastVars
  <2>2. Accounted(c)' = Accounted(c)
    BY <2>1, AccountedSame DEF handlerVars
  <2> QED BY <2>1, <2>2, LossKept DEF WindowInv, handlerVars
<1>2. CASE Environment
  BY <1>1, <1>2, WindowBroadcast, WindowMove DEF Environment
<1>3. CASE Broadcasting
  BY <1>1, <1>3, WindowOffer DEF Broadcasting
<1>4. ASSUME NEW c \in Conns,
             HandlerMoves(c) \/ Writes(c) \/ WritesFail(c) \/ SeesDone(c)
      PROVE  WindowInv'
  BY <1>4, WindowReplay, WindowWrite, WindowMove
     DEF HandlerMoves, Writes, WritesFail, SeesDone
<1> QED BY <1>1, <1>2, <1>3, <1>4 DEF Next

\* A registered connection misses an event only because its channel was full
\* or because the event was broadcast between the replay and the registration
\* of its handler, in every instance.
THEOREM OnlyInWindow == Spec => []LossOnlyInWindow
<1>1. Init => WindowInv
  BY DEF Init, WindowInv, LossInv
<1>2. IInv /\ WindowInv => LossOnlyInWindow
  <2> SUFFICES ASSUME IInv, WindowInv, NEW c \in Serving
               PROVE  /\ regAt[c] + 1 .. lastID \subseteq Accounted(c)
                      /\ resume[c] = "frames" =>
                           lastEventID[c] + 1 .. seenTo[c] \subseteq Accounted(c)
      BY DEF LossOnlyInWindow
  <2>1. c \in Conns /\ c \in clients /\ pc[c] # "leave"
    BY DEF Serving, IInv, TypeOK
  <2> QED BY <2>1 DEF WindowInv, LossInv
<1> QED BY <1>1, <1>2, Invariance, WindowNext, PTL DEF Spec

=============================================================================
