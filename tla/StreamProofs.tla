---------------------------- MODULE StreamProofs ----------------------------
(***************************************************************************)
(* Theorems about Stream, for any capacities and any number of lives, cuts *)
(* and events: type correctness, DeliveredInOrder, FirstLifeComplete.      *)
(*                                                                         *)
(* The argument for order: lastID moves when a frame is read, before its   *)
(* event is delivered, so that every event in the application's hands is   *)
(* at most lastID; a connection then resumes strictly after it.  Frames of *)
(* an earlier life of the server come before all of a later one, because   *)
(* no life writes to a connection of another.                              *)
(* The argument for completeness: what a cut connection loses comes after  *)
(* all that was received, and when the loop dials again lastID is the      *)
(* newest event received, so that the replay starts where the loss does.   *)
(***************************************************************************)
EXTENDS Stream, SequenceTheorems, TLAPS

Ordered(s) == \A i, j \in 1..Len(s) : i < j => Earlier(s[i], s[j])

\* All of s comes before all of t.
Before(s, t) == \A i \in 1..Len(s), j \in 1..Len(t) : Earlier(s[i], t[j])

\* The client has seen every id of s.
Seen(s) == \A i \in 1..Len(s) : s[i][2] <= lastID

\* The server has numbered every frame of s, in this life or before.
Numbered(s) ==
  \A i \in 1..Len(s) :
    s[i][1] < life \/ (s[i][1] = life /\ s[i][2] <= serverID)

OrderInv ==
  /\ Ordered(received) /\ Ordered(pipe)
  /\ Before(received, hand) /\ Before(received, pipe) /\ Before(hand, pipe)

NumberInv ==
  /\ Seen(received) /\ Seen(hand)
  /\ Numbered(received) /\ Numbered(hand) /\ Numbered(pipe)

IInv == TypeOK /\ OrderInv /\ NumberInv

-----------------------------------------------------------------------------
(* Sequences of frames.                                                    *)

LEMMA FrameParts ==
  ASSUME NEW f \in Frames
  PROVE  f[1] \in 1..MaxLives /\ f[2] \in 1..MaxID
BY DEF Frames

\* A concatenation of ordered parts, one before the other.
LEMMA ConcatOrder ==
  ASSUME NEW s \in Seq(Frames), NEW t \in Seq(Frames), NEW u \in Seq(Frames),
         Ordered(s), Ordered(t), Before(s, t), Before(s, u), Before(t, u)
  PROVE  Ordered(s \o t) /\ Before(s \o t, u)
<1>1. /\ Len(s \o t) = Len(s) + Len(t)
      /\ \A i \in 1..Len(s) : (s \o t)[i] = s[i]
      /\ \A j \in Len(s) + 1 .. Len(s) + Len(t) : (s \o t)[j] = t[j - Len(s)]
  OBVIOUS
<1>2. Len(s) \in Nat /\ Len(t) \in Nat
  OBVIOUS
<1>3. Before(s \o t, u)
  BY <1>1, <1>2 DEF Before
<1>4. Ordered(s \o t)
  <2> SUFFICES ASSUME NEW i \in 1..Len(s \o t), NEW j \in 1..Len(s \o t), i < j
               PROVE  Earlier((s \o t)[i], (s \o t)[j])
    BY DEF Ordered
  <2>1. CASE j <= Len(s)
    BY <1>1, <1>2, <2>1 DEF Ordered
  <2>2. CASE i <= Len(s) /\ j > Len(s)
    BY <1>1, <1>2, <2>2 DEF Before
  <2>3. CASE i > Len(s)
    <3>1. i - Len(s) \in 1..Len(t) /\ j - Len(s) \in 1..Len(t)
      BY <1>1, <1>2, <2>3
    <3> QED BY <1>1, <1>2, <2>3, <3>1 DEF Ordered
  <2> QED BY <1>1, <1>2, <2>1, <2>2, <2>3
<1> QED BY <1>3, <1>4

\* What holds of the frames of two sequences holds of their concatenation.
LEMMA ConcatNumber ==
  ASSUME NEW s \in Seq(Frames), NEW t \in Seq(Frames)
  PROVE  /\ Seen(s) /\ Seen(t) => Seen(s \o t)
         /\ Numbered(s) /\ Numbered(t) => Numbered(s \o t)
<1>1. /\ Len(s \o t) = Len(s) + Len(t)
      /\ \A i \in 1..Len(s) : (s \o t)[i] = s[i]
      /\ \A j \in Len(s) + 1 .. Len(s) + Len(t) : (s \o t)[j] = t[j - Len(s)]
  OBVIOUS
<1>2. Len(s) \in Nat /\ Len(t) \in Nat
  OBVIOUS
<1>3. Seen(s) /\ Seen(t) => Seen(s \o t)
  BY <1>1, <1>2 DEF Seen
<1>4. Numbered(s) /\ Numbered(t) => Numbered(s \o t)
  BY <1>1, <1>2 DEF Numbered
<1> QED BY <1>3, <1>4

\* Taking the head of what is on its way.
LEMMA TakeHead ==
  ASSUME NEW s \in Seq(Frames), s # <<>>, Ordered(s), Numbered(s)
  PROVE  /\ Head(s) \in Frames /\ Tail(s) \in Seq(Frames)
         /\ Ordered(Tail(s)) /\ Numbered(Tail(s)) /\ Numbered(<<Head(s)>>)
         /\ Before(<<Head(s)>>, Tail(s))
         /\ \A r \in Seq(Frames) :
              Before(r, s) => Before(r, <<Head(s)>>) /\ Before(r, Tail(s))
<1>1. /\ Tail(s) \in Seq(Frames)
      /\ Len(Tail(s)) = Len(s) - 1
      /\ \A i \in 1..Len(Tail(s)) : Tail(s)[i] = s[i + 1]
  BY HeadTailProperties
<1>2. Head(s) = s[1] /\ Len(s) \in Nat \ {0}
  BY EmptySeq
<1>3. Head(s) \in Frames
  BY <1>2
<1>4. Len(<<Head(s)>>) = 1 /\ <<Head(s)>>[1] = s[1]
  BY <1>2
<1>5. Ordered(Tail(s))
  BY <1>1, <1>2 DEF Ordered
<1>6. Numbered(Tail(s)) /\ Numbered(<<Head(s)>>)
  BY <1>1, <1>2, <1>4 DEF Numbered
<1>7. Before(<<Head(s)>>, Tail(s))
  BY <1>1, <1>2, <1>4 DEF Before, Ordered
<1>8. ASSUME NEW r \in Seq(Frames), Before(r, s)
      PROVE  Before(r, <<Head(s)>>) /\ Before(r, Tail(s))
  BY <1>1, <1>2, <1>4, <1>8 DEF Before
<1> QED BY <1>1, <1>3, <1>5, <1>6, <1>7, <1>8

\* The next number of the server is later than all it has numbered.
LEMMA NextNumber ==
  ASSUME TypeOK, NEW s \in Seq(Frames), Numbered(s), serverID < MaxID
  PROVE  /\ <<life, serverID + 1>> \in Frames
         /\ \A i \in 1..Len(s) : Earlier(s[i], <<life, serverID + 1>>)
<1>1. <<life, serverID + 1>> \in Frames
  BY StreamAssumption DEF TypeOK, Frames
<1>2. \A i \in 1..Len(s) : s[i][1] \in Nat /\ s[i][2] \in Nat
  BY FrameParts
<1>3. life \in Nat /\ serverID \in Nat
  BY DEF TypeOK
<1> QED BY <1>1, <1>2, <1>3 DEF Numbered, Earlier

-----------------------------------------------------------------------------
(* The steps.                                                              *)

LEMMA InvInit == Init => IInv
<1> SUFFICES ASSUME Init PROVE IInv
  OBVIOUS
<1>1. TypeOK
  <2>1. /\ hand \in Seq(Frames) /\ Len(hand) = 0
        /\ received \in Seq(Frames) /\ pipe \in Seq(Frames)
    BY DEF Init
  <2>2. /\ 0 \in 0..EventsCap /\ 0 \in 0..ErrsCap /\ 0 \in 0..MaxID
        /\ 0 \in 0..MaxCuts /\ 1 \in 1..MaxLives
    BY StreamAssumption
  <2>3. /\ lastID \in 0..MaxID /\ buffered \in 0..EventsCap
        /\ errs \in 0..ErrsCap /\ life \in 1..MaxLives
        /\ serverID \in 0..MaxID /\ cuts \in 0..MaxCuts
        /\ excused \subseteq 1..MaxID
    BY <2>2 DEF Init
  <2>4. /\ reconnect \in BOOLEAN /\ ctxDone \in BOOLEAN /\ done \in BOOLEAN
        /\ reachable \in BOOLEAN
    BY DEF Init
  <2> QED BY <2>1, <2>3, <2>4 DEF Init, TypeOK, StreamStates
<1>2. OrderInv /\ NumberInv
  BY DEF Init, OrderInv, NumberInv, Ordered, Before, Seen, Numbered
<1> QED BY <1>1, <1>2 DEF IInv

\* The client asks for what follows lastID, and gets nothing else.
LEMMA InvDial ==
  ASSUME IInv, Dial
  PROVE  IInv'
<1> DEFINE replay == Resumed(lastID)
<1>1. TypeOK /\ OrderInv /\ NumberInv /\ hand = <<>> /\ hand' = <<>>
  <2>1. TypeOK /\ OrderInv /\ NumberInv
    BY DEF IInv
  <2>2. hand = <<>>
    BY <2>1, EmptySeq DEF TypeOK, Dial
  <2> QED BY <2>1, <2>2 DEF Dial
<1>2. pipe' = replay
  BY DEF Dial, Header
<1>3. life \in 1..MaxLives /\ serverID \in 0..MaxID /\ lastID \in 0..MaxID
  BY <1>1 DEF TypeOK
<1>4. /\ replay \in Seq(Frames)
      /\ \A i \in 1..Len(replay) :
           replay[i] = <<life, lastID + i>> /\ lastID + i <= serverID
  <2>1. CASE lastID \in Kept
    <3>1. /\ replay = [i \in 1..serverID - lastID |-> <<life, lastID + i>>]
          /\ serverID - lastID \in Nat
      BY <1>3, <2>1 DEF Resumed, Kept
    <3>2. \A i \in 1..serverID - lastID : <<life, lastID + i>> \in Frames
      BY <1>3, StreamAssumption DEF Frames
    <3>3. replay \in Seq(Frames) /\ Len(replay) = serverID - lastID
      BY <3>1, <3>2
    <3>4. \A i \in 1..Len(replay) :
            replay[i] = <<life, lastID + i>> /\ lastID + i <= serverID
      <4>1. SUFFICES ASSUME NEW i \in 1..serverID - lastID
                     PROVE  /\ replay[i] = <<life, lastID + i>>
                            /\ lastID + i <= serverID
        BY <3>3
      <4>2. replay[i] = <<life, lastID + i>>
        BY <3>1
      <4> QED BY <1>3, <3>1, <4>2
    <3> QED BY <3>3, <3>4
  <2>2. CASE lastID \notin Kept
    BY <2>2 DEF Resumed
  <2> QED BY <2>1, <2>2
<1> HIDE DEF replay
<1>5. \A i \in 1..Len(replay) :
        /\ replay[i][1] = life /\ replay[i][2] = lastID + i
        /\ lastID + i <= serverID
  BY <1>4
<1>6. Len(replay) \in Nat
  BY <1>4
<1>7. Ordered(replay) /\ Numbered(replay)
  BY <1>3, <1>5, <1>6 DEF Ordered, Earlier, Numbered
<1>8. Before(received, replay)
  <2>1. \A i \in 1..Len(received) :
          /\ received[i][1] \in Nat /\ received[i][2] \in Nat
          /\ received[i][1] <= life /\ received[i][2] <= lastID
    <3>1. ASSUME NEW i \in 1..Len(received)
          PROVE  received[i][1] \in Nat /\ received[i][2] \in Nat
      BY <1>1, FrameParts DEF TypeOK
    <3> QED BY <1>1, <1>3, <3>1 DEF NumberInv, Numbered, Seen
  <2> QED BY <1>3, <1>5, <1>6, <2>1 DEF Before, Earlier
<1>9. UNCHANGED <<received, lastID, life, serverID>>
  BY DEF Dial
<1>10. TypeOK'
  <2>1. excused' = excused \/ excused' = 1..serverID
    BY DEF Dial
  <2>2. excused' \subseteq 1..MaxID
    <3>1. 1..serverID \subseteq 1..MaxID
      BY <1>3, StreamAssumption
    <3>2. excused \subseteq 1..MaxID
      BY <1>1 DEF TypeOK
    <3> QED BY <2>1, <3>1, <3>2
  <2> QED BY <1>1, <1>2, <1>4, <2>2 DEF Dial, TypeOK, StreamStates, appVars
<1>11. OrderInv'
  BY <1>1, <1>2, <1>7, <1>8, <1>9 DEF OrderInv, Ordered, Before
<1>12. NumberInv'
  BY <1>1, <1>2, <1>7, <1>9 DEF NumberInv, Seen, Numbered
<1> QED BY <1>10, <1>11, <1>12 DEF IInv

\* What is returned from is forgotten, except what was received.
LEMMA InvReturn ==
  ASSUME IInv, NEW e \in {"eof", "error"}, Return(e)
  PROVE  IInv'
<1>1. TypeOK'
  BY DEF IInv, TypeOK, Return, StreamStates, appVars, serverVars
<1>2. OrderInv'
  BY DEF IInv, OrderInv, Return, Ordered, Before
<1>3. NumberInv'
  BY DEF IInv, NumberInv, Return, Seen, Numbered, serverVars
<1> QED BY <1>1, <1>2, <1>3 DEF IInv

\* The id of the frame is seen before its event is delivered.
LEMMA InvRead ==
  ASSUME IInv, Read
  PROVE  IInv'
<1>1. TypeOK /\ OrderInv /\ NumberInv /\ pipe \in Seq(Frames) /\ pipe # <<>>
  BY DEF IInv, TypeOK, Read
<1>2. /\ Head(pipe) \in Frames /\ Tail(pipe) \in Seq(Frames)
      /\ Ordered(Tail(pipe)) /\ Numbered(Tail(pipe))
      /\ Numbered(<<Head(pipe)>>)
      /\ Before(<<Head(pipe)>>, Tail(pipe))
      /\ Before(received, <<Head(pipe)>>) /\ Before(received, Tail(pipe))
  BY <1>1, TakeHead DEF OrderInv, NumberInv, TypeOK
<1>3. Head(pipe)[2] \in 1..MaxID /\ lastID \in 0..MaxID
  BY <1>1, <1>2, FrameParts DEF TypeOK
<1>4. /\ lastID' \in 0..MaxID
      /\ lastID' >= lastID /\ lastID' >= Head(pipe)[2]
  BY <1>3, StreamAssumption DEF Read
<1>5. /\ hand' = <<Head(pipe)>> /\ pipe' = Tail(pipe)
      /\ UNCHANGED <<received, life, serverID>>
  BY DEF Read, serverVars
<1>6. TypeOK'
  <2>1. hand' \in Seq(Frames) /\ Len(hand') = 1
    BY <1>2, <1>5
  <2> QED BY <1>1, <1>2, <1>4, <1>5, <2>1
          DEF Read, TypeOK, StreamStates, appVars, serverVars
<1>7. OrderInv'
  BY <1>1, <1>2, <1>5 DEF OrderInv, Ordered, Before
<1>8. Seen(received)' /\ Seen(hand)'
  <2>1. \A i \in 1..Len(received) : received[i][2] \in Nat
    BY <1>1, FrameParts DEF TypeOK
  <2>2. Seen(received)'
    BY <1>1, <1>3, <1>4, <1>5, <2>1 DEF NumberInv, Seen
  <2>3. Len(<<Head(pipe)>>) = 1 /\ <<Head(pipe)>>[1] = Head(pipe)
    OBVIOUS
  <2>4. Seen(hand)'
    BY <1>3, <1>4, <1>5, <2>3 DEF Seen
  <2> QED BY <2>2, <2>4
<1>9. NumberInv'
  BY <1>1, <1>2, <1>5, <1>8 DEF NumberInv, Numbered
<1> QED BY <1>6, <1>7, <1>9 DEF IInv

\* The event in the loop's hands is the latest the application gets.
LEMMA InvDeliver ==
  ASSUME IInv, Deliver
  PROVE  IInv'
<1>1. /\ TypeOK /\ OrderInv /\ NumberInv
      /\ received \in Seq(Frames) /\ hand \in Seq(Frames)
      /\ pipe \in Seq(Frames) /\ Len(hand) = 1
  BY DEF IInv, TypeOK, Deliver
<1>2. /\ received' = received \o hand /\ hand' = <<>>
      /\ UNCHANGED <<pipe, lastID, life, serverID>>
  BY DEF Deliver, connVars, serverVars
<1>3. Ordered(hand)
  BY <1>1 DEF Ordered
<1>4. Ordered(received \o hand) /\ Before(received \o hand, pipe)
  BY <1>1, <1>3, ConcatOrder DEF OrderInv
<1>5. Seen(received \o hand) /\ Numbered(received \o hand)
  BY <1>1, ConcatNumber DEF NumberInv
<1>6. TypeOK'
  <2>1. received' \in Seq(Frames) /\ hand' \in Seq(Frames) /\ Len(hand') = 0
    BY <1>1, <1>2
  <2>2. buffered' \in 0..EventsCap
    BY <1>1, StreamAssumption DEF Deliver, TypeOK
  <2> QED BY <1>1, <2>1, <2>2
          DEF Deliver, TypeOK, StreamStates, appVars, connVars, serverVars
<1>7. OrderInv'
  BY <1>1, <1>2, <1>4 DEF OrderInv, Ordered, Before
<1>8. NumberInv'
  BY <1>1, <1>2, <1>5 DEF NumberInv, Seen, Numbered
<1> QED BY <1>6, <1>7, <1>8 DEF IInv

\* The server numbers an event, and perhaps writes it.
LEMMA InvBroadcast ==
  ASSUME IInv, Broadcast
  PROVE  IInv'
<1> DEFINE frame == <<life, serverID + 1>>
<1>1. TypeOK /\ OrderInv /\ NumberInv
  BY DEF IInv
<1>2. /\ received \in Seq(Frames) /\ hand \in Seq(Frames)
      /\ pipe \in Seq(Frames)
      /\ life \in Nat /\ serverID \in 0..MaxID /\ serverID < MaxID
  BY <1>1 DEF TypeOK, Broadcast
<1>3. /\ frame \in Frames
      /\ \A i \in 1..Len(received) : Earlier(received[i], frame)
      /\ \A i \in 1..Len(hand) : Earlier(hand[i], frame)
      /\ \A i \in 1..Len(pipe) : Earlier(pipe[i], frame)
  BY <1>1, <1>2, NextNumber DEF NumberInv
<1>4. /\ UNCHANGED <<received, hand, lastID, life>>
      /\ serverID' = serverID + 1
  BY DEF Broadcast, streamVars
<1>5. pipe' = pipe \/ pipe' = Append(pipe, frame)
  BY DEF Broadcast
<1>6. frame[1] = life /\ frame[2] = serverID + 1
  OBVIOUS
<1> HIDE DEF frame
<1>7. /\ Append(pipe, frame) \in Seq(Frames)
      /\ Len(Append(pipe, frame)) = Len(pipe) + 1
      /\ \A i \in 1..Len(pipe) : Append(pipe, frame)[i] = pipe[i]
      /\ Append(pipe, frame)[Len(pipe) + 1] = frame
      /\ Len(pipe) \in Nat
  BY <1>2, <1>3, AppendProperties
<1>8. TypeOK'
  <2>1. pipe' \in Seq(Frames)
    BY <1>2, <1>5, <1>7
  <2>2. serverID' \in 0..MaxID /\ serverID + 1 \in 1..MaxID
    BY <1>1, <1>2, <1>4, StreamAssumption
  <2>3. excused' = excused \/ excused' = excused \cup {serverID + 1}
    BY DEF Broadcast
  <2>4. excused' \subseteq 1..MaxID
    BY <1>1, <2>2, <2>3 DEF TypeOK
  <2> QED BY <1>1, <2>1, <2>2, <2>4
          DEF Broadcast, TypeOK, StreamStates, streamVars, appVars
<1>9. OrderInv'
  <2>1. Ordered(pipe')
    BY <1>1, <1>3, <1>5, <1>7 DEF OrderInv, Ordered
  <2>2. ASSUME NEW s \in Seq(Frames), Before(s, pipe),
               \A i \in 1..Len(s) : Earlier(s[i], frame)
        PROVE  Before(s, pipe')
    BY <1>5, <1>7, <2>2 DEF Before
  <2>3. Before(received, pipe') /\ Before(hand, pipe')
    BY <1>1, <1>2, <1>3, <2>2 DEF OrderInv
  <2> QED BY <1>1, <1>4, <2>1, <2>3 DEF OrderInv, Ordered, Before
<1>10. ASSUME NEW s \in Seq(Frames), Numbered(s)
       PROVE  \A i \in 1..Len(s) : \/ s[i][1] < life
                                   \/ s[i][1] = life /\ s[i][2] <= serverID'
  <2>1. \A i \in 1..Len(s) : s[i][2] \in Nat
    BY FrameParts
  <2> QED BY <1>2, <1>4, <1>10, <2>1 DEF Numbered
<1>11. Numbered(received)' /\ Numbered(hand)'
  BY <1>1, <1>2, <1>4, <1>10 DEF NumberInv, Numbered
<1>12. Numbered(pipe)'
  <2>1. \A i \in 1..Len(pipe) : \/ pipe[i][1] < life
                                \/ pipe[i][1] = life /\ pipe[i][2] <= serverID'
    BY <1>1, <1>2, <1>10 DEF NumberInv
  <2>2. CASE pipe' = pipe
    BY <1>4, <2>1, <2>2 DEF Numbered
  <2>3. CASE pipe' = Append(pipe, frame)
    BY <1>2, <1>4, <1>6, <1>7, <2>1, <2>3 DEF Numbered
  <2> QED BY <1>5, <2>2, <2>3
<1>13. NumberInv'
  BY <1>1, <1>4, <1>11, <1>12 DEF NumberInv, Seen
<1> QED BY <1>8, <1>9, <1>13 DEF IInv

\* A new life of the server comes after all that was numbered.
LEMMA InvRestart ==
  ASSUME IInv, Restart
  PROVE  IInv'
<1>1. /\ TypeOK /\ OrderInv /\ NumberInv
      /\ life \in 1..MaxLives /\ life < MaxLives
      /\ received \in Seq(Frames) /\ hand \in Seq(Frames)
      /\ pipe \in Seq(Frames)
  BY DEF IInv, TypeOK, Restart
<1>2. /\ life' = life + 1 /\ serverID' = 0
      /\ UNCHANGED <<received, hand, pipe, lastID>>
  BY DEF Restart, streamVars
<1>3. TypeOK'
  BY <1>1, <1>2, StreamAssumption
     DEF Restart, TypeOK, StreamStates, streamVars, appVars
<1>4. OrderInv'
  BY <1>1, <1>2 DEF OrderInv, Ordered, Before
<1>5. ASSUME NEW s \in Seq(Frames), Numbered(s)
      PROVE  \A i \in 1..Len(s) : s[i][1] < life'
  <2>1. \A i \in 1..Len(s) : s[i][1] \in Nat
    BY FrameParts
  <2> QED BY <1>1, <1>2, <1>5, <2>1 DEF Numbered
<1>6. NumberInv'
  BY <1>1, <1>2, <1>5 DEF NumberInv, Seen, Numbered
<1> QED BY <1>3, <1>4, <1>6 DEF IInv

\* Steps that touch no frame and no number.
LEMMA InvOther ==
  ASSUME IInv,
         \/ AfterRun \/ Backoff \/ TakeEvent \/ TakeError \/ Cancel \/ CloseDone
         \/ Register \/ Cut \/ ReachableTurns \/ UNCHANGED vars
  PROVE  IInv'
<1>1. UNCHANGED <<received, hand, pipe, lastID, life, serverID>>
  BY DEF AfterRun, Backoff, TakeEvent, TakeError, Cancel, CloseDone, Register,
     Cut, ReachableTurns, vars, streamVars, appVars, connVars, serverVars
<1>2. OrderInv' /\ NumberInv'
  BY <1>1 DEF IInv, OrderInv, NumberInv, Ordered, Before, Seen, Numbered
<1> USE StreamAssumption DEF IInv, TypeOK, StreamStates, streamVars, appVars,
        connVars, serverVars, vars
<1>3. CASE AfterRun
  BY <1>2, <1>3 DEF AfterRun
<1>4. CASE Backoff
  BY <1>2, <1>4 DEF Backoff
<1>5. CASE TakeEvent
  BY <1>2, <1>5 DEF TakeEvent
<1>6. CASE TakeError
  BY <1>2, <1>6 DEF TakeError
<1>7. CASE Cancel
  BY <1>2, <1>7 DEF Cancel
<1>8. CASE CloseDone
  BY <1>2, <1>8 DEF CloseDone
<1>9. CASE Register
  BY <1>2, <1>9 DEF Register
<1>10. CASE ReachableTurns
  BY <1>2, <1>10 DEF ReachableTurns
<1>11. CASE Cut
  BY <1>2, <1>11 DEF Cut
<1>12. CASE UNCHANGED vars
  BY <1>2, <1>12
<1> QED BY <1>3, <1>4, <1>5, <1>6, <1>7, <1>8, <1>9, <1>10, <1>11, <1>12

LEMMA InvNext ==
  ASSUME IInv, [Next]_vars
  PROVE  IInv'
<1>1. CASE DialFails \/ ReadFails \/ DeliverStops
  BY <1>1, InvReturn DEF DialFails, ReadFails, DeliverStops
<1> QED BY <1>1, InvDial, InvRead, InvDeliver, InvBroadcast, InvRestart,
           InvOther DEF Next, StreamMoves

LEMMA Invariance == Spec => []IInv
<1>1. IInv /\ [Next]_vars => IInv'
  BY InvNext
<1> QED BY InvInit, <1>1, PTL DEF Spec

\* The variables of Stream keep their types: its channels never hold more
\* than their capacity, and the loop holds an event exactly while it delivers.
THEOREM TypeCorrect == Spec => []TypeOK
<1>1. IInv => TypeOK
  BY DEF IInv
<1> QED BY <1>1, Invariance, PTL

\* The application gets no event twice and none after a later one, for any
\* number of cuts, resumes and restarts of the server.
THEOREM InOrder == Spec => []DeliveredInOrder
<1>1. IInv => DeliveredInOrder
  BY DEF IInv, OrderInv, Ordered, DeliveredInOrder
<1> QED BY <1>1, Invariance, PTL
-----------------------------------------------------------------------------
(* Completeness in the first life of the server.                           *)

Flow == Range(received) \cup Range(hand) \cup Range(pipe)

\* Every id below one that is in the flow is in it too, or is not owed.
DownInv ==
  \A f \in Flow : \A id \in 1..f[2] : <<1, id>> \in Flow \/ id \in excused

\* While a handler runs, so is every id the server has numbered.
AllInv ==
  phase # "none" =>
    \A id \in 1..serverID : <<1, id>> \in Flow \/ id \in excused

\* When the loop is to go on, lastID is the id of an event the application
\* has, or that is in the loop's hands.
LastInv ==
  \/ pc \in {"dial", "read", "deliver", "backoff"}
  \/ pc = "return" /\ ~ctxDone /\ ~done
  => \/ lastID = 0
     \/ <<1, lastID>> \in Range(received) \cup Range(hand)

CompleteInv == life = 1 => DownInv /\ AllInv /\ LastInv

LEMMA RangeParts ==
  ASSUME NEW s \in Seq(Frames)
  PROVE  /\ Range(s) = {s[i] : i \in 1..Len(s)}
         /\ Range(s) \subseteq Frames
BY DEF Range

LEMMA RangeConcat ==
  ASSUME NEW s \in Seq(Frames), NEW t \in Seq(Frames)
  PROVE  s \o t \in Seq(Frames) /\ Range(s \o t) = Range(s) \cup Range(t)
<1>1. /\ s \o t \in Seq(Frames) /\ Len(s \o t) = Len(s) + Len(t)
      /\ \A i \in 1..Len(s) : (s \o t)[i] = s[i]
      /\ \A j \in Len(s) + 1 .. Len(s) + Len(t) : (s \o t)[j] = t[j - Len(s)]
      /\ Len(s) \in Nat /\ Len(t) \in Nat
  OBVIOUS
<1> DEFINE u == s \o t
<1>2. /\ Range(u) = {u[i] : i \in 1..Len(u)}
      /\ Range(s) = {s[i] : i \in 1..Len(s)}
      /\ Range(t) = {t[i] : i \in 1..Len(t)}
  BY <1>1, RangeParts
<1>3. ASSUME NEW i \in 1..Len(u) PROVE u[i] \in Range(s) \cup Range(t)
  <2>1. CASE i <= Len(s)
    BY <1>1, <1>2, <2>1
  <2>2. CASE i > Len(s)
    <3>1. i - Len(s) \in 1..Len(t) /\ u[i] = t[i - Len(s)]
      BY <1>1, <2>2
    <3> QED BY <1>2, <3>1
  <2> QED BY <1>1, <2>1, <2>2
<1>4. ASSUME NEW i \in 1..Len(s) PROVE s[i] \in Range(u)
  <2>1. i \in 1..Len(u) /\ u[i] = s[i]
    BY <1>1
  <2> QED BY <1>2, <2>1
<1>5. ASSUME NEW i \in 1..Len(t) PROVE t[i] \in Range(u)
  <2>1. Len(s) + i \in 1..Len(u) /\ (Len(s) + i) - Len(s) = i
    BY <1>1
  <2>2. u[Len(s) + i] = t[i]
    BY <1>1, <2>1
  <2> QED BY <1>2, <2>1, <2>2
<1> HIDE DEF u
<1>6. Range(u) = Range(s) \cup Range(t)
  BY <1>2, <1>3, <1>4, <1>5
<1> QED BY <1>1, <1>6 DEF u

LEMMA RangeTail ==
  ASSUME NEW s \in Seq(Frames), s # <<>>
  PROVE  Range(s) = Range(<<Head(s)>>) \cup Range(Tail(s))
<1>1. /\ Head(s) = s[1] /\ Head(s) \in Frames /\ Tail(s) \in Seq(Frames)
      /\ Len(s) \in Nat \ {0} /\ Len(Tail(s)) = Len(s) - 1
      /\ \A i \in 1..Len(Tail(s)) : Tail(s)[i] = s[i + 1]
  BY EmptySeq, HeadTailProperties
<1>2. /\ Range(s) = {s[i] : i \in 1..Len(s)}
      /\ Range(Tail(s)) = {Tail(s)[i] : i \in 1..Len(Tail(s))}
  BY <1>1, RangeParts
<1>3. Range(<<Head(s)>>) = {Head(s)}
  BY <1>1 DEF Range
<1>4. ASSUME NEW i \in 1..Len(s), i # 1 PROVE s[i] \in Range(Tail(s))
  <2>1. i - 1 \in 1..Len(Tail(s)) /\ (i - 1) + 1 = i
    BY <1>1, <1>4
  <2>2. Tail(s)[i - 1] = s[i]
    BY <1>1, <2>1
  <2> QED BY <1>2, <2>1, <2>2
<1>5. ASSUME NEW i \in 1..Len(Tail(s)) PROVE Tail(s)[i] \in Range(s)
  <2>1. i + 1 \in 1..Len(s)
    BY <1>1
  <2> QED BY <1>1, <1>2, <2>1
<1>6. Head(s) \in Range(s)
  BY <1>1, <1>2
<1> QED BY <1>1, <1>2, <1>3, <1>4, <1>5, <1>6

LEMMA RangeAppend ==
  ASSUME NEW s \in Seq(Frames), NEW f \in Frames
  PROVE  Range(Append(s, f)) = Range(s) \cup {f}
<1>1. /\ Append(s, f) \in Seq(Frames) /\ Len(Append(s, f)) = Len(s) + 1
      /\ \A i \in 1..Len(s) : Append(s, f)[i] = s[i]
      /\ Append(s, f)[Len(s) + 1] = f
      /\ Len(s) \in Nat
  BY AppendProperties
<1>2. /\ Range(s) = {s[i] : i \in 1..Len(s)}
      /\ Range(Append(s, f)) = {Append(s, f)[i] : i \in 1..Len(s) + 1}
  BY <1>1, RangeParts
<1>3. \A i \in 1..Len(s) + 1 : i = Len(s) + 1 \/ i \in 1..Len(s)
  BY <1>1
<1>4. \A i \in 1..Len(s) : i \in 1..Len(s) + 1
  BY <1>1
<1>5. Len(s) + 1 \in 1..Len(s) + 1
  BY <1>1
<1> QED BY <1>1, <1>2, <1>3, <1>4, <1>5

\* In the first life, an id stands for its frame.
LEMMA FirstLife ==
  ASSUME IInv, life = 1, NEW f \in Flow
  PROVE  f[2] \in 1..serverID /\ f = <<1, f[2]>>
<1>1. \A s \in Seq(Frames) : Numbered(s) /\ f \in Range(s) =>
         /\ f \in Frames
         /\ f[1] < life \/ (f[1] = life /\ f[2] <= serverID)
  <2> SUFFICES ASSUME NEW s \in Seq(Frames), Numbered(s), f \in Range(s)
               PROVE  /\ f \in Frames
                      /\ f[1] < life \/ (f[1] = life /\ f[2] <= serverID)
      OBVIOUS
  <2>1. f \in Frames /\ \E i \in 1..Len(s) : f = s[i]
    BY RangeParts
  <2> QED BY <2>1 DEF Numbered
<1>2. /\ received \in Seq(Frames) /\ hand \in Seq(Frames)
      /\ pipe \in Seq(Frames) /\ serverID \in Nat
      /\ Numbered(received) /\ Numbered(hand) /\ Numbered(pipe)
  BY DEF IInv, TypeOK, NumberInv
<1>3. f \in Frames /\ (f[1] < 1 \/ (f[1] = 1 /\ f[2] <= serverID))
  BY <1>1, <1>2 DEF Flow
<1>4. f[1] \in 1..MaxLives /\ f[2] \in 1..MaxID /\ f = <<f[1], f[2]>>
  BY <1>3 DEF Frames
<1> QED BY <1>2, <1>3, <1>4, StreamAssumption

\* What is below an event the application has does not depend on what is
\* still on its way.
LEMMA ReceivedDown ==
  ASSUME IInv, life = 1, DownInv, NEW f \in Range(received),
         NEW id \in 1..f[2]
  PROVE  <<1, id>> \in Range(received) \/ id \in excused
<1>1. /\ received \in Seq(Frames) /\ hand \in Seq(Frames)
      /\ pipe \in Seq(Frames)
      /\ Before(received, hand) /\ Before(received, pipe)
  BY DEF IInv, TypeOK, OrderInv
<1>2. f \in Flow /\ f[2] \in 1..serverID /\ f = <<1, f[2]>>
  BY FirstLife DEF Flow
<1>3. <<1, id>> \in Flow \/ id \in excused
  BY <1>2 DEF DownInv
<1>4. ASSUME NEW s \in Seq(Frames), Before(received, s), <<1, id>> \in Range(s)
      PROVE  FALSE
  <2>1. \E i \in 1..Len(received) : f = received[i]
    BY <1>1, RangeParts
  <2>2. \E j \in 1..Len(s) : <<1, id>> = s[j]
    BY <1>4, RangeParts
  <2>3. Earlier(f, <<1, id>>)
    BY <1>4, <2>1, <2>2 DEF Before
  <2>4. f[1] = 1 /\ f[2] < id
    BY <1>2, <2>3 DEF Earlier
  <2> QED BY <1>2, <2>4
<1> QED BY <1>1, <1>3, <1>4 DEF Flow

\* Where the loop dials, lastID is the newest event the application has.
LEMMA NewestIsLast ==
  ASSUME IInv, life = 1, CompleteInv, pc = "dial"
  PROVE  /\ Newest = lastID
         /\ lastID = 0 \/ <<1, lastID>> \in Range(received)
<1> DEFINE mine == {id \in 1..MaxID : <<life, id>> \in Range(received)}
<1>1. /\ received \in Seq(Frames) /\ hand = <<>> /\ lastID \in 0..MaxID
      /\ Seen(received) /\ LastInv
  <2>1. hand \in Seq(Frames) /\ Len(hand) = 0
    BY DEF IInv, TypeOK
  <2> QED BY <2>1, EmptySeq DEF IInv, TypeOK, NumberInv, CompleteInv
<1>2. lastID = 0 \/ <<1, lastID>> \in Range(received)
  <2>1. Range(hand) = {}
    BY <1>1 DEF Range
  <2> QED BY <1>1, <2>1 DEF LastInv
<1>3. \A id \in mine : id <= lastID
  <2> SUFFICES ASSUME NEW id \in mine PROVE id <= lastID
      OBVIOUS
  <2>1. \E i \in 1..Len(received) : <<1, id>> = received[i]
    BY <1>1, RangeParts
  <2> QED BY <1>1, <2>1 DEF Seen
<1>4. CASE mine = {}
  <2>1. Newest = 0
    BY <1>4 DEF Newest
  <2>2. lastID = 0
    BY <1>1, <1>2, <1>4, StreamAssumption
  <2> QED BY <2>1, <2>2
<1>5. CASE mine # {}
  <2>1. lastID # 0
    <3>1. PICK id \in mine : TRUE
      BY <1>5
    <3>2. id \in 1..MaxID /\ id <= lastID
      BY <1>3, <3>1
    <3> QED BY <3>2, StreamAssumption
  <2>2. lastID \in mine
    BY <1>1, <1>2, <2>1, StreamAssumption
  <2>3. Newest = CHOOSE id \in mine : \A k \in mine : k <= id
    BY <1>5 DEF Newest
  <2> HIDE DEF mine
  <2>4. /\ Newest \in mine /\ \A k \in mine : k <= Newest
    BY <1>3, <2>2, <2>3
  <2>5. Newest \in Nat
    BY <2>4 DEF mine
  <2>6. Newest <= lastID /\ lastID <= Newest
    BY <1>3, <2>2, <2>4
  <2>7. Newest = lastID
    BY <1>1, <2>5, <2>6, StreamAssumption
  <2> QED BY <1>2, <2>7
<1> QED BY <1>2, <1>4, <1>5

\* A resumed connection brings all that follows lastID, or the server has
\* forgotten lastID and owes nothing of what it numbered.
LEMMA CompleteDial ==
  ASSUME IInv, CompleteInv, Dial
  PROVE  CompleteInv'
<1> SUFFICES ASSUME life = 1 PROVE (DownInv /\ AllInv /\ LastInv)'
    BY DEF CompleteInv, Dial
<1>1. /\ TypeOK /\ DownInv /\ LastInv /\ pc = "dial" /\ pc' = "read"
      /\ pipe' = Resumed(lastID)
      /\ excused' = IF Newest \in Kept THEN excused ELSE 1..serverID
      /\ UNCHANGED <<lastID, hand, received, life, serverID>>
  BY DEF CompleteInv, IInv, Dial, Header
<1>2. /\ received \in Seq(Frames) /\ hand \in Seq(Frames) /\ hand = <<>>
      /\ lastID \in 0..MaxID /\ serverID \in 0..MaxID
  <2>1. hand \in Seq(Frames) /\ Len(hand) = 0
    BY <1>1 DEF TypeOK
  <2> QED BY <1>1, <2>1, EmptySeq DEF TypeOK
<1>3. /\ Newest = lastID
      /\ lastID = 0 \/ <<1, lastID>> \in Range(received)
  BY <1>1, NewestIsLast
<1>4. Range(hand) = {} /\ Flow' = Range(received) \cup Range(pipe')
  BY <1>1, <1>2 DEF Flow, Range
<1>5. LastInv'
  BY <1>1, <1>3 DEF LastInv
<1>6. Range(pipe') =
        IF lastID \in Kept THEN {<<1, id>> : id \in lastID + 1 .. serverID}
                           ELSE {}
  <2>1. CASE lastID \in Kept
    <3>1. pipe' = [i \in 1..serverID - lastID |-> <<1, lastID + i>>]
      BY <1>1, <2>1 DEF Resumed
    <3>2. Range(pipe') = {<<1, lastID + i>> : i \in 1..serverID - lastID}
      BY <3>1 DEF Range
    <3>3. \A id \in lastID + 1 .. serverID :
             id - lastID \in 1..serverID - lastID /\ lastID + (id - lastID) = id
      BY <1>2, StreamAssumption
    <3>4. \A i \in 1..serverID - lastID : lastID + i \in lastID + 1 .. serverID
      BY <1>2, StreamAssumption
    <3> QED BY <2>1, <3>2, <3>3, <3>4
  <2>2. CASE lastID \notin Kept
    <3>1. pipe' = <<>>
      BY <1>1, <2>2 DEF Resumed
    <3> QED BY <2>2, <3>1 DEF Range
  <2> QED BY <2>1, <2>2
<1>7. \A id \in 1..serverID : <<1, id>> \in Flow' \/ id \in excused'
  <2>1. CASE lastID \in Kept
    <3>1. lastID \in 1..serverID
      BY <2>1 DEF Kept
    <3> SUFFICES ASSUME NEW id \in 1..serverID
                 PROVE  <<1, id>> \in Flow' \/ id \in excused'
        OBVIOUS
    <3>2. CASE id \in lastID + 1 .. serverID
      BY <1>4, <1>6, <2>1, <3>2
    <3>3. CASE id \in 1..lastID
      <4>1. <<1, lastID>> \in Range(received) /\ <<1, lastID>>[2] = lastID
        BY <1>3, <3>1
      <4>2. <<1, id>> \in Range(received) \/ id \in excused
        BY <1>1, <3>3, <4>1, ReceivedDown
      <4> QED BY <1>1, <1>3, <1>4, <2>1, <4>2
    <3> QED BY <1>2, <3>1, <3>2, <3>3, StreamAssumption
  <2>2. CASE lastID \notin Kept
    BY <1>1, <1>3, <2>2
  <2> QED BY <2>1, <2>2
<1>8. \A f \in Flow' : f[2] \in 1..serverID
  <2>1. \A f \in Range(received) : f[2] \in 1..serverID
    BY FirstLife DEF Flow
  <2>2. \A f \in Range(pipe') : f[2] \in 1..serverID
    BY <1>2, <1>6, StreamAssumption
  <2> QED BY <1>4, <2>1, <2>2
<1>9. \A f \in Flow' : \A id \in 1..f[2] : id \in 1..serverID
  BY <1>2, <1>8, StreamAssumption
<1>10. DownInv' /\ AllInv'
  BY <1>1, <1>7, <1>9 DEF DownInv, AllInv
<1> QED BY <1>5, <1>10

\* What is given up when runOnce returns comes after what was received.
LEMMA CompleteReturn ==
  ASSUME IInv, CompleteInv, DialFails \/ ReadFails \/ DeliverStops
  PROVE  CompleteInv'
<1>1. /\ pc' = "return" /\ hand' = <<>> /\ pipe' = <<>> /\ phase' = "none"
      /\ UNCHANGED <<lastID, received, ctxDone, done, life, serverID, excused>>
  BY DEF DialFails, ReadFails, DeliverStops, Return, appVars, serverVars
<1> SUFFICES ASSUME life = 1 PROVE (DownInv /\ AllInv /\ LastInv)'
    BY <1>1 DEF CompleteInv
<1>2. TypeOK /\ DownInv /\ LastInv
  BY DEF IInv, CompleteInv
<1>3. Flow' = Range(received)
  BY <1>1 DEF Flow, Range
<1>4. DownInv' /\ AllInv'
  BY <1>1, <1>2, <1>3, ReceivedDown DEF DownInv, AllInv
<1>5. LastInv'
  <2>1. CASE pc = "deliver"
    <3>1. ctxDone \/ done
      BY <2>1 DEF DialFails, ReadFails, DeliverStops
    <3> QED BY <1>1, <3>1 DEF LastInv
  <2>2. CASE pc # "deliver"
    <3>1. pc \in {"dial", "read"}
      BY <2>2 DEF DialFails, ReadFails, DeliverStops
    <3>2. hand = <<>>
      BY <1>2, <2>2, EmptySeq DEF TypeOK
    <3>3. Range(hand) = {}
      BY <3>2 DEF Range
    <3> QED BY <1>1, <1>2, <3>1, <3>3 DEF LastInv
  <2> QED BY <2>1, <2>2
<1> QED BY <1>4, <1>5

\* An event passes from the connection to the loop, and to the application.
LEMMA CompletePass ==
  ASSUME IInv, CompleteInv, Read \/ Deliver
  PROVE  CompleteInv'
<1>1. UNCHANGED <<phase, life, serverID, excused>>
  BY DEF Read, Deliver, connVars, serverVars
<1> SUFFICES ASSUME life = 1 PROVE (DownInv /\ AllInv /\ LastInv)'
    BY <1>1 DEF CompleteInv
<1>2. /\ DownInv /\ AllInv /\ LastInv
      /\ received \in Seq(Frames) /\ hand \in Seq(Frames)
      /\ pipe \in Seq(Frames) /\ Len(hand) = IF pc = "deliver" THEN 1 ELSE 0
  BY DEF IInv, TypeOK, CompleteInv
<1>3. Flow' = Flow /\ LastInv'
  <2>1. CASE Read
    <3>1. /\ pc = "read" /\ pc' = "deliver" /\ pipe # <<>>
          /\ hand' = <<Head(pipe)>> /\ pipe' = Tail(pipe)
          /\ lastID' = lastID \/ lastID' = Head(pipe)[2]
          /\ received' = received
      BY <2>1 DEF Read
    <3>2. hand = <<>>
      BY <1>2, <3>1, EmptySeq
    <3>3. Range(pipe) = Range(hand') \cup Range(pipe') /\ Range(hand) = {}
      <4>1. Range(hand) = {}
        BY <3>2 DEF Range
      <4> QED BY <1>2, <3>1, <4>1, RangeTail
    <3>4. Flow' = Flow
      BY <3>1, <3>3 DEF Flow
    <3>5. Head(pipe) \in Flow /\ Head(pipe) \in Range(hand')
      <4>1. Head(pipe) \in Range(hand')
        BY <3>1 DEF Range
      <4> QED BY <3>3, <4>1 DEF Flow
    <3>6. Head(pipe) = <<1, Head(pipe)[2]>>
      BY <3>5, FirstLife
    <3>7. LastInv'
      BY <1>2, <3>1, <3>3, <3>5, <3>6 DEF LastInv
    <3> QED BY <3>4, <3>7
  <2>2. CASE Deliver
    <3>1. /\ pc = "deliver" /\ pc' = "read" /\ received' = received \o hand
          /\ hand' = <<>> /\ UNCHANGED <<lastID, pipe>>
      BY <2>2 DEF Deliver, connVars
    <3>2. Range(received') = Range(received) \cup Range(hand)
      BY <1>2, <3>1, RangeConcat
    <3>3. Range(hand') = {}
      BY <3>1 DEF Range
    <3> QED BY <1>2, <3>1, <3>2, <3>3 DEF Flow, LastInv
  <2> QED BY <2>1, <2>2
<1>4. DownInv' /\ AllInv'
  BY <1>1, <1>2, <1>3 DEF DownInv, AllInv
<1> QED BY <1>3, <1>4

\* While a handler runs, an event it does not write is not owed.
LEMMA CompleteBroadcast ==
  ASSUME IInv, CompleteInv, Broadcast
  PROVE  CompleteInv'
<1>1. /\ UNCHANGED <<pc, lastID, hand, received, phase, life, ctxDone, done>>
      /\ serverID' = serverID + 1 /\ serverID < MaxID
  BY DEF Broadcast, streamVars, appVars
<1> SUFFICES ASSUME life = 1 PROVE (DownInv /\ AllInv /\ LastInv)'
    BY <1>1 DEF CompleteInv
<1>2. /\ DownInv /\ AllInv /\ LastInv
      /\ pipe \in Seq(Frames) /\ serverID \in Nat
  BY StreamAssumption DEF IInv, TypeOK, CompleteInv
<1>3. LastInv'
  BY <1>1, <1>2 DEF LastInv
<1>4. \A id \in 1..serverID + 1 : id \in 1..serverID \/ id = serverID + 1
  BY <1>2
<1>5. CASE phase = "none"
  <2>1. UNCHANGED <<pipe, excused>>
    BY <1>5 DEF Broadcast
  <2>2. Flow' = Flow
    BY <1>1, <2>1 DEF Flow
  <2>3. DownInv' /\ AllInv'
    BY <1>1, <1>2, <1>5, <2>1, <2>2 DEF DownInv, AllInv
  <2> QED BY <1>3, <2>3
<1>6. CASE phase # "none" /\ UNCHANGED pipe
  <2>1. excused' = excused \cup {serverID + 1} /\ Flow' = Flow
    <3>1. pipe # Append(pipe, <<life, serverID + 1>>)
      <4>1. <<life, serverID + 1>> \in Frames
        BY <1>1, NextNumber DEF IInv, NumberInv, TypeOK
      <4>2. Len(Append(pipe, <<life, serverID + 1>>)) = Len(pipe) + 1
        BY <1>2, <4>1, AppendProperties
      <4> QED BY <1>2, <4>2
    <3> QED BY <1>1, <1>6, <3>1 DEF Broadcast, Flow
  <2>2. DownInv' /\ AllInv'
    BY <1>1, <1>2, <1>4, <1>6, <2>1 DEF DownInv, AllInv
  <2> QED BY <1>3, <2>2
<1>7. CASE phase # "none" /\ pipe' = Append(pipe, <<life, serverID + 1>>)
                          /\ UNCHANGED excused
  <2> DEFINE frame == <<1, serverID + 1>>
  <2>1. frame \in Frames
    BY <1>1, NextNumber DEF IInv, NumberInv, TypeOK
  <2>2. Flow' = Flow \cup {frame}
    <3>1. Range(pipe') = Range(pipe) \cup {frame}
      BY <1>2, <1>7, <2>1, RangeAppend
    <3> QED BY <1>1, <3>1 DEF Flow
  <2>3. AllInv'
    BY <1>1, <1>2, <1>4, <1>7, <2>2 DEF AllInv
  <2>4. DownInv'
    <3> SUFFICES ASSUME NEW f \in Flow \cup {frame}, NEW id \in 1..f[2]
                 PROVE  <<1, id>> \in Flow \cup {frame} \/ id \in excused
        BY <1>7, <2>2 DEF DownInv
    <3>1. CASE f \in Flow
      BY <1>2, <3>1 DEF DownInv
    <3>2. CASE f = frame
      <4>1. id \in 1..serverID + 1
        BY <3>2
      <4> QED BY <1>2, <1>4, <1>7, <4>1 DEF AllInv
    <3> QED BY <3>1, <3>2
  <2> QED BY <1>3, <2>3, <2>4
<1> QED BY <1>5, <1>6, <1>7 DEF Broadcast

\* The other steps move no frame; the loop goes on only if it may.
LEMMA CompleteOther ==
  ASSUME IInv, CompleteInv,
         \/ AfterRun \/ Backoff \/ TakeEvent \/ TakeError \/ Cancel \/ CloseDone
         \/ Register \/ Cut \/ ReachableTurns \/ Restart \/ UNCHANGED vars
  PROVE  CompleteInv'
<1> USE DEF AfterRun, Backoff, TakeEvent, TakeError, Cancel, CloseDone,
            Register, Cut, ReachableTurns, vars, streamVars, appVars, connVars,
            serverVars
<1>1. CASE Restart
  <2>1. life' # 1
    BY <1>1, StreamAssumption DEF Restart, IInv, TypeOK
  <2> QED BY <2>1 DEF CompleteInv
<1>2. CASE ~Restart
  <2>1. UNCHANGED <<received, hand, pipe, lastID, life, serverID, excused>>
    BY <1>2
  <2> SUFFICES ASSUME life = 1 PROVE (DownInv /\ AllInv /\ LastInv)'
      BY <2>1 DEF CompleteInv
  <2>2. DownInv /\ AllInv /\ LastInv
    BY DEF CompleteInv
  <2>3. Flow' = Flow
    BY <2>1 DEF Flow
  <2>4. phase' # "none" => phase # "none"
    BY <1>2
  <2>5. DownInv' /\ AllInv'
    BY <2>1, <2>2, <2>3, <2>4 DEF DownInv, AllInv
  <2>6. LastInv'
    <3>1. \/ UNCHANGED <<pc, ctxDone, done>>
          \/ UNCHANGED pc /\ (ctxDone' \/ done')
                          /\ (ctxDone => ctxDone') /\ (done => done')
          \/ pc = "return" /\ ~ctxDone /\ ~done /\ pc' \in {"backoff", "ended"}
          \/ pc = "backoff" /\ pc' \in {"dial", "ended"}
          \/ pc' = "ended"
      BY <1>2
    <3> QED BY <2>1, <2>2, <3>1 DEF LastInv
  <2> QED BY <2>5, <2>6
<1> QED BY <1>1, <1>2

LEMMA CompleteNext ==
  ASSUME IInv, CompleteInv, [Next]_vars
  PROVE  CompleteInv'
BY CompleteDial, CompleteReturn, CompletePass, CompleteBroadcast,
   CompleteOther DEF Next, StreamMoves

\* In the first life of the server a connected client has, or is about to get,
\* every event it is owed, however often it was cut off and resumed.
THEOREM FirstLifeOfAll == Spec => []FirstLifeComplete
<1>1. Init => CompleteInv
  <2>1. Init => Range(received) = {} /\ Range(hand) = {} /\ Range(pipe) = {}
    BY DEF Init, Range
  <2> QED BY <2>1 DEF Init, CompleteInv, DownInv, AllInv, LastInv, Flow
<1>2. IInv /\ CompleteInv => FirstLifeComplete
  <2> SUFFICES ASSUME IInv, CompleteInv, life = 1, phase = "registered",
                      NEW id \in 1..serverID
               PROVE  \/ <<life, id>> \in Range(received \o hand \o pipe)
                      \/ id \in excused
      BY DEF FirstLifeComplete, Complete
  <2>1. /\ received \in Seq(Frames) /\ hand \in Seq(Frames)
        /\ pipe \in Seq(Frames)
    BY DEF IInv, TypeOK
  <2>2. /\ received \o hand \in Seq(Frames)
        /\ Range(received \o hand) = Range(received) \cup Range(hand)
    BY <2>1, RangeConcat
  <2>3. Range(received \o hand \o pipe) = Flow
    BY <2>1, <2>2, RangeConcat DEF Flow
  <2> QED BY <2>3 DEF CompleteInv, AllInv
<1>3. IInv /\ CompleteInv /\ [Next]_vars => CompleteInv'
  BY CompleteNext
<1> QED BY <1>1, <1>2, <1>3, Invariance, PTL DEF Spec

=============================================================================
