--------------------------- MODULE PublishProofs ----------------------------
(***************************************************************************)
(* Theorems about Publish, for any sends, ids, retries and capacity of the *)
(* store: type correctness, AckImpliesPublished and StoreKeepsRecent.      *)
(*                                                                         *)
(* The argument: an id enters the store only through a handler whose Exec  *)
(* succeeded, and what was committed stays committed; so whatever is       *)
(* acknowledged, by a commit or as a duplicate, was published.  The store  *)
(* holds what was added last, because Purged evicts the oldest first.      *)
(***************************************************************************)
EXTENDS Publish, FiniteSetTheorems, TLAPS

\* What an acknowledgement of the send s promises.
Kept(s) == IF id[s] = NoId THEN notified[s] > 0 ELSE Published(id[s])

\* Before its call a send has left no trace.
Fresh(s) ==
  client[s] = "idle" =>
    /\ attempt[s] = 0
    /\ notified[s] = 0
    /\ \A n \in 0..SendRetry : request[<<s, n>>] = "none"

IInv ==
  /\ TypeOK
  /\ \A i \in AllIds : ids[i] <= now
  /\ \A s \in Sends : Fresh(s)
  /\ \A s \in Sends : client[s] = "backoff" => attempt[s] < SendRetry
  /\ \A i \in AllIds : ids[i] # Never => Published(i)
  /\ \A q \in Requests : request[q] = "add" =>
       notified[q[1]] > 0 /\ IdOf(q) # NoId
  /\ \A q \in Requests : request[q] = "ok" => Kept(q[1])
  /\ \A s \in Sends : client[s] = "ok" => Kept(s)

LEMMA InvInit == Init => IInv
BY PublishAssumption DEF Init, IInv, TypeOK, Fresh, ClientStates,
   RequestStates, Requests, Never

\* Purging forgets ids and changes nothing else.
LEMMA PurgeForgets ==
  ASSUME NEW store \in [AllIds -> 0..MaxTime \cup {Never}],
         NEW left \in Purged(store)
  PROVE  /\ left \in [AllIds -> 0..MaxTime \cup {Never}]
         /\ \A i \in AllIds : left[i] = Never \/ left[i] = store[i]
<1>1. ASSUME NEW f \in [AllIds -> 0..MaxTime \cup {Never}], NEW gone
      PROVE  /\ Without(f, gone) \in [AllIds -> 0..MaxTime \cup {Never}]
             /\ \A i \in AllIds : \/ Without(f, gone)[i] = Never
                                  \/ Without(f, gone)[i] = f[i]
  BY DEF Without
<1> DEFINE fresh == Without(store, {i \in Known(store) : store[i] < now - IdemTTL})
<1>2. /\ fresh \in [AllIds -> 0..MaxTime \cup {Never}]
      /\ \A i \in AllIds : fresh[i] = Never \/ fresh[i] = store[i]
  BY <1>1
<1>3. left = fresh \/ \E i \in AllIds : left = Without(fresh, {i})
  BY DEF Purged, Known
<1> HIDE DEF fresh
<1>4. CASE left = fresh
  BY <1>2, <1>4
<1>5. CASE \E i \in AllIds : left = Without(fresh, {i})
  BY <1>1, <1>2, <1>5
<1> QED BY <1>3, <1>4, <1>5

\* What was kept stays kept while no call begins and no commit is undone.
LEMMA KeptStays ==
  ASSUME id' = id, NEW s \in Sends, Kept(s),
         \A t \in Sends : notified[t] > 0 => notified'[t] > 0
  PROVE  Kept(s)'
BY DEF Kept, Published

LEMMA PublishedStays ==
  ASSUME id' = id, NEW i, Published(i),
         \A t \in Sends : notified[t] > 0 => notified'[t] > 0
  PROVE  Published(i)'
BY DEF Published

\* The call of SendWithID.
LEMMA InvSend ==
  ASSUME IInv, NEW s \in Sends, NEW i \in Ids \cup {NoId}, SendWithID(s, i)
  PROVE  IInv'
<1>1. TypeOK /\ Fresh(s) /\ client[s] = "idle"
  BY DEF IInv, SendWithID
<1>2. Current(s) = <<s, 0>> /\ <<s, 0>> \in Requests
  BY <1>1, PublishAssumption DEF Fresh, Current, Requests
<1>3. /\ id'[s] \in AllIds \cup {NoId}
      /\ \A t \in Sends : t # s => id'[t] = id[t]
      /\ id' \in [Sends -> AllIds \cup {NoId}]
  BY <1>1 DEF SendWithID, TypeOK, AllIds
<1>4. /\ client' = [client EXCEPT ![s] = "waiting"]
      /\ request' = [request EXCEPT ![<<s, 0>>] = "flying"]
      /\ UNCHANGED <<attempt, ids, notified, now, crashes, added>>
  BY <1>2 DEF SendWithID
<1>5. TypeOK'
  BY <1>1, <1>2, <1>3, <1>4 DEF TypeOK, ClientStates, RequestStates
<1>6. notified[s] = 0 /\ \A n \in 0..SendRetry : request[<<s, n>>] = "none"
  BY <1>1 DEF Fresh
<1>7. ASSUME NEW j, Published(j) PROVE Published(j)'
  BY <1>3, <1>4, <1>6, <1>7 DEF Published
<1>8. ASSUME NEW t \in Sends, t # s, Kept(t) PROVE Kept(t)'
  BY <1>3, <1>4, <1>7, <1>8 DEF Kept
<1>9. \A t \in Sends : Fresh(t)'
  BY <1>1, <1>4 DEF IInv, Fresh, TypeOK, Requests
<1>10. \A t \in Sends : client'[t] = "backoff" => attempt'[t] < SendRetry
  BY <1>1, <1>4 DEF IInv, TypeOK
<1>11. ASSUME NEW q \in Requests, request'[q] \in {"add", "ok"}
       PROVE  q[1] \in Sends /\ q[1] # s /\ request[q] = request'[q]
  <2>1. PICK t \in Sends, n \in 0..SendRetry : q = <<t, n>>
    BY DEF Requests
  <2>2. request'[q] = request[q]
    BY <1>1, <1>2, <1>4, <1>11 DEF TypeOK
  <2> QED BY <1>6, <1>11, <2>1, <2>2
<1>12. \A q \in Requests : request'[q] = "add" =>
         notified'[q[1]] > 0 /\ IdOf(q)' # NoId
  BY <1>3, <1>4, <1>11 DEF IInv, IdOf
<1>13. \A q \in Requests : request'[q] = "ok" => Kept(q[1])'
  BY <1>8, <1>11 DEF IInv
<1>14. \A t \in Sends : client'[t] = "ok" => Kept(t)'
  BY <1>1, <1>4, <1>8 DEF IInv, TypeOK
<1> QED
  BY <1>4, <1>5, <1>7, <1>9, <1>10, <1>12, <1>13, <1>14 DEF IInv

\* The other steps of the client: no request of theirs carries a new id, none
\* answers, and a call returns nil only on the answer 200.
LEMMA InvClient ==
  ASSUME IInv, NEW s \in Sends, ClientMoves(s) \/ GiveUp(s)
  PROVE  IInv'
<1> USE PublishAssumption
<1>1. TypeOK /\ attempt[s] \in 0..SendRetry
  BY DEF IInv, TypeOK
<1>2. UNCHANGED <<id, ids, notified, now, crashes, added>>
  BY DEF ClientMoves, Response, NoResponse, Retry, GiveUp
<1>3. \A t \in Sends : Kept(t) => Kept(t)'
  BY <1>2 DEF Kept, Published
<1>4. \A i \in AllIds : Published(i) => Published(i)'
  BY <1>2 DEF Published
<1>5. CASE Response(s) \/ NoResponse(s) \/ GiveUp(s)
  <2>1. UNCHANGED <<attempt, request>>
    BY <1>5 DEF Response, NoResponse, GiveUp
  <2>2. /\ client[s] # "idle"
        /\ \E new \in {"ok", "failed", "backoff"} :
             /\ client' = [client EXCEPT ![s] = new]
             /\ new = "backoff" => attempt[s] < SendRetry
             /\ new = "ok" => request[Current(s)] = "ok"
    BY <1>1, <1>5 DEF Response, NoResponse, GiveUp, AfterError
  <2>3. PICK new \in {"ok", "failed", "backoff"} :
          /\ client' = [client EXCEPT ![s] = new]
          /\ new = "backoff" => attempt[s] < SendRetry
          /\ new = "ok" => request[Current(s)] = "ok"
    BY <2>2
  <2>4. TypeOK'
    BY <1>1, <1>2, <2>1, <2>3 DEF TypeOK, ClientStates
  <2>5. \A t \in Sends : Fresh(t)'
    BY <1>1, <1>2, <2>1, <2>2, <2>3 DEF IInv, Fresh, TypeOK
  <2>6. \A t \in Sends : client'[t] = "backoff" => attempt'[t] < SendRetry
    BY <1>1, <2>1, <2>3 DEF IInv, TypeOK
  <2>7. new = "ok" => Kept(s)
    <3>1. Current(s) \in Requests /\ Current(s)[1] = s
      BY <1>1 DEF Current, Requests
    <3> QED BY <2>3, <3>1 DEF IInv
  <2>8. \A t \in Sends : client'[t] = "ok" => Kept(t)'
    BY <1>1, <1>3, <2>3, <2>7 DEF IInv, TypeOK
  <2> QED
    BY <1>2, <1>3, <1>4, <2>1, <2>4, <2>5, <2>6, <2>8 DEF IInv, IdOf, Requests
<1>6. CASE Retry(s)
  <2>1. /\ client[s] = "backoff" /\ attempt[s] < SendRetry
        /\ attempt[s] + 1 \in 0..SendRetry
    BY <1>1, <1>6 DEF IInv, Retry
  <2>2. /\ attempt' = [attempt EXCEPT ![s] = attempt[s] + 1]
        /\ client' = [client EXCEPT ![s] = "waiting"]
        /\ request' = [request EXCEPT ![<<s, attempt[s] + 1>>] = "flying"]
        /\ <<s, attempt[s] + 1>> \in Requests
    BY <1>6, <2>1 DEF Retry, Requests
  <2>3. TypeOK'
    BY <1>1, <1>2, <2>1, <2>2 DEF TypeOK, ClientStates, RequestStates
  <2>4. \A t \in Sends : Fresh(t)'
    BY <1>1, <1>2, <2>2 DEF IInv, Fresh, TypeOK, Requests
  <2>5. \A t \in Sends : client'[t] = "backoff" => attempt'[t] < SendRetry
    BY <1>1, <2>2 DEF IInv, TypeOK
  <2>6. \A q \in Requests : request'[q] \in {"add", "ok"}
                              => request[q] = request'[q]
    BY <1>1, <2>2 DEF TypeOK
  <2>7. \A t \in Sends : client'[t] = "ok" => Kept(t)'
    BY <1>1, <1>3, <2>2 DEF IInv, TypeOK
  <2>8. \A q \in Requests : request'[q] = "ok" => Kept(q[1])'
    BY <1>3, <2>6 DEF IInv, Requests
  <2>9. \A q \in Requests : request'[q] = "add" =>
          notified'[q[1]] > 0 /\ IdOf(q)' # NoId
    BY <1>2, <2>6 DEF IInv, IdOf
  <2> QED
    BY <1>2, <1>4, <2>3, <2>4, <2>5, <2>7, <2>8, <2>9 DEF IInv
<1> QED BY <1>5, <1>6 DEF ClientMoves

\* The steps of the handler of a request.
LEMMA InvRequest ==
  ASSUME IInv, NEW q \in Requests,
         Arrive(q) \/ ExecSucceeds(q) \/ ExecFails(q) \/ Add(q) \/ Lose(q)
  PROVE  IInv'
<1> USE PublishAssumption
<1>1. TypeOK
  BY DEF IInv
<1>2. PICK s \in Sends, n \in 0..SendRetry : q = <<s, n>>
  BY DEF Requests
<1>3. /\ UNCHANGED <<clientVars, now, crashes>>
      /\ UNCHANGED <<client, id, attempt>>
  BY DEF Arrive, ExecSucceeds, ExecFails, Add, Lose, clientVars
<1>4. /\ request[q] # "none"
      /\ client[s] # "idle"
  <2>1. request[q] # "none"
    BY DEF Arrive, ExecSucceeds, ExecFails, Add, Lose
  <2> QED BY <1>2, <2>1 DEF IInv, Fresh
<1>5. /\ notified' \in [Sends -> Nat]
      /\ \A t \in Sends : notified[t] > 0 => notified'[t] > 0
      /\ \A t \in Sends : t # s => notified'[t] = notified[t]
  BY <1>1, <1>2 DEF Arrive, ExecSucceeds, ExecFails, Add, Lose, Commit, TypeOK
<1>6. \A t \in Sends : Kept(t) => Kept(t)'
  BY <1>3, <1>5, KeptStays
<1>7. \A i \in AllIds : Published(i) => Published(i)'
  BY <1>3, <1>5, PublishedStays
<1>8. PICK new \in {"exec", "add", "ok", "error", "gone"} :
        request' = [request EXCEPT ![q] = new]
  BY DEF Arrive, ExecSucceeds, ExecFails, Add, Lose
<1>9. request' \in [Requests -> RequestStates]
  BY <1>1, <1>8 DEF TypeOK, RequestStates
<1>10. IdOf(q) \in AllIds \cup {NoId} /\ now \in 0..MaxTime
  BY <1>1, <1>2 DEF TypeOK, IdOf
<1>11. /\ ids' \in [AllIds -> 0..MaxTime \cup {Never}]
       /\ \A i \in AllIds : \/ ids'[i] = Never \/ ids'[i] = ids[i]
                            \/ /\ ids'[i] = now /\ i = IdOf(q)
                               /\ request[q] = "add"
  <2>1. CASE Add(q)
    <3> DEFINE store == [ids EXCEPT ![IdOf(q)] = now]
    <3>1. request[q] = "add" /\ IdOf(q) \in AllIds
      BY <1>10, <2>1 DEF Add, IInv
    <3>2. /\ store \in [AllIds -> 0..MaxTime \cup {Never}]
          /\ \A i \in AllIds : store[i] = IF i = IdOf(q) THEN now ELSE ids[i]
      BY <1>1, <1>10, <3>1 DEF TypeOK
    <3>3. ids' = store \/ ids' \in Purged(store)
      BY <2>1 DEF Add
    <3> HIDE DEF store
    <3>4. /\ ids' \in [AllIds -> 0..MaxTime \cup {Never}]
          /\ \A i \in AllIds : ids'[i] = Never \/ ids'[i] = store[i]
      BY <3>2, <3>3, PurgeForgets
    <3> QED BY <3>1, <3>2, <3>4
  <2>2. CASE ~Add(q)
    <3>1. ids' = ids
      BY <2>2 DEF Arrive, ExecSucceeds, ExecFails, Lose
    <3> QED BY <1>1, <3>1 DEF TypeOK
  <2> QED BY <2>1, <2>2
<1>12. added' \in [AllIds -> 0..MaxTime \cup {Never}]
  BY <1>1, <1>10 DEF Arrive, ExecSucceeds, ExecFails, Add, Lose, TypeOK, IInv
<1>14. TypeOK'
  BY <1>1, <1>3, <1>5, <1>9, <1>11, <1>12 DEF TypeOK
<1>15. \A i \in AllIds : ids'[i] <= now'
  BY <1>3, <1>10, <1>11 DEF IInv, Never
<1>16. \A t \in Sends : Fresh(t)'
  BY <1>1, <1>2, <1>3, <1>4, <1>5, <1>8 DEF IInv, Fresh, TypeOK, Requests
<1>17. request[q] = "add" => Kept(s) /\ Published(IdOf(q))
  BY <1>2 DEF IInv, IdOf, Kept, Published
<1>18. \A i \in AllIds : ids'[i] # Never => Published(i)'
  BY <1>7, <1>11, <1>17 DEF IInv
<1>19. new = "add" => notified'[s] > 0 /\ id[s] # NoId
  <2>1. CASE ExecSucceeds(q)
    BY <1>1, <1>2, <1>8, <2>1 DEF ExecSucceeds, Commit, IdOf, TypeOK
  <2>2. CASE ~ExecSucceeds(q)
    BY <1>1, <1>8, <2>2 DEF Arrive, ExecFails, Add, Lose, TypeOK
  <2> QED BY <2>1, <2>2
<1>20. new = "ok" => Kept(s)'
  <2> SUFFICES ASSUME new = "ok" PROVE Kept(s)'
      OBVIOUS
  <2>1. request'[q] = "ok"
    BY <1>1, <1>8 DEF TypeOK
  <2>2. CASE Arrive(q)
    <3>1. IdOf(q) # NoId /\ ids[IdOf(q)] # Never
      BY <1>1, <2>1, <2>2 DEF Arrive, TypeOK
    <3>2. Kept(s)
      BY <1>2, <1>10, <3>1 DEF IInv, Kept, IdOf
    <3> QED BY <1>6, <3>2
  <2>3. CASE ExecSucceeds(q)
    <3>1. id[s] = NoId /\ notified'[s] > 0
      BY <1>1, <1>2, <2>1, <2>3 DEF ExecSucceeds, Commit, IdOf, TypeOK
    <3> QED BY <1>3, <3>1 DEF Kept
  <2>4. CASE Add(q)
    BY <1>6, <1>17, <2>4 DEF Add
  <2>5. CASE ExecFails(q) \/ Lose(q)
    BY <1>1, <2>1, <2>5 DEF ExecFails, Lose, TypeOK
  <2> QED BY <2>2, <2>3, <2>4, <2>5
<1>21. \A r \in Requests : r # q => request'[r] = request[r]
  BY <1>1, <1>8 DEF TypeOK
<1>22. request'[q] = new
  BY <1>1, <1>8 DEF TypeOK
<1>23. ASSUME NEW r \in Requests, request'[r] = "add"
       PROVE  notified'[r[1]] > 0 /\ IdOf(r)' # NoId
  <2>1. CASE r = q
    BY <1>2, <1>3, <1>19, <1>22, <1>23, <2>1 DEF IdOf
  <2>2. CASE r # q
    BY <1>3, <1>5, <1>21, <1>23, <2>2 DEF IInv, IdOf, Requests
  <2> QED BY <2>1, <2>2
<1>24. ASSUME NEW r \in Requests, request'[r] = "ok"
       PROVE  Kept(r[1])'
  <2>1. CASE r = q
    BY <1>2, <1>20, <1>22, <1>24, <2>1
  <2>2. CASE r # q
    BY <1>6, <1>21, <1>24, <2>2 DEF IInv, Requests
  <2> QED BY <2>1, <2>2
<1>25. /\ \A t \in Sends : client'[t] = "ok" => Kept(t)'
       /\ \A t \in Sends : client'[t] = "backoff" => attempt'[t] < SendRetry
  BY <1>3, <1>6 DEF IInv
<1> QED
  BY <1>14, <1>15, <1>16, <1>18, <1>23, <1>24, <1>25 DEF IInv

LEMMA InvNext == IInv /\ [Next]_vars => IInv'
<1> SUFFICES ASSUME IInv, [Next]_vars PROVE IInv'
    OBVIOUS
<1> USE PublishAssumption
<1>1. CASE Crash
  <2>1. UNCHANGED <<client, id, attempt, notified, now>>
    BY <1>1 DEF Crash, clientVars
  <2>2. /\ request' = [q \in Requests |->
                         IF request[q] = "none" THEN "none" ELSE "gone"]
        /\ ids' = [i \in AllIds |-> Never] /\ added' = [i \in AllIds |-> Never]
        /\ crashes' \in 0..MaxCrashes
    BY <1>1 DEF Crash, IInv, TypeOK
  <2>3. TypeOK'
    BY <2>1, <2>2 DEF IInv, TypeOK, RequestStates
  <2>4. \A s \in Sends : Fresh(s)'
    BY <2>1, <2>2 DEF IInv, Fresh, Requests
  <2>5. \A s \in Sends : Kept(s) => Kept(s)'
    BY <2>1 DEF Kept, Published
  <2>6. \A i \in AllIds : ids'[i] <= now'
    BY <2>1, <2>2 DEF IInv, TypeOK, Never
  <2> QED BY <2>1, <2>2, <2>3, <2>4, <2>5, <2>6 DEF IInv
<1>2. CASE Tick
  <2>1. UNCHANGED <<client, id, attempt, request, ids, notified, crashes,
                    added>>
    BY <1>2 DEF Tick, clientVars
  <2>2. now' = now + 1 /\ now' \in 0..MaxTime /\ now \in 0..MaxTime
    BY <1>2 DEF Tick, IInv, TypeOK
  <2>3. TypeOK'
    BY <2>1, <2>2 DEF IInv, TypeOK
  <2>4. \A i \in AllIds : ids'[i] <= now'
    <3>1. \A i \in AllIds : ids[i] \in Int /\ ids[i] <= now
      BY DEF IInv, TypeOK, Never
    <3> QED BY <2>1, <2>2, <3>1
  <2>5. /\ \A s \in Sends : Fresh(s)' /\ (Kept(s) => Kept(s)')
        /\ \A i \in AllIds : Published(i) => Published(i)'
    BY <2>1 DEF IInv, Fresh, Kept, Published
  <2> QED BY <2>1, <2>3, <2>4, <2>5 DEF IInv, IdOf, Requests
<1>3. CASE UNCHANGED vars
  <2>1. UNCHANGED <<client, id, attempt, request, ids, notified, now, crashes,
                    added>>
    BY <1>3 DEF vars, clientVars
  <2>2. TypeOK'
    BY <2>1 DEF IInv, TypeOK
  <2>3. /\ \A s \in Sends : Fresh(s)' /\ (Kept(s) => Kept(s)')
        /\ \A i \in AllIds : Published(i) => Published(i)'
    BY <2>1 DEF IInv, Fresh, Kept, Published
  <2> QED BY <2>1, <2>2, <2>3 DEF IInv, IdOf, Requests
<1> QED BY <1>1, <1>2, <1>3, InvSend, InvClient, InvRequest DEF Next

THEOREM Invariance == Spec => []IInv
BY InvInit, InvNext, PTL DEF Spec

\* Type correctness, for any constants.
THEOREM TypeCorrect == Spec => []TypeOK
<1>1. IInv => TypeOK
  BY DEF IInv
<1> QED BY <1>1, Invariance, PTL

\* A SendWithID that returned nil was published, itself or under its id,
\* whatever timeouts, retries, ambiguous failures of Exec, evictions and
\* restarts came in between.
THEOREM AcksAreTrue == Spec => []AckImpliesPublished
<1>1. IInv => AckImpliesPublished
  BY DEF IInv, AckImpliesPublished, Kept
<1> QED BY <1>1, Invariance, PTL

-----------------------------------------------------------------------------
(* The store.  What it holds is what was added last, and what was evicted  *)
(* for want of room had IdemMax others added as late as it was.            *)

Times == 0..MaxTime \cup {Never}

\* The ids added as late as i.
AsLate(i) == {k \in Known(added) : added[k] >= added[i]}

StoreInv ==
  /\ IsFiniteSet(Known(ids)) /\ IsFiniteSet(Known(added))
  /\ Cardinality(Known(ids)) <= IdemMax
  /\ \A i \in AllIds : added[i] <= now
  /\ \A i \in Known(ids) : ids[i] = added[i]
  /\ \A i \in Known(added) :
       now - added[i] <= IdemTTL /\ Cardinality(AsLate(i)) <= IdemMax
       => ids[i] = added[i]

\* A step that moves the clock only, or nothing the store knows.
LEMMA StoreStill ==
  ASSUME TypeOK, StoreInv, UNCHANGED <<ids, added>>, now' \in {now, now + 1}
  PROVE  StoreInv'
<1>1. /\ Known(ids)' = Known(ids) /\ Known(added)' = Known(added)
      /\ \A i \in AllIds : AsLate(i)' = AsLate(i)
  BY DEF Known, AsLate
<1>2. \A i \in Known(added) : i \in AllIds
  BY DEF Known
<1>3. now \in Int /\ \A i \in AllIds : added[i] \in Int
  BY DEF TypeOK, Never
<1>4. IdemTTL \in Int
  BY PublishAssumption
<1>5. \A i \in AllIds : added'[i] <= now'
  BY <1>3 DEF StoreInv
<1>6. ASSUME NEW i \in Known(added),
             now' - added[i] <= IdemTTL, Cardinality(AsLate(i)) <= IdemMax
      PROVE  ids[i] = added[i]
  <2>1. now - added[i] <= IdemTTL
    BY <1>2, <1>3, <1>4, <1>6
  <2> QED BY <1>6, <2>1 DEF StoreInv
<1>7. \A i \in Known(added)' :
        now' - added'[i] <= IdemTTL /\ Cardinality(AsLate(i)') <= IdemMax
        => ids'[i] = added'[i]
  BY <1>1, <1>2, <1>6
<1> QED BY <1>1, <1>5, <1>7 DEF StoreInv

\* The store is left with no more than it may hold, and of what is recent it
\* loses only an id that more than IdemMax are as late as.
Leaves(store, left) ==
  /\ Known(left) \subseteq Known(store)
  /\ \A i \in Known(left) : left[i] = store[i]
  /\ Cardinality(Known(left)) <= IdemMax
  /\ \A i \in Known(store) :
       now - store[i] <= IdemTTL =>
         \/ left[i] = store[i]
         \/ Cardinality({k \in Known(store) : store[k] >= store[i]}) > IdemMax

\* What purging leaves of a store that has one id too many.
LEMMA Purging ==
  ASSUME NEW store \in [AllIds -> Times], now \in Nat, NEW left \in Purged(store),
         IsFiniteSet(Known(store)), Cardinality(Known(store)) <= IdemMax + 1
  PROVE  Leaves(store, left)
<1> DEFINE old == {i \in Known(store) : store[i] < now - IdemTTL}
           fresh == Without(store, old)
           oldest == {i \in Known(fresh) : \A k \in Known(fresh) : fresh[i] <= fresh[k]}
<1>1. IdemMax \in Nat /\ IdemTTL \in Nat /\ Cardinality(Known(store)) \in Nat
  BY PublishAssumption, FS_CardinalityType
<1>2. \A i \in AllIds : fresh[i] = IF i \in old THEN Never ELSE store[i]
  BY DEF Without
<1>3. Known(fresh) = Known(store) \ old
  BY <1>2 DEF Known
<1>4. \A i \in Known(fresh) : fresh[i] = store[i] /\ i \in AllIds
  BY <1>2, <1>3 DEF Known
<1>5. \A i \in Known(store) : store[i] \in Nat /\ i \in AllIds
  BY DEF Known, Times, Never
<1>6. \A i \in Known(store) : now - store[i] <= IdemTTL => i \in Known(fresh)
  BY <1>1, <1>3, <1>5
<1>7. /\ IsFiniteSet(Known(fresh)) /\ Cardinality(Known(fresh)) \in Nat
      /\ Cardinality(Known(fresh)) <= Cardinality(Known(store))
  BY <1>3, FS_Subset, FS_CardinalityType
<1>8. left \in IF Cardinality(Known(fresh)) > IdemMax
               THEN {Without(fresh, {i}) : i \in oldest}
               ELSE {fresh}
  BY DEF Purged
<1> HIDE DEF old, fresh
<1>9. CASE ~(Cardinality(Known(fresh)) > IdemMax)
  <2>1. left = fresh
    BY <1>8, <1>9
  <2>2. Cardinality(Known(left)) <= IdemMax
    BY <1>1, <1>7, <1>9, <2>1
  <2> QED BY <1>3, <1>4, <1>6, <2>1, <2>2 DEF Leaves
<1>10. CASE Cardinality(Known(fresh)) > IdemMax
  <2>1. PICK e \in oldest : left = Without(fresh, {e})
    BY <1>8, <1>10
  <2>2. \A i \in AllIds : left[i] = IF i = e THEN Never ELSE fresh[i]
    BY <2>1 DEF Without
  <2>3. Known(left) = Known(fresh) \ {e} /\ e \in Known(fresh)
    BY <2>1, <2>2 DEF Known
  <2>4. Cardinality(Known(left)) = Cardinality(Known(fresh)) - 1
    BY <1>7, <2>3, FS_RemoveElement
  <2>5. Cardinality(Known(left)) <= IdemMax
    BY <1>1, <1>7, <2>4
  <2>6. \A i \in Known(left) : left[i] = store[i]
    BY <1>4, <2>2, <2>3
  <2>7. Cardinality({k \in Known(store) : store[k] >= store[e]}) > IdemMax
    <3> DEFINE late == {k \in Known(store) : store[k] >= store[e]}
    <3>1. \A k \in Known(fresh) : fresh[e] <= fresh[k]
      BY <2>1
    <3>2. \A k \in Known(fresh) : k \in Known(store) /\ store[k] >= store[e]
      BY <1>3, <1>4, <1>5, <2>3, <3>1
    <3>3. Known(fresh) \subseteq late
      BY <3>2
    <3>4. IsFiniteSet(late)
      <4>1. late \subseteq Known(store)
        OBVIOUS
      <4> QED BY <4>1, FS_Subset
    <3>5. Cardinality(Known(fresh)) <= Cardinality(late) /\ Cardinality(late) \in Nat
      BY <3>3, <3>4, FS_Subset, FS_CardinalityType
    <3> QED BY <1>1, <1>7, <1>10, <3>5
  <2>8. ASSUME NEW i \in Known(store), now - store[i] <= IdemTTL, i # e
        PROVE  left[i] = store[i]
    BY <1>4, <1>6, <2>2, <2>8
  <2> QED BY <1>3, <2>3, <2>5, <2>6, <2>7, <2>8 DEF Leaves
<1> QED BY <1>9, <1>10

\* An id is added, and the store purged if that is one too many.
LEMMA StoreAdd ==
  ASSUME TypeOK, StoreInv, NEW x \in AllIds,
         NEW store, store = [ids EXCEPT ![x] = now],
         (ids' = store /\ Cardinality(Known(store)) <= IdemMax)
           \/ ids' \in Purged(store),
         added' = [added EXCEPT ![x] = now], now' = now
  PROVE  StoreInv'
<1>1. /\ ids \in [AllIds -> Times] /\ added \in [AllIds -> Times]
      /\ now \in 0..MaxTime /\ MaxTime \in Nat /\ now \in Nat /\ now # Never
  BY PublishAssumption DEF TypeOK, Times, Never
<1>2. /\ store \in [AllIds -> Times]
      /\ \A i \in AllIds : store[i] = IF i = x THEN now ELSE ids[i]
      /\ \A i \in AllIds : added'[i] = IF i = x THEN now ELSE added[i]
      /\ added' \in [AllIds -> Times]
  BY <1>1 DEF Times
<1>3. /\ Known(store) = Known(ids) \cup {x}
      /\ Known(added') = Known(added) \cup {x} /\ Known(added)' = Known(added')
  BY <1>1, <1>2 DEF Known
<1>4. /\ IsFiniteSet(Known(store)) /\ Cardinality(Known(store)) <= IdemMax + 1
      /\ IsFiniteSet(Known(added'))
  <2>1. /\ IsFiniteSet(Known(ids)) /\ IsFiniteSet(Known(added))
        /\ Cardinality(Known(ids)) <= IdemMax /\ IdemMax \in Nat
    BY PublishAssumption DEF StoreInv
  <2>2. /\ IsFiniteSet(Known(ids) \cup {x}) /\ IsFiniteSet(Known(added) \cup {x})
        /\ \/ Cardinality(Known(ids) \cup {x}) = Cardinality(Known(ids))
           \/ Cardinality(Known(ids) \cup {x}) = Cardinality(Known(ids)) + 1
    BY <2>1, FS_AddElement
  <2>3. Cardinality(Known(ids)) \in Nat
    BY <2>1, FS_CardinalityType
  <2>4. \A k, m \in Int : m <= k => m <= k + 1 /\ m + 1 <= k + 1
    OBVIOUS
  <2>5. Cardinality(Known(ids) \cup {x}) <= IdemMax + 1
    BY <2>1, <2>2, <2>3, <2>4
  <2> QED BY <1>3, <2>2, <2>5
<1>5. Leaves(store, ids')
  <2>1. CASE ids' = store /\ Cardinality(Known(store)) <= IdemMax
    <3>1. Leaves(store, store)
      BY <2>1 DEF Leaves, Known
    <3> QED BY <2>1, <3>1
  <2>2. CASE ids' \in Purged(store)
    <3>1. \A left \in Purged(store) : Leaves(store, left)
      BY <1>1, <1>2, <1>4, Purging
    <3> QED BY <2>2, <3>1
  <2> QED BY <2>1, <2>2
<1>6. IsFiniteSet(Known(ids'))
  BY <1>4, <1>5, FS_Subset DEF Leaves
<1>7. \A i \in Known(store) : store[i] = added'[i] /\ i \in Known(added') /\ i \in AllIds
  <2>1. \A i \in Known(ids) : ids[i] = added[i] /\ i \in AllIds /\ ids[i] # Never
    BY DEF StoreInv, Known
  <2>2. \A i \in Known(ids) : i \in Known(added)
    BY <2>1 DEF Known
  <2> QED BY <1>2, <1>3, <2>1, <2>2
<1>8. \A i \in Known(ids') : ids'[i] = added'[i]
  BY <1>5, <1>7 DEF Leaves
<1>9. \A i \in AllIds : added'[i] <= now
  <2>1. \A i \in AllIds : added[i] <= now
    BY DEF StoreInv
  <2> QED BY <1>1, <1>2, <2>1
<1> DEFINE late(i) == {k \in Known(added') : added'[k] >= added'[i]}
<1>10. ASSUME NEW i \in Known(added'), now - added'[i] <= IdemTTL,
              Cardinality(late(i)) <= IdemMax
       PROVE  ids'[i] = added'[i]
  <2>1. IsFiniteSet(late(i)) /\ i \in AllIds /\ IdemMax \in Nat
    <3>1. late(i) \subseteq Known(added')
      OBVIOUS
    <3> QED BY <1>4, <3>1, FS_Subset, PublishAssumption DEF Known
  <2>2. i \in Known(store)
    <3>1. CASE i = x
      BY <1>3, <3>1
    <3>2. CASE i # x
      <4>1. i \in Known(added) /\ added'[i] = added[i]
        BY <1>2, <1>3, <2>1, <3>2
      <4>2. AsLate(i) \subseteq late(i)
        <5>1. \A k \in Known(added) : k \in AllIds
          BY DEF Known
        <5>2. \A k \in AsLate(i) : k \in Known(added') /\ added'[k] >= added'[i]
          <6>1. \A k \in AsLate(i) : k \in Known(added) /\ added[k] >= added[i]
            BY DEF AsLate
          <6>2. added[i] <= now /\ added[i] \in Int
            BY <1>1, <2>1 DEF StoreInv, Times, Never
          <6>3. ASSUME NEW k \in AsLate(i) PROVE added'[k] >= added'[i]
            BY <1>1, <1>2, <4>1, <5>1, <6>1, <6>2
          <6> QED BY <1>3, <6>1, <6>3
        <5> QED BY <5>2
      <4>3. Cardinality(AsLate(i)) <= IdemMax
        <5>1. /\ IsFiniteSet(AsLate(i)) /\ Cardinality(AsLate(i)) \in Nat
              /\ Cardinality(late(i)) \in Nat
              /\ Cardinality(AsLate(i)) <= Cardinality(late(i))
          BY <2>1, <4>2, FS_Subset, FS_CardinalityType
        <5> QED BY <1>10, <2>1, <5>1
      <4>4. ids[i] = added[i]
        BY <1>10, <4>1, <4>3 DEF StoreInv
      <4>5. i \in Known(ids)
        BY <2>1, <4>1, <4>4 DEF Known
      <4> QED BY <1>3, <4>5
    <3> QED BY <3>1, <3>2
  <2>3. store[i] = added'[i]
    BY <1>7, <2>2
  <2>4. {k \in Known(store) : store[k] >= store[i]} \subseteq late(i)
    BY <1>7, <2>3
  <2>5. ~(Cardinality({k \in Known(store) : store[k] >= store[i]}) > IdemMax)
    <3> DEFINE some == {k \in Known(store) : store[k] >= store[i]}
    <3>1. /\ Cardinality(some) <= Cardinality(late(i))
          /\ Cardinality(some) \in Nat /\ Cardinality(late(i)) \in Nat
      BY <2>1, <2>4, FS_Subset, FS_CardinalityType
    <3> HIDE DEF late
    <3> QED BY <1>10, <2>1, <3>1
  <2>6. now - store[i] <= IdemTTL
    BY <1>10, <2>3
  <2> QED BY <1>5, <2>2, <2>3, <2>5, <2>6 DEF Leaves
<1>11. /\ Known(ids)' = Known(ids') /\ \A i : AsLate(i)' = late(i)
  BY <1>3 DEF Known, AsLate
<1> HIDE DEF late
<1>12. IsFiniteSet(Known(ids)') /\ IsFiniteSet(Known(added)')
  BY <1>3, <1>4, <1>6, <1>11
<1>13. Cardinality(Known(ids)') <= IdemMax
  BY <1>5, <1>11 DEF Leaves
<1>14. \A i \in Known(added)' :
         now' - added'[i] <= IdemTTL /\ Cardinality(AsLate(i)') <= IdemMax
         => ids'[i] = added'[i]
  BY <1>3, <1>10, <1>11
<1>15. \A i \in Known(ids)' : ids'[i] = added'[i]
  BY <1>8, <1>11
<1> QED BY <1>9, <1>12, <1>13, <1>14, <1>15 DEF StoreInv

LEMMA StoreNothing ==
  ASSUME now \in Nat, ids = [i \in AllIds |-> Never], added = [i \in AllIds |-> Never]
  PROVE  StoreInv
<1>1. Known(ids) = {} /\ Known(added) = {}
  BY DEF Known
<1>2. IsFiniteSet({}) /\ Cardinality({}) = 0
  BY FS_EmptySet
<1> QED BY <1>1, <1>2, PublishAssumption DEF StoreInv, Never

LEMMA StoreNext == IInv /\ StoreInv /\ [Next]_vars => StoreInv'
<1> SUFFICES ASSUME IInv, StoreInv, [Next]_vars PROVE StoreInv'
  OBVIOUS
<1>1. TypeOK /\ now \in Int
  BY DEF IInv, TypeOK
<1>2. ASSUME UNCHANGED <<ids, added>>, now' \in {now, now + 1} PROVE StoreInv'
  BY <1>1, <1>2, StoreStill
<1>3. CASE Crash
  <2>1. /\ ids' = [i \in AllIds |-> Never] /\ added' = [i \in AllIds |-> Never]
        /\ now' = now
    BY <1>3 DEF Crash
  <2>2. Known(ids)' = {} /\ Known(added)' = {}
    BY <2>1 DEF Known
  <2>3. IsFiniteSet({}) /\ Cardinality({}) = 0
    BY FS_EmptySet
  <2>4. \A i \in AllIds : added'[i] <= now'
    BY <1>1, <2>1 DEF TypeOK, Never
  <2> QED BY <2>2, <2>3, <2>4, PublishAssumption DEF StoreInv
<1>4. CASE Tick
  BY <1>2, <1>4 DEF Tick
<1>5. CASE UNCHANGED vars
  BY <1>2, <1>5 DEF vars
<1>6. ASSUME NEW q \in Requests, Add(q) PROVE StoreInv'
  <2> DEFINE store == [ids EXCEPT ![IdOf(q)] = now]
  <2>1. IdOf(q) \in AllIds
    BY <1>6 DEF IInv, TypeOK, IdOf, Add, Requests
  <2>2. /\ \/ ids' = store /\ ~(Cardinality(Known(store)) > IdemMax)
           \/ ids' \in Purged(store)
        /\ added' = [added EXCEPT ![IdOf(q)] = now] /\ now' = now
    BY <1>6 DEF Add
  <2>3. ids' = store => Cardinality(Known(store)) <= IdemMax \/ ids' \in Purged(store)
    <3>1. Cardinality(Known(store)) \in Nat
      <4>1. Known(store) = Known(ids) \cup {IdOf(q)}
        BY <1>1, <2>1 DEF Known, TypeOK, Never
      <4> QED BY <4>1, FS_AddElement, FS_CardinalityType DEF StoreInv
    <3> QED BY <2>2, <3>1, PublishAssumption
  <2> HIDE DEF store
  <2>4. \/ ids' = store /\ Cardinality(Known(store)) <= IdemMax
        \/ ids' \in Purged(store)
    BY <2>2, <2>3
  <2> QED BY <1>1, <2>1, <2>2, <2>4, StoreAdd DEF store
<1>7. ASSUME NEW q \in Requests, Arrive(q) \/ ExecSucceeds(q) \/ ExecFails(q) \/ Lose(q)
      PROVE  StoreInv'
  BY <1>2, <1>7 DEF Arrive, ExecSucceeds, ExecFails, Lose
<1>8. ASSUME NEW s \in Sends, NEW i \in Ids \cup {NoId},
             SendWithID(s, i)
      PROVE  StoreInv'
  BY <1>2, <1>8 DEF SendWithID
<1>9. ASSUME NEW s \in Sends, ClientMoves(s) \/ GiveUp(s) PROVE StoreInv'
  BY <1>2, <1>9 DEF ClientMoves, Response, NoResponse, Retry, GiveUp
<1> QED BY <1>3, <1>4, <1>5, <1>6, <1>7, <1>8, <1>9 DEF Next

\* The store never holds more than IdemMax ids, and forgets none that was added
\* within the TTL and is among the IdemMax last, ties counted against it: however
\* handlers, ticks of the clock, purges and restarts follow one another.
THEOREM StoreKeeps == Spec => []StoreKeepsRecent
<1>1. Init => StoreInv
  BY StoreNothing DEF Init
<1>2. IInv /\ StoreInv => StoreKeepsRecent
  BY DEF StoreInv, StoreKeepsRecent, AsLate
<1> QED BY <1>1, <1>2, StoreNext, InvInit, InvNext, PTL DEF Spec
=============================================================================
