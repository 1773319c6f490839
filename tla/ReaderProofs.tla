---------------------------- MODULE ReaderProofs -----------------------------
(***************************************************************************)
(* Proofs about Reader: the types of its variables, ReadBack and DelayFits.*)
(*                                                                         *)
(* A body is described line by line, by the phase of the frame a line is in*)
(* and the number of the broadcast last begun (Follows).  What is left of a*)
(* body is then described the same way wherever reading stands and wherever*)
(* the connection is cut (Left), and readSSEEvent is followed one line at a*)
(* time: in each phase its variables are known (Reading), so that what it  *)
(* returns is a header or the next broadcast (ReadsEvent).                 *)
(***************************************************************************)
EXTENDS Reader, DataProofs, SequenceTheorems

-----------------------------------------------------------------------------
(* FoldLeft.                                                               *)

LEMMA MaxOf ==
  ASSUME NEW n \in Nat, NEW s \in SUBSET (1..n), s # {}
  PROVE  Max(s) \in s /\ \A y \in s : y <= Max(s)
<1> DEFINE T == {k \in Nat : \A r \in SUBSET (1..k) :
                               r # {} => \E x \in r : \A y \in r : x >= y}
<1>1. 0 \in T
  <2>1. \A r \in SUBSET (1..0) : r = {}
    OBVIOUS
  <2> QED BY <2>1
<1>2. ASSUME NEW k \in Nat, k \in T PROVE k + 1 \in T
  <2> SUFFICES ASSUME NEW r \in SUBSET (1 .. k + 1), r # {}
               PROVE  \E x \in r : \A y \in r : x >= y
    OBVIOUS
  <2>1. CASE k + 1 \in r
    BY <2>1
  <2>2. CASE k + 1 \notin r
    <3>1. r \in SUBSET (1..k)
      BY <2>2
    <3> QED BY <1>2, <3>1
  <2> QED BY <2>1, <2>2
<1> HIDE DEF T
<1>3. n \in T
  BY <1>1, <1>2, Induction
<1>4. PICK x \in s : \A y \in s : x >= y
  BY <1>3 DEF T
<1>5. Max(s) \in s /\ \A y \in s : Max(s) >= y
  BY <1>4 DEF Max
<1> QED BY <1>5

\* The recursion of a fold over the subsets of 1..n, the greatest element
\* first, has a solution.
Folded(it, V, base, n, op) ==
  /\ it \in [SUBSET (1..n) -> V]
  /\ \A s \in SUBSET (1..n) :
       it[s] = IF s = {} THEN base ELSE op[<<Max(s), it[s \ {Max(s)}]>>]

Merges(n, V) == [(1..n) \X V -> V]

LEMMA FoldExists ==
  ASSUME NEW V, NEW base \in V, NEW n \in Nat, NEW op \in Merges(n, V)
  PROVE  \E it : Folded(it, V, base, n, op)
<1> DEFINE P == SUBSET (1..n)
           F == [P -> V]
           c == [s \in P |-> base]
           Up(h, m) == [s \in P |-> IF m \in s THEN op[<<m, h[s \ {m}]>>] ELSE h[s]]
           step == [x \in F \X Nat |-> Up(x[1], x[2])]
<1>1. c \in F
  OBVIOUS
<1>2. ASSUME NEW h \in F, NEW m \in Nat PROVE Up(h, m) \in F
  <2>1. ASSUME NEW s \in P
        PROVE  (IF m \in s THEN op[<<m, h[s \ {m}]>>] ELSE h[s]) \in V
    <3>1. s \ {m} \in P /\ h[s \ {m}] \in V /\ h[s] \in V
      OBVIOUS
    <3>2. m \in s => <<m, h[s \ {m}]>> \in (1..n) \X V
      BY <3>1
    <3> QED BY <3>1, <3>2 DEF Merges
  <2> QED BY <2>1
<1>3. step \in [F \X Nat -> F] /\ \A h \in F, m \in Nat : step[<<h, m>>] = Up(h, m)
  <2> HIDE DEF Up, F
  <2> QED BY <1>2
<1>4. \A h \in F, m \in Nat, s \in P :
        Up(h, m)[s] = IF m \in s THEN op[<<m, h[s \ {m}]>>] ELSE h[s]
  OBVIOUS
<1>5. \A s \in P : c[s] = base
  OBVIOUS
<1> HIDE DEF c, step, Up, F
<1>6. PICK H : Recurses(H, F, c, step)
  BY <1>1, <1>3, Recursion DEF Steps
<1>7. /\ \A m \in Nat : H[m] \in F
      /\ H[0] = c
      /\ \A m \in Nat \ {0} : H[m] = Up(H[m - 1], m)
  <2>1. ASSUME NEW m \in Nat \ {0} PROVE H[m] = Up(H[m - 1], m)
    <3>1. H[m] = step[<<H[m - 1], m>>] /\ H[m - 1] \in F /\ m \in Nat
      BY <1>6 DEF Recurses
    <3> QED BY <1>3, <3>1
  <2> QED BY <1>6, <2>1 DEF Recurses
<1>8. \A m \in Nat \ {0}, s \in P :
        H[m][s] = IF m \in s THEN op[<<m, H[m - 1][s \ {m}]>>] ELSE H[m - 1][s]
  <2>1. ASSUME NEW m \in Nat \ {0}, NEW s \in P
        PROVE  H[m][s] = IF m \in s THEN op[<<m, H[m - 1][s \ {m}]>>] ELSE H[m - 1][s]
    <3>1. m \in Nat /\ m - 1 \in Nat /\ H[m - 1] \in F /\ H[m] = Up(H[m - 1], m)
      BY <1>7
    <3>2. H[m][s] = Up(H[m - 1], m)[s]
      BY <3>1
    <3> HIDE DEF P
    <3> QED BY <1>4, <3>1, <3>2
  <2> QED BY <2>1
<1>9. ASSUME NEW x \in Nat, NEW s \in P, s \subseteq 1..x
      PROVE  \A k \in Nat : x <= k => H[k][s] = H[x][s]
  <2> DEFINE T == {k \in Nat : x <= k => H[k][s] = H[x][s]}
  <2>1. 0 \in T
    OBVIOUS
  <2>2. ASSUME NEW k \in Nat, k \in T PROVE k + 1 \in T
    <3> SUFFICES ASSUME x <= k + 1 PROVE H[k + 1][s] = H[x][s]
      OBVIOUS
    <3>1. CASE x = k + 1
      BY <3>1
    <3>2. CASE x <= k
      <4>1. k + 1 \notin s /\ k + 1 \in Nat \ {0} /\ (k + 1) - 1 = k
        BY <1>9, <3>2
      <4>2. H[k + 1][s] = H[(k + 1) - 1][s]
        <5> HIDE DEF P
        <5> QED BY <1>8, <4>1
      <4>3. H[k + 1][s] = H[k][s]
        BY <4>1, <4>2
      <4> QED BY <2>2, <3>2, <4>3
    <3> QED BY <3>1, <3>2
  <2> HIDE DEF T
  <2>3. Nat \subseteq T
    BY <2>1, <2>2, Induction
  <2> QED BY <2>3 DEF T
<1> DEFINE it == H[n]
<1>10. it \in [P -> V]
  BY <1>7 DEF F
<1>11. it[{}] = base
  <2>1. {} \in P /\ {} \subseteq 1..0
    OBVIOUS
  <2>2. H[n][{}] = H[0][{}]
    BY <2>1, <1>9
  <2>3. H[0][{}] = base
    BY <2>1, <1>5, <1>7
  <2> QED BY <2>2, <2>3
<1>12. ASSUME NEW s \in P, s # {}
       PROVE  it[s] = op[<<Max(s), it[s \ {Max(s)}]>>]
  <2> DEFINE x == Max(s)
  <2>1. x \in s /\ \A y \in s : y <= x
    BY <1>12, MaxOf
  <2> HIDE DEF x
  <2>2. x \in Nat \ {0} /\ x <= n /\ x - 1 \in Nat /\ x - 1 <= n
    BY <2>1
  <2>3. s \subseteq 1..x /\ s \ {x} \subseteq 1 .. x - 1 /\ s \ {x} \in P
    BY <2>1, <2>2
  <2>4. H[n][s] = H[x][s] /\ H[n][s \ {x}] = H[x - 1][s \ {x}]
    BY <1>9, <2>2, <2>3
  <2>5. H[x][s] = op[<<x, H[x - 1][s \ {x}]>>]
    BY <1>8, <2>1, <2>2
  <2>6. it[s] = op[<<x, it[s \ {x}]>>]
    BY <2>4, <2>5
  <2> QED BY <2>6 DEF x
<1> HIDE DEF it
<1>13. \A s \in P : it[s] = IF s = {} THEN base ELSE op[<<Max(s), it[s \ {Max(s)}]>>]
  BY <1>11, <1>12
<1> QED BY <1>10, <1>13 DEF Folded

-----------------------------------------------------------------------------
(* readSSEEvent, line by line.                                             *)

Fields == {"retry", "event", "data", "id", "comment", "blank", "unknown"}
Lines == [f : Fields, v : Int]

\* The local variables of readSSEEvent.
Evs == [type : Int, id : Int, data : Int, gotData : BOOLEAN, done : BOOLEAN, used : Nat]

LEMMA TakeType == ASSUME NEW ev \in Evs, NEW line \in Lines PROVE Take(ev, line) \in Evs
<1>1. CASE ev.done
  BY <1>1 DEF Take
<1>2. CASE ~ev.done
  <2> DEFINE e == [ev EXCEPT !.used = @ + 1]
  <2>1. e \in Evs
    BY DEF Evs
  <2>2. /\ line.v \in Int
        /\ ev.gotData \in BOOLEAN
    BY DEF Evs, Lines
  <2>3. /\ [e EXCEPT !.done = ev.gotData] \in Evs
        /\ [e EXCEPT !.type = line.v] \in Evs
        /\ [e EXCEPT !.id = line.v] \in Evs
        /\ [e EXCEPT !.data = line.v, !.gotData = TRUE] \in Evs
    <3> HIDE DEF e
    <3> QED BY <2>1, <2>2 DEF Evs
  <2>4. Take(ev, line) =
          CASE line.f = "blank" -> [e EXCEPT !.done = ev.gotData]
            [] line.f = "event" -> [e EXCEPT !.type = line.v]
            [] line.f = "id"    -> [e EXCEPT !.id = line.v]
            [] line.f = "data"  -> [e EXCEPT !.data = line.v, !.gotData = TRUE]
            [] OTHER -> e
    BY <1>2 DEF Take
  <2> HIDE DEF e
  <2> QED BY <2>1, <2>3, <2>4
<1> QED BY <1>1, <1>2

\* G[k] is what the loop has after k lines.
Loop(G, lines) ==
  /\ G \in [0..Len(lines) -> Evs]
  /\ G[0] = NoEvent
  /\ \A k \in 1..Len(lines) : G[k] = Take(G[k - 1], lines[k])

LEMMA FoldLines ==
  ASSUME NEW lines \in Seq(Lines)
  PROVE  \E G : Loop(G, lines) /\ FoldLeft(Take, NoEvent, lines) = G[Len(lines)]
<1> DEFINE n == Len(lines)
           op == [x \in (1..n) \X Evs |-> Take(x[2], lines[x[1]])]
           iter[s \in SUBSET DOMAIN lines] ==
             IF s = {} THEN NoEvent
             ELSE LET x == Max(s) IN Take(iter[s \ {x}], lines[x])
           G == [k \in 0..n |-> iter[1..k]]
<1>1. FoldLeft(Take, NoEvent, lines) = iter[DOMAIN lines]
  BY DEF FoldLeft, MapThenFoldSet
<1>2. n \in Nat /\ DOMAIN lines = 1..n /\ \A k \in 1..n : lines[k] \in Lines
  BY LenProperties, ElementOfSeq
<1>3. NoEvent \in Evs
  BY DEF NoEvent, Evs, Message, Json
<1> HIDE DEF n
<1>4. op \in Merges(n, Evs) /\ \A k \in 1..n, e \in Evs : op[<<k, e>>] = Take(e, lines[k])
  <2>1. \A x \in (1..n) \X Evs : Take(x[2], lines[x[1]]) \in Evs
    BY <1>2, TakeType
  <2> QED BY <2>1 DEF Merges
<1> HIDE DEF op
<1>5. PICK it : Folded(it, Evs, NoEvent, n, op)
  BY <1>2, <1>3, <1>4, FoldExists
<1>6. \A s \in SUBSET (1..n) :
        it[s] = IF s = {} THEN NoEvent ELSE Take(it[s \ {Max(s)}], lines[Max(s)])
  <2>1. ASSUME NEW s \in SUBSET (1..n), s # {}
        PROVE  it[s] = Take(it[s \ {Max(s)}], lines[Max(s)])
    <3>1. Max(s) \in 1..n /\ s \ {Max(s)} \in SUBSET (1..n)
      BY <1>2, <2>1, MaxOf
    <3> QED BY <1>4, <1>5, <2>1, <3>1 DEF Folded
  <2> QED BY <1>5, <2>1 DEF Folded
<1>7. it = [s \in SUBSET (1..n) |-> IF s = {} THEN NoEvent
                                    ELSE LET x == Max(s) IN Take(it[s \ {x}], lines[x])]
  BY <1>5, <1>6 DEF Folded
<1>8. iter = [s \in SUBSET (1..n) |-> IF s = {} THEN NoEvent
                                      ELSE LET x == Max(s) IN Take(iter[s \ {x}], lines[x])]
  BY <1>2, <1>7
<1> HIDE DEF iter
<1>9. G[0] = NoEvent
  <2>1. 1..0 = {}
    OBVIOUS
  <2> QED BY <1>2, <1>8, <2>1
<1>10. ASSUME NEW k \in 1..n PROVE G[k] = Take(G[k - 1], lines[k])
  <2>0. k \in Nat /\ k >= 1 /\ k <= n /\ k \in 1..k /\ k - 1 \in 0..n
    BY <1>2
  <2>1. (1..k) \in SUBSET (1..n) /\ 1..k # {} /\ (1..k) \ {k} = 1 .. k - 1
    <3>1. \A i : i \in (1..k) \ {k} <=> i \in 1 .. k - 1
      BY <2>0
    <3>2. \A i \in 1..k : i \in 1..n
      BY <1>2, <2>0
    <3> QED BY <2>0, <3>1, <3>2
  <2>2. Max(1..k) = k
    <3>1. Max(1..k) \in 1..k /\ k <= Max(1..k)
      BY <1>2, <2>0, <2>1, MaxOf
    <3> QED BY <2>0, <3>1
  <2>3. iter[1..k] = Take(iter[(1..k) \ {k}], lines[k])
    BY <1>8, <2>1, <2>2
  <2>4. G[k] = iter[1..k] /\ G[k - 1] = iter[1 .. k - 1]
    BY <2>0
  <2> QED BY <2>1, <2>3, <2>4
<1>11. G[n] = iter[DOMAIN lines]
  BY <1>2
<1>12. G \in [0..n -> Evs]
  <2> DEFINE T == {k \in Nat : k <= n => G[k] \in Evs}
  <2> HIDE DEF G
  <2>1. 0 \in T
    BY <1>3, <1>9
  <2>2. ASSUME NEW k \in Nat, k \in T PROVE k + 1 \in T
    <3> SUFFICES ASSUME k + 1 <= n PROVE G[k + 1] \in Evs
      OBVIOUS
    <3>1. k + 1 \in 1..n /\ (k + 1) - 1 = k /\ G[k] \in Evs
      BY <1>2, <2>2
    <3>2. G[k + 1] = Take(G[k], lines[k + 1])
      BY <1>10, <3>1
    <3> QED BY <1>2, <3>1, <3>2, TakeType
  <2> HIDE DEF T
  <2>3. Nat \subseteq T
    BY <2>1, <2>2, Induction
  <2>4. \A k \in 0..n : G[k] \in Evs
    BY <1>2, <2>3 DEF T
  <2> QED BY <2>4 DEF G
<1> HIDE DEF G
<1> QED BY <1>1, <1>9, <1>10, <1>11, <1>12 DEF Loop, n

\* Once it has its event it reads no further.
LEMMA LoopStops ==
  ASSUME NEW lines \in Seq(Lines), NEW G, Loop(G, lines),
         NEW j \in 0..Len(lines), G[j].done
  PROVE  G[Len(lines)] = G[j]
<1> DEFINE n == Len(lines)
           T == {k \in Nat : j <= k /\ k <= n => G[k] = G[j]}
<1>1. n \in Nat
  BY LenProperties
<1> HIDE DEF n
<1>2. 0 \in T
  BY DEF n
<1>3. ASSUME NEW k \in Nat, k \in T PROVE k + 1 \in T
  <2> SUFFICES ASSUME j <= k + 1, k + 1 <= n PROVE G[k + 1] = G[j]
    OBVIOUS
  <2>1. CASE j = k + 1
    BY <2>1
  <2>2. CASE j <= k
    <3>1. k + 1 \in 1..n /\ (k + 1) - 1 = k /\ G[k] = G[j]
      BY <1>1, <1>3, <2>2
    <3>2. G[k + 1] = Take(G[k], lines[k + 1])
      BY <3>1 DEF Loop, n
    <3> QED BY <3>1, <3>2 DEF Take
  <2> QED BY <2>1, <2>2 DEF n
<1> HIDE DEF T
<1>4. n \in T
  BY <1>1, <1>2, <1>3, Induction
<1> QED BY <1>1, <1>4 DEF T, n

\* Take on a line, before the event is complete, variable by variable.
LEMMA TakeLine ==
  ASSUME NEW ev \in Evs, NEW line \in Lines, ~ev.done, NEW r, r = Take(ev, line)
  PROVE  /\ r.used = ev.used + 1
         /\ r.type = (IF line.f = "event" THEN line.v ELSE ev.type)
         /\ r.id = (IF line.f = "id" THEN line.v ELSE ev.id)
         /\ r.data = (IF line.f = "data" THEN line.v ELSE ev.data)
         /\ r.gotData <=> (ev.gotData \/ line.f = "data")
         /\ r.done <=> (ev.gotData /\ line.f = "blank")
<1> DEFINE e == [ev EXCEPT !.used = @ + 1]
<1>1. /\ e \in Evs /\ ~e.done /\ e.used = ev.used + 1 /\ e.type = ev.type
      /\ e.id = ev.id /\ e.data = ev.data /\ e.gotData = ev.gotData
  BY DEF Evs
<1>2. Take(ev, line) =
          CASE line.f = "blank" -> [e EXCEPT !.done = ev.gotData]
            [] line.f = "event" -> [e EXCEPT !.type = line.v]
            [] line.f = "id"    -> [e EXCEPT !.id = line.v]
            [] line.f = "data"  -> [e EXCEPT !.data = line.v, !.gotData = TRUE]
            [] OTHER -> e
  BY DEF Take
<1> HIDE DEF e
<1>3. CASE line.f = "blank"
  <2>1. r = [e EXCEPT !.done = ev.gotData]
    BY <1>2, <1>3
  <2> QED BY <1>1, <1>3, <2>1 DEF Evs
<1>4. CASE line.f = "event"
  <2>1. r = [e EXCEPT !.type = line.v]
    BY <1>2, <1>4
  <2> QED BY <1>1, <1>4, <2>1 DEF Evs
<1>5. CASE line.f = "id"
  <2>1. r = [e EXCEPT !.id = line.v]
    BY <1>2, <1>5
  <2> QED BY <1>1, <1>5, <2>1 DEF Evs
<1>6. CASE line.f = "data"
  <2>1. r = [e EXCEPT !.data = line.v, !.gotData = TRUE]
    BY <1>2, <1>6
  <2> QED BY <1>1, <1>6, <2>1 DEF Evs
<1>7. CASE line.f \notin {"blank", "event", "id", "data"}
  <2>1. r = e
    BY <1>2, <1>7
  <2> QED BY <1>1, <1>7, <2>1
<1> QED BY <1>3, <1>4, <1>5, <1>6, <1>7

-----------------------------------------------------------------------------
(* The bodies.                                                             *)

\* What a body is, line by line: the phase of the frame being written and the
\* number of the last broadcast begun, before and after a line.  The events that
\* it leaves out are in miss.
Phases == {"between", "event", "header", "id", "data"}

Gap(n, m, miss) == \A i \in n + 1 .. m : i \in miss
Skips(n, m, miss) == n < m /\ Gap(n, m - 1, miss)

Follows(a, n, line, b, m, miss) ==
  \/ a = "between" /\ line.f \in {"retry", "comment"} /\ b = "between" /\ m = n
  \/ a = "between" /\ line.f = "event" /\ line.v # Message /\ b = "event" /\ m = n
  \/ a = "event" /\ line.f = "data" /\ line.v = Json /\ b = "header" /\ m = n
  \/ a = "between" /\ line.f = "id" /\ line.v = m /\ b = "id" /\ Skips(n, m, miss)
  \/ a = "id" /\ line.f = "data" /\ line.v = n /\ b = "data" /\ m = n
  \/ a \in {"between", "header", "data"} /\ line = Blank /\ b = "between" /\ m = n

\* The phases and numbers of a whole body, from one number to another.
Run(R, at, num, from, to, miss) ==
  /\ at \in [0..Len(R) -> Phases] /\ num \in [0..Len(R) -> from..to]
  /\ at[0] = "between" /\ num[0] = from
  /\ at[Len(R)] = "between" /\ num[Len(R)] = to
  /\ \A i \in 1..Len(R) : Follows(at[i - 1], num[i - 1], R[i], at[i], num[i], miss)

Runs(R, from, to, miss) ==
  R \in Seq(Lines) /\ \E at, num : Run(R, at, num, from, to, miss)

LEMMA RunConcat ==
  ASSUME NEW miss, NEW A, NEW B, NEW from \in Nat, NEW mid \in Nat, NEW to \in Nat,
         from <= mid, mid <= to, Runs(A, from, mid, miss), Runs(B, mid, to, miss)
  PROVE  Runs(A \o B, from, to, miss) /\ Len(A \o B) = Len(A) + Len(B)
<1> DEFINE a == Len(A)
           b == Len(B)
           R == A \o B
<1>1. A \in Seq(Lines) /\ B \in Seq(Lines)
  BY DEF Runs
<1>2. /\ a \in Nat /\ b \in Nat /\ R \in Seq(Lines) /\ Len(R) = a + b
      /\ \A i \in 1..a : R[i] = A[i]
      /\ \A i \in a + 1 .. a + b : R[i] = B[i - a]
  BY <1>1
<1>3. PICK atA, numA : Run(A, atA, numA, from, mid, miss)
  BY DEF Runs
<1>4. PICK atB, numB : Run(B, atB, numB, mid, to, miss)
  BY DEF Runs
<1> DEFINE at == [i \in 0 .. a + b |-> IF i <= a THEN atA[i] ELSE atB[i - a]]
           num == [i \in 0 .. a + b |-> IF i <= a THEN numA[i] ELSE numB[i - a]]
<1>5. /\ atA \in [0..a -> Phases] /\ numA \in [0..a -> from..mid]
      /\ atA[0] = "between" /\ numA[0] = from /\ atA[a] = "between" /\ numA[a] = mid
      /\ \A i \in 1..a : Follows(atA[i - 1], numA[i - 1], A[i], atA[i], numA[i], miss)
  BY <1>3 DEF Run
<1>6. /\ atB \in [0..b -> Phases] /\ numB \in [0..b -> mid..to]
      /\ atB[0] = "between" /\ numB[0] = mid /\ atB[b] = "between" /\ numB[b] = to
      /\ \A i \in 1..b : Follows(atB[i - 1], numB[i - 1], B[i], atB[i], numB[i], miss)
  BY <1>4 DEF Run
<1> HIDE DEF a, b, R
<1>7. /\ \A i \in 0..a : at[i] = atA[i] /\ num[i] = numA[i]
      /\ \A i \in a .. a + b : at[i] = atB[i - a] /\ num[i] = numB[i - a]
  <2>1. \A i \in 0..a : at[i] = atA[i] /\ num[i] = numA[i]
    BY <1>2
  <2>2. ASSUME NEW i \in a .. a + b PROVE at[i] = atB[i - a] /\ num[i] = numB[i - a]
    <3>1. CASE i = a
      BY <1>2, <1>5, <1>6, <3>1
    <3>2. CASE i # a
      BY <1>2, <3>2
    <3> QED BY <3>1, <3>2
  <2> QED BY <2>1, <2>2
<1>8. at \in [0 .. a + b -> Phases] /\ num \in [0 .. a + b -> from..to]
  <2>1. ASSUME NEW i \in 0 .. a + b PROVE at[i] \in Phases /\ num[i] \in from..to
    <3>1. CASE i <= a
      BY <1>2, <1>5, <3>1
    <3>2. CASE i > a
      <4>1. i - a \in 0..b /\ at[i] = atB[i - a] /\ num[i] = numB[i - a]
        BY <1>2, <3>2
      <4> QED BY <1>6, <4>1
    <3> QED BY <1>2, <3>1, <3>2
  <2> QED BY <2>1
<1> HIDE DEF at, num
<1>9. at[0] = "between" /\ num[0] = from /\ at[a + b] = "between" /\ num[a + b] = to
  <2>1. 0 \in 0..a /\ a + b \in a .. a + b /\ (a + b) - a = b
    BY <1>2
  <2>2. at[0] = atA[0] /\ num[0] = numA[0] /\ at[a + b] = atB[b] /\ num[a + b] = numB[b]
    BY <1>7, <2>1
  <2> QED BY <1>5, <1>6, <2>2
<1>10. ASSUME NEW i \in 1 .. a + b
       PROVE  Follows(at[i - 1], num[i - 1], R[i], at[i], num[i], miss)
  <2>1. CASE i <= a
    <3>1. i \in 1..a /\ i \in 0..a /\ i - 1 \in 0..a
      BY <1>2, <2>1
    <3>2. Follows(atA[i - 1], numA[i - 1], A[i], atA[i], numA[i], miss)
      BY <1>5, <3>1
    <3>3. at[i] = atA[i] /\ num[i] = numA[i] /\ R[i] = A[i]
      BY <1>2, <1>7, <3>1
    <3>4. at[i - 1] = atA[i - 1] /\ num[i - 1] = numA[i - 1]
      BY <1>7, <3>1
    <3> QED BY <3>2, <3>3, <3>4
  <2>2. CASE i > a
    <3>1. /\ i - a \in 1..b /\ i \in a .. a + b /\ i - 1 \in a .. a + b
          /\ i \in a + 1 .. a + b /\ (i - 1) - a = (i - a) - 1
      BY <1>2, <2>2
    <3>2. Follows(atB[(i - a) - 1], numB[(i - a) - 1], B[i - a], atB[i - a], numB[i - a], miss)
      BY <1>6, <3>1
    <3>3. at[i] = atB[i - a] /\ num[i] = numB[i - a] /\ R[i] = B[i - a]
      BY <1>2, <1>7, <3>1
    <3>4. at[i - 1] = atB[(i - a) - 1] /\ num[i - 1] = numB[(i - a) - 1]
      BY <1>7, <3>1
    <3> QED BY <3>2, <3>3, <3>4
  <2> QED BY <1>2, <2>1, <2>2
<1>11. Run(R, at, num, from, to, miss)
  BY <1>2, <1>8, <1>9, <1>10 DEF Run
<1> QED BY <1>2, <1>11 DEF Runs, R, a, b

\* The frames of one event, and the lines around them.
LEMMA RunFrames ==
  ASSUME NEW miss, NEW n \in Nat
  PROVE  /\ Runs(<<>>, n, n, miss) /\ Len(<<>>) = 0
         /\ Runs(Ready, n, n, miss) /\ Len(Ready) = 4
         /\ Runs(Resume, n, n, miss) /\ Len(Resume) = 3
         /\ Runs(Ping, n, n, miss) /\ Len(Ping) = 2
         /\ \A m \in Nat : Skips(n, m, miss) => Runs(Broadcast(m), n, m, miss)
<1>1. Runs(<<>>, n, n, miss) /\ Len(<<>>) = 0
  <2>1. Run(<<>>, [i \in 0..0 |-> "between"], [i \in 0..0 |-> n], n, n, miss)
    BY DEF Run, Phases
  <2> QED BY <2>1 DEF Runs
<1>2. Runs(Ready, n, n, miss) /\ Len(Ready) = 4
  <2> DEFINE at == [i \in 0..4 |-> IF i = 2 THEN "event" ELSE IF i = 3 THEN "header"
                                   ELSE "between"]
             num == [i \in 0..4 |-> n]
  <2>1. Ready \in Seq(Lines) /\ Len(Ready) = 4
    BY DEF Ready, Lines, Fields, Line, Blank, Json
  <2>2. at \in [0..4 -> Phases] /\ num \in [0..4 -> n..n]
    BY DEF Phases
  <2>3. /\ Ready[1].f = "retry" /\ Ready[2].f = "event" /\ Ready[2].v = 1
        /\ Ready[3].f = "data" /\ Ready[3].v = Json /\ Ready[4] = Blank
    BY DEF Ready, Line
  <2>4. \A i \in 1..4 : Follows(at[i - 1], num[i - 1], Ready[i], at[i], num[i], miss)
    BY <2>3 DEF Follows, Message
  <2>5. Run(Ready, at, num, n, n, miss)
    BY <2>1, <2>2, <2>4 DEF Run
  <2> QED BY <2>1, <2>5 DEF Runs
<1>3. Runs(Resume, n, n, miss) /\ Len(Resume) = 3
  <2> DEFINE at == [i \in 0..3 |-> IF i = 1 THEN "event" ELSE IF i = 2 THEN "header"
                                   ELSE "between"]
             num == [i \in 0..3 |-> n]
  <2>1. Resume \in Seq(Lines) /\ Len(Resume) = 3
    BY DEF Resume, Lines, Fields, Line, Blank, Json
  <2>2. at \in [0..3 -> Phases] /\ num \in [0..3 -> n..n]
    BY DEF Phases
  <2>3. /\ Resume[1].f = "event" /\ Resume[1].v = 2
        /\ Resume[2].f = "data" /\ Resume[2].v = Json /\ Resume[3] = Blank
    BY DEF Resume, Line
  <2>4. \A i \in 1..3 : Follows(at[i - 1], num[i - 1], Resume[i], at[i], num[i], miss)
    BY <2>3 DEF Follows, Message
  <2>5. Run(Resume, at, num, n, n, miss)
    BY <2>1, <2>2, <2>4 DEF Run
  <2> QED BY <2>1, <2>5 DEF Runs
<1>4. Runs(Ping, n, n, miss) /\ Len(Ping) = 2
  <2> DEFINE at == [i \in 0..2 |-> "between"]
             num == [i \in 0..2 |-> n]
  <2>1. Ping \in Seq(Lines) /\ Len(Ping) = 2
    BY DEF Ping, Lines, Fields, Line, Blank
  <2>2. at \in [0..2 -> Phases] /\ num \in [0..2 -> n..n]
    BY DEF Phases
  <2>3. Ping[1].f = "comment" /\ Ping[2] = Blank
    BY DEF Ping, Line
  <2>4. \A i \in 1..2 : Follows(at[i - 1], num[i - 1], Ping[i], at[i], num[i], miss)
    BY <2>3 DEF Follows
  <2>5. Run(Ping, at, num, n, n, miss)
    BY <2>1, <2>2, <2>4 DEF Run
  <2> QED BY <2>1, <2>5 DEF Runs
<1>5. ASSUME NEW m \in Nat, Skips(n, m, miss) PROVE Runs(Broadcast(m), n, m, miss)
  <2> DEFINE B == Broadcast(m)
             at == [i \in 0..3 |-> IF i = 1 THEN "id" ELSE IF i = 2 THEN "data"
                                   ELSE "between"]
             num == [i \in 0..3 |-> IF i = 0 THEN n ELSE m]
  <2>0. n < m
    BY <1>5 DEF Skips
  <2>1. B \in Seq(Lines) /\ Len(B) = 3
    BY DEF Broadcast, Lines, Fields, Line, Blank
  <2>2. at \in [0..3 -> Phases] /\ num \in [0..3 -> n .. m]
    BY <2>0 DEF Phases
  <2>3. /\ B[1].f = "id" /\ B[1].v = m
        /\ B[2].f = "data" /\ B[2].v = m /\ B[3] = Blank
    BY DEF Broadcast, Line
  <2> HIDE DEF B
  <2>4. \A i \in 1..3 : Follows(at[i - 1], num[i - 1], B[i], at[i], num[i], miss)
    BY <1>5, <2>3 DEF Follows
  <2>5. Run(B, at, num, n, m, miss)
    BY <2>1, <2>2, <2>4 DEF Run
  <2> QED BY <2>1, <2>5 DEF Runs, B
<1> QED BY <1>1, <1>2, <1>3, <1>4, <1>5

\* The frames of some events, after a body that has come to the number base:
\* the events between that are left out are missed, as are those after the last.
LEMMA RunOfFrames ==
  ASSUME NEW miss, NEW ids, NEW base \in Nat, NEW from \in Nat, NEW to \in Nat,
         base <= from, from <= to, Gap(base, from, miss),
         \A id \in from + 1 .. to : id \in ids \/ id \in miss
  PROVE  /\ \E last \in base..to : /\ Runs(Frames(ids, from, to), base, last, miss)
                                   /\ Gap(last, to, miss)
         /\ Len(Frames(ids, from, to)) <= 3 * (to - from)
<1> DEFINE c == to - from
           one(i) == IF from + i \in ids THEN Broadcast(from + i) ELSE <<>>
           seqs == [i \in 1..c |-> one(i)]
           step == [x \in Seq(Lines) \X Nat |-> x[1] \o one(x[2])]
           flatten[i \in 1..Len(seqs)] ==
             IF i = 1 THEN seqs[i] ELSE flatten[i - 1] \o seqs[i]
           Fits(s, i) == /\ \E last \in base .. from + i : /\ Runs(s, base, last, miss)
                                                          /\ Gap(last, from + i, miss)
                         /\ Len(s) <= 3 * i
           T == {i \in Nat : i > 0 /\ i <= c => Fits(flatten[i], i)}
<1>1. c \in Nat /\ from + c = to
  OBVIOUS
<1>2. \A i \in Nat : one(i) \in Seq(Lines)
  <2>1. \A i \in Nat : Broadcast(from + i) \in Seq(Lines)
    BY DEF Broadcast, Lines, Fields, Line, Blank
  <2>2. <<>> \in Seq(Lines)
    OBVIOUS
  <2> QED BY <2>1, <2>2
\* One more frame, or none.
<1>30. ASSUME NEW s, NEW i \in Nat, i < c, Fits(s, i) PROVE Fits(s \o one(i + 1), i + 1)
  <2> DEFINE m == from + (i + 1)
  <2>1. PICK last \in base .. from + i : Runs(s, base, last, miss) /\ Gap(last, from + i, miss)
    BY <1>30
  <2>2. /\ last \in Nat /\ base <= last /\ m \in Nat /\ last < m /\ m \in from + 1 .. to
        /\ m - 1 = from + i /\ last \in base..m /\ m \in base..m
    BY <1>1, <1>30
  <2>3. s \in Seq(Lines) /\ Len(s) <= 3 * i
    BY <1>30, <2>1 DEF Runs
  <2>4. CASE m \in ids
    <3>1. one(i + 1) = Broadcast(m) /\ Skips(last, m, miss)
      BY <2>1, <2>2, <2>4 DEF Skips
    <3>2. Runs(Broadcast(m), last, m, miss) /\ Len(Broadcast(m)) = 3
      BY <2>2, <3>1, RunFrames DEF Broadcast
    <3> DEFINE B == Broadcast(m)
    <3> HIDE DEF m, one
    <3>6. /\ base \in Nat /\ last \in Nat /\ m \in Nat /\ base <= last /\ last <= m
          /\ Runs(s, base, last, miss) /\ Runs(B, last, m, miss)
      BY <2>1, <2>2, <3>2
    <3>7. Runs(s \o B, base, m, miss) /\ Len(s \o B) = Len(s) + Len(B)
      <4> HIDE DEF B
      <4> QED BY <3>6, RunConcat
    <3>3. /\ Runs(s \o Broadcast(m), base, m, miss)
          /\ Len(s \o Broadcast(m)) = Len(s) + Len(Broadcast(m))
      BY <3>7
    <3>4. Gap(m, m, miss)
      BY <2>2 DEF Gap
    <3>5. Len(s \o Broadcast(m)) <= 3 * (i + 1)
      BY <2>3, <3>2, <3>3
    <3> QED BY <2>2, <3>1, <3>3, <3>4, <3>5 DEF m
  <2>5. CASE m \notin ids
    <3>1. one(i + 1) = <<>> /\ s \o <<>> = s
      BY <2>3, <2>5
    <3>2. Gap(last, m, miss)
      BY <2>1, <2>2, <2>5 DEF Gap
    <3>3. Len(s) <= 3 * (i + 1)
      BY <2>3
    <3> HIDE DEF one
    <3> QED BY <2>1, <2>2, <3>1, <3>2, <3>3
  <2> QED BY <2>4, <2>5
<1>31. Fits(<<>>, 0)
  <2>1. Runs(<<>>, base, base, miss) /\ Len(<<>>) = 0
    BY RunFrames
  <2> QED BY <2>1
<1> HIDE DEF c, Fits
<1>3. /\ seqs \in Seq(Seq(Lines)) /\ Len(seqs) = c
      /\ \A i \in 1..c : seqs[i] = one(i)
  <2>1. \A i \in 1..c : one(i) \in Seq(Lines)
    BY <1>1, <1>2
  <2> HIDE DEF one
  <2> QED BY <1>1, <2>1
<1>4. CASE c = 0
  <2>1. seqs = <<>>
    BY <1>3, <1>4, EmptySeq
  <2>2. Frames(ids, from, to) = seqs
    BY <1>3, <1>4 DEF Frames, FlattenSeq, c
  <2>3. from + 0 = to /\ 3 * (to - from) = 3 * 0
    BY <1>1, <1>4
  <2> QED BY <1>31, <2>1, <2>2, <2>3 DEF Fits
<1>5. CASE c # 0
  <2>1. Frames(ids, from, to) = flatten[c]
    BY <1>3, <1>5 DEF Frames, FlattenSeq, c
  <2> HIDE DEF seqs, one
  <2>2. flatten = [i \in 1..c |-> IF i = 1 THEN seqs[i] ELSE flatten[i - 1] \o seqs[i]]
    <3>1. /\ <<>> \in Seq(Lines)
          /\ step \in Steps(Seq(Lines))
          /\ \A x \in Seq(Lines), i \in Nat : step[<<x, i>>] = x \o one(i)
      <4>1. ASSUME NEW x \in Seq(Lines), NEW i \in Nat
            PROVE  x \o one(i) \in Seq(Lines)
        BY <1>2
      <4>2. \A x \in Seq(Lines) \X Nat : x[1] \o one(x[2]) \in Seq(Lines)
        BY <4>1
      <4>3. step \in [Seq(Lines) \X Nat -> Seq(Lines)]
        BY <4>2
      <4>4. \A x \in Seq(Lines), i \in Nat : <<x, i>> \in Seq(Lines) \X Nat
        OBVIOUS
      <4>5. \A x \in Seq(Lines), i \in Nat : step[<<x, i>>] = x \o one(i)
        BY <4>4
      <4> HIDE DEF step
      <4>6. <<>> \in Seq(Lines)
        OBVIOUS
      <4>7. step \in Steps(Seq(Lines))
        BY <4>3 DEF Steps
      <4> QED BY <4>5, <4>6, <4>7
    <3> HIDE DEF step
    <3>2. PICK f : Recurses(f, Seq(Lines), <<>>, step)
      BY <3>1, Recursion
    <3> DEFINE g == [i \in 1..c |-> f[i]]
    <3>3. ASSUME NEW i \in 1..c
          PROVE  g[i] = IF i = 1 THEN seqs[i] ELSE g[i - 1] \o seqs[i]
      <4>1. /\ i \in Nat \ {0} /\ i - 1 \in Nat /\ f[i] = step[<<f[i - 1], i>>]
            /\ f[i - 1] \in Seq(Lines)
        <5> HIDE DEF g
        <5>1. i \in Nat \ {0} /\ i - 1 \in Nat
          BY <1>1
        <5>2. \A j \in Nat : f[j] \in Seq(Lines)
          BY <3>2 DEF Recurses
        <5>3. \A j \in Nat \ {0} : f[j] = step[<<f[j - 1], j>>]
          BY <3>2 DEF Recurses
        <5> QED BY <5>1, <5>2, <5>3
      <4>2. g[i] = f[i - 1] \o seqs[i]
        BY <1>3, <3>1, <4>1
      <4>3. CASE i = 1
        <5>1. f[i - 1] = <<>>
          BY <3>2, <4>3 DEF Recurses
        <5>2. seqs[i] \in Seq(Lines)
          BY <1>3
        <5> QED BY <4>2, <4>3, <5>1, <5>2, ConcatEmptySeq
      <4>4. CASE i # 1
        <5>1. i - 1 \in 1..c /\ g[i - 1] = f[i - 1]
          BY <1>1, <4>4
        <5> QED BY <4>2, <4>4, <5>1
      <4> QED BY <4>3, <4>4
    <3>4. g = [i \in 1..c |-> IF i = 1 THEN seqs[i] ELSE g[i - 1] \o seqs[i]]
      BY <3>3
    <3> HIDE DEF g
    <3> QED BY <1>3, <3>4
  <2> HIDE DEF flatten
  <2>3. 0 \in T
    OBVIOUS
  <2>4. ASSUME NEW i \in Nat, i \in T PROVE i + 1 \in T
    <3> SUFFICES ASSUME i + 1 <= c PROVE Fits(flatten[i + 1], i + 1)
      OBVIOUS
    <3>1. i + 1 \in 1..c /\ seqs[i + 1] = one(i + 1) /\ i < c
      BY <1>1, <1>3
    <3>3. CASE i = 0
      <4>1. flatten[i + 1] = one(i + 1)
        BY <2>2, <3>1, <3>3
      <4>2. <<>> \o one(i + 1) = one(i + 1)
        BY <1>2
      <4>3. Fits(<<>>, i)
        BY <1>31, <3>3
      <4>4. Fits(<<>> \o one(i + 1), i + 1)
        BY <1>30, <3>1, <4>3
      <4> QED BY <4>1, <4>2, <4>4
    <3>4. CASE i # 0
      <4>0. i + 1 # 1 /\ (i + 1) - 1 = i
        BY <3>4
      <4>1. flatten[i + 1] = flatten[i] \o one(i + 1)
        BY <2>2, <3>1, <4>0
      <4>2. Fits(flatten[i], i)
        BY <1>1, <2>4, <3>1, <3>4
      <4>3. Fits(flatten[i] \o one(i + 1), i + 1)
        BY <1>30, <3>1, <4>2
      <4> QED BY <4>1, <4>3
    <3> QED BY <3>3, <3>4
  <2> HIDE DEF T
  <2>5. c \in T
    BY <1>1, <2>3, <2>4, Induction
  <2>6. c > 0
    BY <1>1, <1>5
  <2>7. Fits(flatten[c], c)
    BY <2>5, <2>6 DEF T
  <2>8. Fits(Frames(ids, from, to), c)
    BY <2>1, <2>7
  <2> QED BY <1>1, <2>8 DEF c, Fits
<1> QED BY <1>4, <1>5

-----------------------------------------------------------------------------
(* readSSEEvent on what is left of a body.                                 *)

\* The lines that arrived whole.
Whole(lines, end) == IF end.cut THEN Len(lines) - 1 ELSE Len(lines)

\* The lines are the beginning of a body: they follow each other, and one that
\* is cut is the beginning of one that follows.  In torn is the event whose
\* data a clean end cut.
Left(lines, end, torn, miss, at, num, lo, hi) ==
  LET w == Whole(lines, end)
  IN  /\ w \in Nat
      /\ at \in [0..w -> Phases] /\ num \in [0..w -> 0..hi]
      /\ at[0] = "between" /\ num[0] = lo
      /\ \A i \in 1..w : Follows(at[i - 1], num[i - 1], lines[i], at[i], num[i], miss)
      /\ end.cut => \E line \in Lines, b \in Phases, m \in 0..hi :
                      /\ Follows(at[w], num[w], line, b, m, miss) /\ line # Blank
                      /\ lines[w + 1] \in Beginnings(line)
                      /\ end.clean /\ lines[w + 1] = Line("data", Torn) =>
                           line.v \in torn \cup {Json}

\* The variables of readSSEEvent in each phase, k lines into an event, and when
\* the event is complete.
Reading(ev, a, n, lo, k, miss) ==
  /\ ev \in Evs /\ ~ev.done /\ ev.used = k
  /\ ev.gotData <=> a \in {"header", "data"}
  /\ a \in {"between", "id", "data"} <=> ev.type = Message
  /\ IF a \in {"id", "data"} THEN Skips(lo, n, miss) /\ ev.id = n ELSE n = lo /\ ev.id = 0
  /\ a = "data" => ev.data = n

Complete(ev, a, n, lo, k, miss) ==
  /\ ev \in Evs /\ ev.done /\ ev.used = k
  /\ a = "between"
  /\ \/ n = lo /\ ev.type # Message /\ ev.id = 0
     \/ Skips(lo, n, miss) /\ ev.type = Message /\ ev.id = n /\ ev.data = n

\* The event brings the reader from one number to another: that of a header,
\* or the broadcast n.
Brings(ev, n, lo, torn, miss) ==
  \/ n = lo /\ ev.type # Message /\ ev.id = 0
  \/ /\ Skips(lo, n, miss) /\ ev.type = Message /\ ev.id = n
     /\ ev.data = n \/ (ev.data = Torn /\ n \in torn)

\* After u lines, a frame is complete, or nothing is left.
Between(u, lines, end, at, num, n) ==
  u < Len(lines) => u <= Whole(lines, end) /\ at[u] = "between" /\ num[u] = n

LEMMA ReadLine ==
  ASSUME NEW miss, NEW ev, NEW line \in Lines, NEW a \in Phases, NEW b \in Phases,
         NEW n \in Nat, NEW m \in Nat, NEW lo \in Nat, NEW k \in Nat,
         Reading(ev, a, n, lo, k, miss), Follows(a, n, line, b, m, miss)
  PROVE  \/ Reading(Take(ev, line), b, m, lo, k + 1, miss)
         \/ Complete(Take(ev, line), b, m, lo, k + 1, miss)
<1> DEFINE r == Take(ev, line)
<1>1. ev \in Evs /\ ~ev.done /\ ev.used = k
  BY DEF Reading
<1>2. r \in Evs
  BY <1>1, TakeType
<1>3. /\ r.used = ev.used + 1
      /\ r.type = (IF line.f = "event" THEN line.v ELSE ev.type)
      /\ r.id = (IF line.f = "id" THEN line.v ELSE ev.id)
      /\ r.data = (IF line.f = "data" THEN line.v ELSE ev.data)
      /\ r.gotData <=> (ev.gotData \/ line.f = "data")
      /\ r.done <=> (ev.gotData /\ line.f = "blank")
  BY <1>1, TakeLine
<1> HIDE DEF r
<1>4. CASE a = "between" /\ line.f \in {"retry", "comment"} /\ b = "between" /\ m = n
  BY <1>1, <1>2, <1>3, <1>4 DEF Reading, r
<1>5. CASE a = "between" /\ line.f = "event" /\ line.v # Message /\ b = "event" /\ m = n
  BY <1>1, <1>2, <1>3, <1>5 DEF Reading, r
<1>6. CASE a = "event" /\ line.f = "data" /\ line.v = Json /\ b = "header" /\ m = n
  BY <1>1, <1>2, <1>3, <1>6 DEF Reading, r
<1>7. CASE a = "between" /\ line.f = "id" /\ line.v = m /\ b = "id" /\ Skips(n, m, miss)
  BY <1>1, <1>2, <1>3, <1>7 DEF Reading, r
<1>8. CASE a = "id" /\ line.f = "data" /\ line.v = n /\ b = "data" /\ m = n
  BY <1>1, <1>2, <1>3, <1>8 DEF Reading, r
<1>9. CASE a \in {"between", "header", "data"} /\ line = Blank /\ b = "between" /\ m = n
  <2>1. line.f = "blank"
    BY <1>9 DEF Blank, Line
  <2>2. CASE a = "between"
    BY <1>1, <1>2, <1>3, <1>9, <2>1, <2>2 DEF Reading, r
  <2>3. CASE a = "header"
    BY <1>1, <1>2, <1>3, <1>9, <2>1, <2>3 DEF Reading, Complete, r
  <2>4. CASE a = "data"
    BY <1>1, <1>2, <1>3, <1>9, <2>1, <2>4 DEF Reading, Complete, r
  <2> QED BY <1>9, <2>2, <2>3, <2>4
<1> QED BY <1>4, <1>5, <1>6, <1>7, <1>8, <1>9 DEF Follows

LEMMA ReadLines ==
  ASSUME NEW lines \in Seq(Lines), NEW end \in Endings, NEW torn, NEW miss, NEW at, NEW num,
         NEW lo \in Nat, NEW hi \in Nat, Left(lines, end, torn, miss, at, num, lo, hi),
         NEW G, Loop(G, lines), NEW k \in 0 .. Whole(lines, end)
  PROVE  \/ Reading(G[k], at[k], num[k], lo, k, miss)
         \/ \E j \in 1..k : Complete(G[j], at[j], num[j], lo, j, miss)
<1> DEFINE w == Whole(lines, end)
           P(i) == \/ Reading(G[i], at[i], num[i], lo, i, miss)
                   \/ \E j \in 1..i : Complete(G[j], at[j], num[j], lo, j, miss)
           T == {i \in Nat : i <= w => P(i)}
<1>1. w \in Nat /\ w <= Len(lines) /\ Len(lines) \in Nat
  BY DEF Left, Whole
<1>2. /\ at \in [0..w -> Phases] /\ num \in [0..w -> 0..hi]
      /\ at[0] = "between" /\ num[0] = lo
      /\ \A i \in 1..w : Follows(at[i - 1], num[i - 1], lines[i], at[i], num[i], miss)
  BY DEF Left
<1> HIDE DEF w
<1>3. 0 \in T
  <2>1. Reading(G[0], at[0], num[0], lo, 0, miss)
    BY <1>1, <1>2 DEF Reading, Loop, NoEvent, Evs, Message, Json
  <2> QED BY <2>1
<1>4. ASSUME NEW i \in Nat, i \in T PROVE i + 1 \in T
  <2> SUFFICES ASSUME i + 1 <= w PROVE P(i + 1)
    OBVIOUS
  <2>1. /\ i \in 0..w /\ i + 1 \in 0..w /\ i + 1 \in 1..w /\ (i + 1) - 1 = i
        /\ i + 1 \in 1..Len(lines)
    BY <1>1
  <2>2. P(i)
    BY <1>1, <1>4, <2>1
  <2>3. CASE Reading(G[i], at[i], num[i], lo, i, miss)
    <3>1. G[i + 1] = Take(G[i], lines[i + 1])
      BY <2>1 DEF Loop
    <3>2. Follows(at[i], num[i], lines[i + 1], at[i + 1], num[i + 1], miss)
      BY <1>2, <2>1
    <3>3. lines[i + 1] \in Lines /\ at[i] \in Phases /\ at[i + 1] \in Phases
      BY <1>2, <2>1, ElementOfSeq
    <3>4. num[i] \in Nat /\ num[i + 1] \in Nat
      BY <1>2, <2>1
    <3>5. \/ Reading(G[i + 1], at[i + 1], num[i + 1], lo, i + 1, miss)
          \/ Complete(G[i + 1], at[i + 1], num[i + 1], lo, i + 1, miss)
      BY <2>3, <3>1, <3>2, <3>3, <3>4, ReadLine
    <3>6. i + 1 \in 1 .. i + 1
      OBVIOUS
    <3> QED BY <3>5, <3>6
  <2>4. CASE \E j \in 1..i : Complete(G[j], at[j], num[j], lo, j, miss)
    <3>1. \A j \in 1..i : j \in 1 .. i + 1
      OBVIOUS
    <3> QED BY <2>4, <3>1
  <2> QED BY <2>2, <2>3, <2>4
<1> HIDE DEF T
<1>5. Nat \subseteq T
  BY <1>3, <1>4, Induction
<1>6. k \in Nat /\ k <= w
  BY <1>1 DEF w
<1> QED BY <1>5, <1>6 DEF T

\* The beginning of a line that is cut.
LEMMA Parts ==
  ASSUME NEW line \in Lines, line # Blank, line.f # "blank", NEW part \in Beginnings(line)
  PROVE  /\ part \in Lines /\ part.f # "blank"
         /\ \/ part = line \/ part.f = "unknown"
            \/ line.f = "id" /\ part.f = "id"
            \/ line.f = "data" /\ part = Line("data", Torn)
<1>1. line.f \in Fields /\ line.v \in Int
  BY DEF Lines
<1>2. CASE part = line \/ part = Line("unknown", 0)
  BY <1>1, <1>2 DEF Line, Lines, Fields
<1>3. CASE line.f = "id" /\ part \notin {line, Line("unknown", 0)}
  <2>1. part \in {Line("id", n) : n \in 0 .. line.v - 1}
    BY <1>3 DEF Beginnings
  <2> QED BY <1>1, <1>3, <2>1 DEF Line, Lines, Fields
<1>4. CASE line.f = "data" /\ part \notin {line, Line("unknown", 0)}
  <2>1. part = Line("data", Torn)
    BY <1>4 DEF Beginnings
  <2> QED BY <1>1, <1>4, <2>1 DEF Line, Lines, Fields, Torn
<1>5. CASE line.f \notin {"id", "data"} /\ part \notin {line, Line("unknown", 0)}
  BY <1>5 DEF Beginnings
<1> QED BY <1>2, <1>3, <1>4, <1>5

LEMMA ReadPart ==
  ASSUME NEW miss, NEW ev, NEW line \in Lines, NEW a \in Phases, NEW b \in Phases,
         NEW n \in Nat, NEW m \in Nat, NEW lo \in Nat, NEW k \in Nat,
         Reading(ev, a, n, lo, k, miss), Follows(a, n, line, b, m, miss), line # Blank,
         NEW part \in Beginnings(line), NEW r, r = Take(ev, part)
  PROVE  /\ part \in Lines /\ r \in Evs /\ ~r.done /\ r.used = k + 1
         /\ r.gotData =>
              \/ r.type # Message /\ r.id = 0
              \/ /\ r.type = Message /\ r.id = m /\ Skips(lo, m, miss)
                 /\ \/ r.data = r.id
                    \/ r.data = Torn /\ part = Line("data", Torn) /\ line.v = m
<1>1. ev \in Evs /\ ~ev.done /\ ev.used = k
  BY DEF Reading
<1>2. line.f # "blank"
  BY DEF Follows, Lines
<1>3. /\ part \in Lines /\ part.f # "blank"
      /\ \/ part = line \/ part.f = "unknown"
         \/ line.f = "id" /\ part.f = "id"
         \/ line.f = "data" /\ part = Line("data", Torn)
  BY <1>2, Parts
<1>4. r \in Evs
  BY <1>1, <1>3, TakeType
<1>5. /\ r.used = ev.used + 1
      /\ r.type = (IF part.f = "event" THEN part.v ELSE ev.type)
      /\ r.id = (IF part.f = "id" THEN part.v ELSE ev.id)
      /\ r.data = (IF part.f = "data" THEN part.v ELSE ev.data)
      /\ r.gotData <=> (ev.gotData \/ part.f = "data")
      /\ r.done <=> (ev.gotData /\ part.f = "blank")
  BY <1>1, <1>3, TakeLine
<1>6. a \notin {"header", "data"} /\ ~ev.gotData
  BY <1>2 DEF Follows, Reading
<1>7. ~r.done /\ r.used = k + 1
  BY <1>1, <1>3, <1>5
<1>8. ASSUME r.gotData
      PROVE  \/ r.type # Message /\ r.id = 0
             \/ /\ r.type = Message /\ r.id = m /\ Skips(lo, m, miss)
                /\ \/ r.data = r.id
                   \/ r.data = Torn /\ part = Line("data", Torn) /\ line.v = m
  <2>1. part.f = "data" /\ line.f = "data"
    BY <1>3, <1>5, <1>6, <1>8 DEF Line
  <2>2. r.type = ev.type /\ r.id = ev.id /\ r.data = part.v
    BY <1>5, <2>1
  <2>3. CASE a = "event"
    BY <2>2, <2>3 DEF Reading
  <2>4. CASE a = "id"
    <3>1. /\ ev.type = Message /\ ev.id = n /\ Skips(lo, n, miss) /\ m = n /\ line.v = n
      BY <2>1, <2>4 DEF Reading, Follows
    <3>2. CASE part = line
      BY <2>2, <3>1, <3>2
    <3>3. CASE part = Line("data", Torn)
      <4>1. part.v = Torn
        BY <3>3 DEF Line
      <4> QED BY <2>2, <3>1, <3>3, <4>1
    <3> QED BY <1>3, <2>1, <3>2, <3>3
  <2> QED BY <1>6, <2>1, <2>3, <2>4 DEF Follows
<1> QED BY <1>3, <1>4, <1>7, <1>8

\* What readSSEEvent makes of the beginning of a body that comes after
\* the number lo: the event of a header, or the next broadcast it carries.  Its data is torn
\* only if a clean end cut it, at the end of the body.
LEMMA ReadsEvent ==
  ASSUME NEW lines \in Seq(Lines), NEW end \in Endings, NEW torn, NEW miss, NEW at, NEW num,
         NEW lo \in Nat, NEW hi \in Nat, Left(lines, end, torn, miss, at, num, lo, hi),
         NEW ev, ev = ReadSSEEvent(lines, end.cut, end.clean), ev.done
  PROVE  /\ ev.used \in 1..Len(lines)
         /\ \E n \in 0..hi : /\ Brings(ev, n, lo, torn, miss)
                            /\ Between(ev.used, lines, end, at, num, n)
<1> DEFINE w == Whole(lines, end)
           len == Len(lines)
<1>1. /\ w \in Nat /\ w <= len /\ len \in Nat
      /\ (end.cut => w + 1 = len) /\ (~end.cut => w = len)
  BY DEF Left, Whole
<1>2. PICK G : Loop(G, lines) /\ FoldLeft(Take, NoEvent, lines) = G[len]
  BY FoldLines
<1>3. G[len] \in Evs
  BY <1>1, <1>2 DEF Loop
<1>4. ev = IF G[len].done THEN G[len] ELSE AtEnd(G[len], end.cut, end.clean)
  BY <1>2 DEF ReadSSEEvent
<1>5. \A i \in 0..w : at[i] \in Phases /\ num[i] \in 0..hi
  BY DEF Left
<1>6. CASE \E j \in 1..w : Complete(G[j], at[j], num[j], lo, j, miss)
  <2>1. PICK j \in 1..w : Complete(G[j], at[j], num[j], lo, j, miss)
    BY <1>6
  <2>2. j \in 0..len /\ G[j].done /\ j \in 0..w
    BY <1>1, <2>1 DEF Complete
  <2>3. G[len] = G[j]
    BY <1>2, <2>2, LoopStops
  <2>4. ev = G[j]
    BY <1>4, <2>2, <2>3
  <2>5. num[j] \in 0..hi
    BY <1>5, <2>2
  <2>6. ev.used = j /\ at[ev.used] = "between"
    BY <2>1, <2>4 DEF Complete
  <2>7. \/ num[j] = lo /\ ev.type # Message /\ ev.id = 0
        \/ Skips(lo, num[j], miss) /\ ev.type = Message /\ ev.id = num[j] /\ ev.data = num[j]
    BY <2>1, <2>4 DEF Complete
  <2>8. num[j] \in 0..hi /\ j <= w /\ j \in 1..len
    BY <1>1, <2>1, <2>5
  <2> HIDE DEF w, len
  <2> QED BY <2>6, <2>7, <2>8 DEF Brings, Between, w, len
<1>7. CASE Reading(G[w], at[w], num[w], lo, w, miss) /\ ~end.cut
  <2>1. len = w /\ ~G[len].done
    BY <1>1, <1>7 DEF Reading
  <2>2. ev = [G[len] EXCEPT !.done = G[len].gotData /\ (end.cut => end.clean)]
    BY <1>4, <2>1 DEF AtEnd
  <2>3. /\ ev.used = G[w].used /\ ev.type = G[w].type /\ ev.id = G[w].id
        /\ ev.data = G[w].data /\ G[w].gotData
    BY <1>3, <2>1, <2>2 DEF Evs
  <2>4. at[w] \in {"header", "data"} /\ ev.used = w
    BY <1>7, <2>3 DEF Reading
  <2>5. w > 0
    BY <1>1, <2>4 DEF Left
  <2>6. num[w] \in 0..hi
    BY <1>1, <1>5
  <2>7. \/ num[w] = lo /\ ev.type # Message /\ ev.id = 0
        \/ Skips(lo, num[w], miss) /\ ev.type = Message /\ ev.id = num[w] /\ ev.data = num[w]
    BY <1>7, <2>3, <2>4 DEF Reading
  <2>8. w \in 1..len /\ ~(w < len)
    BY <1>1, <2>1, <2>5
  <2> HIDE DEF w, len
  <2> QED BY <2>4, <2>6, <2>7, <2>8 DEF Brings, Between, w, len
<1>8. CASE Reading(G[w], at[w], num[w], lo, w, miss) /\ end.cut
  <2>1. len = w + 1 /\ len \in 1..len
    BY <1>1, <1>8
  <2>2. PICK line \in Lines, b \in Phases, m \in 0..hi :
          /\ Follows(at[w], num[w], line, b, m, miss) /\ line # Blank
          /\ lines[w + 1] \in Beginnings(line)
          /\ end.clean /\ lines[w + 1] = Line("data", Torn) => line.v \in torn \cup {Json}
    BY <1>8 DEF Left
  <2>3. G[len] = Take(G[w], lines[w + 1])
    BY <1>1, <1>2, <2>1 DEF Loop
  <2>4. at[w] \in Phases /\ num[w] \in Nat /\ m \in Nat
    BY <1>1, <1>5
  <2>5. /\ ~G[len].done /\ G[len].used = w + 1
        /\ G[len].gotData =>
             \/ G[len].type # Message /\ G[len].id = 0
             \/ /\ G[len].type = Message /\ G[len].id = m /\ Skips(lo, m, miss)
                /\ \/ G[len].data = G[len].id
                   \/ /\ G[len].data = Torn /\ lines[w + 1] = Line("data", Torn)
                      /\ line.v = m
    BY <1>1, <1>8, <2>2, <2>3, <2>4, ReadPart
  <2>6. ev = [G[len] EXCEPT !.done = G[len].gotData /\ (end.cut => end.clean)]
    BY <1>4, <2>5 DEF AtEnd
  <2>7. /\ ev.used = G[len].used /\ ev.type = G[len].type /\ ev.id = G[len].id
        /\ ev.data = G[len].data /\ G[len].gotData /\ end.clean
    BY <1>3, <1>8, <2>6 DEF Evs
  <2>0. ev.used \in 1..Len(lines) /\ ~(ev.used < Len(lines))
    <3>1. ev.used = w + 1
      BY <2>5, <2>7
    <3> QED BY <1>1, <2>1, <3>1
  <2>8. CASE ev.type # Message /\ ev.id = 0
    <3>1. lo \in 0..hi
      BY <1>1, <1>5 DEF Left
    <3> QED BY <2>0, <2>8, <3>1 DEF Brings, Between
  <2>9. CASE ev.type = Message /\ ev.id = m /\ Skips(lo, m, miss)
    <3>2. ev.data = m \/ (ev.data = Torn /\ m \in torn)
      <4>1. m # Json
        BY <1>1, <2>4, <2>9 DEF Json, Skips
      <4> QED BY <2>2, <2>5, <2>7, <2>9, <4>1 DEF Message
    <3> QED BY <2>0, <2>2, <2>9, <3>2 DEF Brings, Between
  <2> QED BY <2>5, <2>7, <2>8, <2>9
<1> QED
  <2>1. w \in 0..w
    BY <1>1
  <2>2. \/ Reading(G[w], at[w], num[w], lo, w, miss)
        \/ \E j \in 1..w : Complete(G[j], at[j], num[j], lo, j, miss)
    BY <1>2, <2>1, ReadLines
  <2> QED BY <1>6, <1>7, <1>8, <2>2

LeftFrom(lines, end, torn, miss, lo, hi) ==
  \E at, num : Left(lines, end, torn, miss, at, num, lo, hi)

\* A suffix of a beginning, from between two frames.
After(lines, u) == SubSeq(lines, u + 1, Len(lines))

\* How it ends: as before if some of it is left.
Ends(end2, end, lines, u) ==
  /\ u < Len(lines) => end2 = end
  /\ u = Len(lines) => ~end2.cut

LEMMA LeftSuffix ==
  ASSUME NEW lines \in Seq(Lines), NEW end, NEW torn, NEW miss, NEW at, NEW num,
         NEW lo \in Nat, NEW hi \in Nat, Left(lines, end, torn, miss, at, num, lo, hi),
         NEW u \in 1..Len(lines), NEW n \in 0..hi,
         Between(u, lines, end, at, num, n),
         NEW end2, Ends(end2, end, lines, u)
  PROVE  LeftFrom(After(lines, u), end2, torn, miss, n, hi)
<1> DEFINE w == Whole(lines, end)
           len == Len(lines)
           lines2 == After(lines, u)
<1>1. /\ w \in Nat
      /\ at \in [0..w -> Phases] /\ num \in [0..w -> 0..hi]
      /\ \A i \in 1..w : Follows(at[i - 1], num[i - 1], lines[i], at[i], num[i], miss)
      /\ end.cut => \E line \in Lines, b \in Phases, m \in 0..hi :
                      /\ Follows(at[w], num[w], line, b, m, miss) /\ line # Blank
                      /\ lines[w + 1] \in Beginnings(line)
                      /\ end.clean /\ lines[w + 1] = Line("data", Torn) =>
                           line.v \in torn \cup {Json}
  BY DEF Left
<1>2. /\ len \in Nat /\ u \in Nat /\ u > 0 /\ u <= len /\ n \in Nat
      /\ (end.cut => w + 1 = len) /\ (~end.cut => w = len)
  BY <1>1 DEF Whole
<1>3. /\ lines2 \in Seq(Lines) /\ Len(lines2) = len - u
      /\ \A i \in 1 .. len - u : lines2[i] = lines[i + u]
  BY <1>2 DEF After
<1> HIDE DEF lines2
<1>4. CASE u = len
  <2>1. Len(lines2) = 0 /\ ~end2.cut
    BY <1>2, <1>3, <1>4 DEF Ends
  <2> DEFINE at2 == [i \in 0..0 |-> "between"]
             num2 == [i \in 0..0 |-> n]
  <2>2. /\ at2 \in [0..0 -> Phases] /\ num2 \in [0..0 -> 0..hi]
        /\ at2[0] = "between" /\ num2[0] = n
    BY DEF Phases
  <2>3. Whole(lines2, end2) = 0
    BY <2>1 DEF Whole
  <2> HIDE DEF at2, num2
  <2>4. Left(lines2, end2, torn, miss, at2, num2, n, hi)
    BY <2>1, <2>2, <2>3 DEF Left
  <2> QED BY <2>4 DEF LeftFrom, lines2
<1>5. CASE u # len
  <2> DEFINE w2 == w - u
             at2 == [i \in 0..w2 |-> at[i + u]]
             num2 == [i \in 0..w2 |-> num[i + u]]
  <2>1. u <= w /\ at[u] = "between" /\ num[u] = n /\ end2 = end
    BY <1>2, <1>5 DEF Between, Ends
  <2>2. w2 \in Nat /\ Whole(lines2, end2) = w2
    <3>1. w2 \in Nat
      BY <1>1, <1>2, <2>1
    <3>2. /\ end.cut => Len(lines2) - 1 = w2
          /\ ~end.cut => Len(lines2) = w2
      <4>1. w \in Nat
        BY <1>1
      <4> HIDE DEF w, len, at2, num2
      <4> QED BY <1>2, <1>3, <4>1
    <3>3. Whole(lines2, end) = w2
      BY <3>2 DEF Whole
    <3> QED BY <2>1, <3>1, <3>3
  <2> HIDE DEF w, len
  <2>3. \A i \in 0..w2 : i + u \in 0..w /\ at2[i] = at[i + u] /\ num2[i] = num[i + u]
    BY <1>1, <1>2, <2>1
  <2> HIDE DEF at2, num2
  <2>4. \A i \in 1..w2 : Follows(at2[i - 1], num2[i - 1], lines2[i], at2[i], num2[i], miss)
    <3> TAKE i \in 1..w2
    <3>1. /\ i + u \in 1..w /\ (i + u) - 1 = (i - 1) + u /\ i - 1 \in 0..w2
          /\ i \in 0..w2
      BY <1>1, <1>2, <2>1, <2>2
    <3>2. i \in 1 .. len - u
      <4>1. w <= len
        BY <1>1, <1>2
      <4> QED BY <1>1, <1>2, <2>1, <4>1
    <3>3. Follows(at[(i - 1) + u], num[(i - 1) + u], lines[i + u], at[i + u], num[i + u], miss)
      BY <1>1, <3>1
    <3> QED BY <1>3, <2>3, <3>1, <3>2, <3>3
  <2>5. at2 \in [0..w2 -> Phases] /\ num2 \in [0..w2 -> 0..hi]
    <3>1. \A i \in 0..w2 : at2[i] \in Phases /\ num2[i] \in 0..hi
      BY <1>1, <2>3
    <3> QED BY <3>1 DEF at2, num2
  <2>6. at2[0] = "between" /\ num2[0] = n
    <3>1. 0 \in 0..w2 /\ 0 + u = u
      BY <1>2, <2>2
    <3> QED BY <2>1, <2>3, <3>1
  <2>7. end.cut => /\ at2[w2] = at[w] /\ num2[w2] = num[w]
                   /\ lines2[w2 + 1] = lines[w + 1]
    <3>1. w2 \in 0..w2 /\ w2 + u = w
      BY <1>1, <1>2, <2>1, <2>2
    <3>2. end.cut => w2 + 1 \in 1 .. len - u /\ (w2 + 1) + u = w + 1
      BY <1>1, <1>2, <2>1, <2>2
    <3> QED BY <1>3, <2>3, <3>1, <3>2
  <2> HIDE DEF w2
  <2>8. end.cut => \E line \in Lines, b \in Phases, m \in 0..hi :
                     /\ Follows(at2[w2], num2[w2], line, b, m, miss) /\ line # Blank
                     /\ lines2[w2 + 1] \in Beginnings(line)
                     /\ end.clean /\ lines2[w2 + 1] = Line("data", Torn) =>
                          line.v \in torn \cup {Json}
    BY <1>1, <2>7
  <2>9. Left(lines2, end, torn, miss, at2, num2, n, hi)
    BY <2>1, <2>2, <2>4, <2>5, <2>6, <2>8 DEF Left
  <2>10. LeftFrom(lines2, end2, torn, miss, n, hi)
    BY <2>1, <2>9 DEF LeftFrom
  <2> QED BY <2>10 DEF lines2
<1> QED BY <1>4, <1>5

\* What readSSEEvent leaves is the beginning of the rest of the body.
LEMMA ReadsOn ==
  ASSUME NEW lines \in Seq(Lines), NEW end \in Endings, NEW torn, NEW miss,
         NEW lo \in Nat, NEW hi \in Nat, LeftFrom(lines, end, torn, miss, lo, hi),
         NEW ev, ev = ReadSSEEvent(lines, end.cut, end.clean), ev.done,
         NEW end2, Ends(end2, end, lines, ev.used)
  PROVE  /\ After(lines, ev.used) \in Seq(Lines)
         /\ Len(After(lines, ev.used)) <= Len(lines)
         /\ \E n \in 0..hi : /\ Brings(ev, n, lo, torn, miss)
                            /\ LeftFrom(After(lines, ev.used), end2, torn, miss, n, hi)
<1>1. PICK at, num : Left(lines, end, torn, miss, at, num, lo, hi)
  BY DEF LeftFrom
<1>2. /\ ev.used \in 1..Len(lines)
      /\ \E n \in 0..hi : /\ Brings(ev, n, lo, torn, miss)
                         /\ Between(ev.used, lines, end, at, num, n)
  BY <1>1, ReadsEvent
<1>3. PICK n \in 0..hi : /\ Brings(ev, n, lo, torn, miss)
                        /\ Between(ev.used, lines, end, at, num, n)
  BY <1>2
<1>4. LeftFrom(After(lines, ev.used), end2, torn, miss, n, hi)
  BY <1>1, <1>2, <1>3, LeftSuffix
<1>5. After(lines, ev.used) \in Seq(Lines) /\ Len(After(lines, ev.used)) <= Len(lines)
  BY <1>2 DEF After
<1> QED BY <1>3, <1>4, <1>5

\* A body cut after a line.
LEMMA CutAfter ==
  ASSUME NEW miss, NEW R, NEW from \in Nat, NEW to \in Nat, Runs(R, from, to, miss),
         NEW hi \in Nat, to <= hi, NEW k \in 0..Len(R),
         NEW end, ~end.cut, NEW torn
  PROVE  /\ SubSeq(R, 1, k) \in Seq(Lines) /\ Len(SubSeq(R, 1, k)) = k
         /\ LeftFrom(SubSeq(R, 1, k), end, torn, miss, from, hi)
<1> DEFINE lines == SubSeq(R, 1, k)
<1>1. PICK at, num : R \in Seq(Lines) /\ Run(R, at, num, from, to, miss)
  BY DEF Runs
<1>2. /\ Len(R) \in Nat /\ k \in Nat /\ k <= Len(R)
      /\ lines \in Seq(Lines) /\ Len(lines) = k /\ \A i \in 1..k : lines[i] = R[i]
  BY <1>1
<1> HIDE DEF lines
<1> DEFINE at2 == [i \in 0..k |-> at[i]]
           num2 == [i \in 0..k |-> num[i]]
<1>3. /\ at \in [0..Len(R) -> Phases] /\ num \in [0..Len(R) -> from..to]
      /\ at[0] = "between" /\ num[0] = from
      /\ \A i \in 1..Len(R) : Follows(at[i - 1], num[i - 1], R[i], at[i], num[i], miss)
  BY <1>1 DEF Run
<1>4. /\ at2 \in [0..k -> Phases] /\ num2 \in [0..k -> 0..hi]
      /\ at2[0] = "between" /\ num2[0] = from
  <2>1. \A i \in 0..k : i \in 0..Len(R)
    BY <1>2, <1>3
  <2>2. ASSUME NEW i \in 0..k PROVE at[i] \in Phases /\ num[i] \in 0..hi
    <3>1. i \in 0..Len(R)
      BY <2>1
    <3>2. at[i] \in Phases /\ num[i] \in from..to
      BY <1>3, <3>1
    <3> QED BY <3>2
  <2>3. 0 \in 0..k
    BY <1>2, <1>3
  <2> QED BY <1>2, <1>3, <2>2, <2>3
<1>5. \A i \in 0..k : at2[i] = at[i] /\ num2[i] = num[i]
  OBVIOUS
<1> HIDE DEF at2, num2
<1>6. \A i \in 1..k : Follows(at2[i - 1], num2[i - 1], lines[i], at2[i], num2[i], miss)
  <2> TAKE i \in 1..k
  <2>1. i - 1 \in 0..k /\ i \in 0..k /\ i \in 1..Len(R)
    BY <1>2
  <2> QED BY <1>2, <1>3, <1>5, <2>1
<1>7. Whole(lines, end) = k
  BY <1>2 DEF Whole
<1>8. Left(lines, end, torn, miss, at2, num2, from, hi)
  BY <1>2, <1>4, <1>6, <1>7 DEF Left
<1> QED BY <1>2, <1>8 DEF LeftFrom, lines

\* A body cut inside a line.
LEMMA CutInside ==
  ASSUME NEW miss, NEW R, NEW from \in Nat, NEW to \in Nat, Runs(R, from, to, miss),
         NEW hi \in Nat, to <= hi,
         NEW k \in 0..Len(R), k < Len(R), R[k + 1] # Blank,
         NEW part \in Beginnings(R[k + 1]), NEW end, end.cut,
         NEW torn, end.clean /\ part = Line("data", Torn) => R[k + 1].v \in torn \cup {Json}
  PROVE  /\ Append(SubSeq(R, 1, k), part) \in Seq(Lines)
         /\ Len(Append(SubSeq(R, 1, k), part)) = k + 1
         /\ LeftFrom(Append(SubSeq(R, 1, k), part), end, torn, miss, from, hi)
         /\ part = Line("data", Torn) => R[k + 1].v \in 0..hi
<1> DEFINE lines == Append(SubSeq(R, 1, k), part)
           line == R[k + 1]
<1>1. PICK at, num : R \in Seq(Lines) /\ Run(R, at, num, from, to, miss)
  BY DEF Runs
<1>2. /\ at \in [0..Len(R) -> Phases] /\ num \in [0..Len(R) -> from..to]
      /\ at[0] = "between" /\ num[0] = from
      /\ \A i \in 1..Len(R) : Follows(at[i - 1], num[i - 1], R[i], at[i], num[i], miss)
  BY <1>1 DEF Run
<1>3. /\ Len(R) \in Nat /\ k \in Nat /\ k + 1 \in 1..Len(R) /\ (k + 1) - 1 = k
      /\ k + 1 \in 0..Len(R) /\ k \in 0..Len(R)
  BY <1>1
<1>4. /\ Follows(at[k], num[k], line, at[k + 1], num[k + 1], miss)
      /\ line \in Lines /\ at[k + 1] \in Phases /\ num[k + 1] \in 0..hi
  <2>1. Follows(at[k], num[k], line, at[k + 1], num[k + 1], miss)
    BY <1>2, <1>3
  <2>2. line \in Lines
    BY <1>1, <1>3
  <2>3. at[k + 1] \in Phases /\ num[k + 1] \in 0..hi
    BY <1>2, <1>3
  <2> QED BY <2>1, <2>2, <2>3
<1>5. line.f # "blank"
  BY <1>4 DEF Follows, Lines
<1>6. /\ part \in Lines
      /\ \/ part = line \/ part.f = "unknown"
         \/ line.f = "id" /\ part.f = "id"
         \/ line.f = "data" /\ part = Line("data", Torn)
  BY <1>4, <1>5, Parts
<1>7. part = Line("data", Torn) => line.v \in 0..hi
  <2> SUFFICES ASSUME part = Line("data", Torn) PROVE line.v \in 0..hi
    OBVIOUS
  <2>1. line.f = "data"
    <3>1. part.f = "data"
      BY DEF Line
    <3> QED BY <1>6, <3>1
  <2>2. line.v = Json \/ line.v = num[k + 1]
    BY <1>4, <2>1 DEF Follows
  <2> QED BY <1>4, <2>2 DEF Json
<1>8. /\ lines \in Seq(Lines) /\ Len(lines) = k + 1 /\ lines[k + 1] = part
      /\ \A i \in 1..k : lines[i] = R[i]
  <2>1. /\ SubSeq(R, 1, k) \in Seq(Lines) /\ Len(SubSeq(R, 1, k)) = k
        /\ \A i \in 1..k : SubSeq(R, 1, k)[i] = R[i]
    BY <1>1, <1>3
  <2> HIDE DEF line
  <2> QED BY <1>3, <1>6, <2>1
<1> HIDE DEF lines
<1> DEFINE at2 == [i \in 0..k |-> at[i]]
           num2 == [i \in 0..k |-> num[i]]
<1>9. /\ at2 \in [0..k -> Phases] /\ num2 \in [0..k -> 0..hi]
      /\ at2[0] = "between" /\ num2[0] = from
  <2>1. \A i \in 0..k : i \in 0..Len(R)
    BY <1>2, <1>3
  <2>2. ASSUME NEW i \in 0..k PROVE at[i] \in Phases /\ num[i] \in 0..hi
    <3>1. i \in 0..Len(R)
      BY <2>1
    <3>2. at[i] \in Phases /\ num[i] \in from..to
      BY <1>2, <3>1
    <3> QED BY <3>2
  <2>3. 0 \in 0..k
    BY <1>2, <1>3
  <2> QED BY <1>2, <1>3, <2>2, <2>3
<1>10. \A i \in 0..k : at2[i] = at[i] /\ num2[i] = num[i]
  OBVIOUS
<1> HIDE DEF at2, num2
<1>11. \A i \in 1..k : Follows(at2[i - 1], num2[i - 1], lines[i], at2[i], num2[i], miss)
  <2> TAKE i \in 1..k
  <2>1. i - 1 \in 0..k /\ i \in 0..k /\ i \in 1..Len(R)
    BY <1>3
  <2> QED BY <1>2, <1>8, <1>10, <2>1
<1>12. Whole(lines, end) = k
  BY <1>3, <1>8 DEF Whole
<1>13. /\ Follows(at2[k], num2[k], line, at[k + 1], num[k + 1], miss) /\ line # Blank
       /\ lines[k + 1] \in Beginnings(line)
       /\ end.clean /\ lines[k + 1] = Line("data", Torn) => line.v \in torn \cup {Json}
  BY <1>3, <1>4, <1>8, <1>10
<1> HIDE DEF line
<1>14. Left(lines, end, torn, miss, at2, num2, from, hi)
  BY <1>3, <1>4, <1>8, <1>9, <1>11, <1>12, <1>13 DEF Left
<1> QED BY <1>7, <1>8, <1>14 DEF LeftFrom, lines, line

\* The body of a connection goes on from lastID: what it leaves out is missed.
LEMMA RunOfBodies ==
  ASSUME lastID \in Nat, head \in Nat, lastID <= head, NEW h \in Nat, head <= h,
         NEW got \in SUBSET (head + 1 .. h), NEW body \in Bodies(h, got),
         NEW miss, (lastID + 1 .. h) \ Carried(got) \subseteq miss
  PROVE  /\ \E last \in lastID..h : Runs(body, lastID, last, miss)
         /\ Len(body) <= 6 + 3 * h
<1> DEFINE all == Frames(Carried(got), lastID, head)
           first == IF Resumes THEN Resume \o all ELSE <<>>
<1>1. PICK p \in head..h :
        body = Ready \o first \o Frames(got, head, p) \o Ping \o Frames(got, p, h)
  BY DEF Bodies
<1>2. p \in Nat /\ head <= p /\ p <= h
  OBVIOUS
<1>3. /\ \A id \in head + 1 .. h : id \in got \/ id \in miss
      /\ Resumes => lastID > 0 /\ \A id \in lastID + 1 .. head : id \in Carried(got)
      /\ ~Resumes => Gap(lastID, head, miss)
  <2>1. ASSUME NEW id \in head + 1 .. h, id \notin got PROVE id \in miss
    <3>1. id \in lastID + 1 .. h /\ id \notin lastID + 1 .. head
      OBVIOUS
    <3> QED BY <2>1, <3>1 DEF Carried
  <2>2. Resumes => lastID > 0 /\ \A id \in lastID + 1 .. head : id \in Carried(got)
    BY DEF Resumes, Carried
  <2>3. ASSUME ~Resumes, NEW id \in lastID + 1 .. head PROVE id \in miss
    <3>1. id \in lastID + 1 .. h /\ id \notin got
      OBVIOUS
    <3> QED BY <2>3, <3>1 DEF Carried
  <2> QED BY <2>1, <2>2, <2>3 DEF Gap
<1>4. PICK a \in lastID..head : Runs(first, lastID, a, miss) /\ Gap(a, head, miss)
  <2>1. CASE Resumes
    <3>1. Gap(lastID, lastID, miss)
      BY DEF Gap
    <3>2. PICK a \in lastID..head : Runs(all, lastID, a, miss) /\ Gap(a, head, miss)
      <4> HIDE DEF Resumes
      <4> QED BY <1>3, <2>1, <3>1, RunOfFrames
    <3>3. Runs(Resume, lastID, lastID, miss)
      BY RunFrames
    <3> HIDE DEF all
    <3>4. Runs(Resume \o all, lastID, a, miss)
      BY <3>2, <3>3, RunConcat
    <3> QED BY <2>1, <3>2, <3>4
  <2>2. CASE ~Resumes
    <3>1. Runs(<<>>, lastID, lastID, miss)
      BY RunFrames
    <3> QED BY <1>3, <2>2, <3>1
  <2> QED BY <2>1, <2>2
<1>5. Len(first) \in Nat /\ Len(first) <= 3 * head
  <2>1. CASE Resumes
    <3>1. Gap(lastID, lastID, miss)
      BY DEF Gap
    <3>2. Len(all) <= 3 * (head - lastID) /\ \E x \in lastID..head : Runs(all, lastID, x, miss)
      <4> HIDE DEF Resumes
      <4> QED BY <1>3, <2>1, <3>1, RunOfFrames
    <3>3. all \in Seq(Lines) /\ Resume \in Seq(Lines) /\ Len(Resume) = 3
      BY <3>2, RunFrames DEF Runs
    <3> HIDE DEF all
    <3>4. Len(Resume \o all) = 3 + Len(all) /\ Len(all) \in Nat
      <4>1. PICK x \in lastID..head : Runs(all, lastID, x, miss)
        BY <3>2
      <4>2. x \in Nat /\ lastID <= x
        OBVIOUS
      <4>3. Runs(Resume, lastID, lastID, miss)
        BY RunFrames
      <4>4. Len(Resume \o all) = Len(Resume) + Len(all)
        BY <4>1, <4>2, <4>3, RunConcat
      <4>5. Len(all) \in Nat
        BY <3>3, LenProperties
      <4> QED BY <3>3, <4>4, <4>5
    <3>5. first = Resume \o all
      BY <2>1
    <3> HIDE DEF first
    <3>6. Len(first) = 3 + Len(all) /\ lastID > 0
      BY <1>3, <2>1, <3>4, <3>5
    <3> QED BY <3>2, <3>4, <3>6
  <2>2. CASE ~Resumes
    BY <2>2
  <2> QED BY <2>1, <2>2
<1> HIDE DEF first, all
<1>6. a \in Nat /\ lastID <= a /\ a <= head
  OBVIOUS
<1> DEFINE s == Ready \o first
           f == Frames(got, head, p)
           t == s \o f
           q == t \o Ping
           g == Frames(got, p, h)
<1>7. Runs(s, lastID, a, miss) /\ Len(s) = 4 + Len(first)
  <2>1. Runs(Ready, lastID, lastID, miss) /\ Len(Ready) = 4 /\ lastID <= lastID
    BY RunFrames
  <2>2. Runs(s, lastID, a, miss) /\ Len(s) = Len(Ready) + Len(first)
    BY <1>4, <1>6, <2>1, RunConcat
  <2> QED BY <2>1, <2>2
<1>8. PICK b \in a..p : Runs(f, a, b, miss) /\ Gap(b, p, miss)
  <2>1. \A id \in head + 1 .. p : id \in got \/ id \in miss
    BY <1>2, <1>3
  <2> QED BY <1>2, <1>4, <1>6, <2>1, RunOfFrames
<1>9. Len(f) <= 3 * (p - head)
  <2>1. \A id \in head + 1 .. p : id \in got \/ id \in miss
    BY <1>2, <1>3
  <2> QED BY <1>2, <1>4, <1>6, <2>1, RunOfFrames
<1>10. b \in Nat /\ lastID <= b /\ a <= b /\ b <= p /\ b <= h
  BY <1>2, <1>6
<1>11. PICK c \in b..h : Runs(g, b, c, miss)
  <2>1. \A id \in p + 1 .. h : id \in got \/ id \in miss
    BY <1>2, <1>3
  <2> QED BY <1>2, <1>8, <1>10, <2>1, RunOfFrames
<1>12. Len(g) <= 3 * (h - p)
  <2>1. \A id \in p + 1 .. h : id \in got \/ id \in miss
    BY <1>2, <1>3
  <2> QED BY <1>2, <1>8, <1>10, <2>1, RunOfFrames
<1>13. c \in Nat /\ b <= c /\ c \in lastID..h
  BY <1>2, <1>10
<1> HIDE DEF s, f, g
<1>14. Runs(t, lastID, b, miss) /\ Len(t) = Len(s) + Len(f)
  BY <1>6, <1>7, <1>8, <1>10, RunConcat
<1> HIDE DEF t
<1>15. Runs(q, lastID, b, miss) /\ Len(q) = Len(t) + 2
  <2>1. Runs(Ping, b, b, miss) /\ Len(Ping) = 2 /\ b <= b
    BY <1>10, RunFrames
  <2>2. Runs(q, lastID, b, miss) /\ Len(q) = Len(t) + Len(Ping)
    BY <1>10, <1>14, <2>1, RunConcat
  <2> QED BY <2>1, <2>2
<1> HIDE DEF q
<1>16. Runs(q \o g, lastID, c, miss) /\ Len(q \o g) = Len(q) + Len(g)
  BY <1>10, <1>11, <1>13, <1>15, RunConcat
<1>17. body = q \o g
  BY <1>1 DEF q, t, s, f, g
<1>18. Len(f) \in Nat /\ Len(g) \in Nat
  BY <1>8, <1>11 DEF Runs
<1>19. Len(body) <= 6 + 3 * h
  BY <1>2, <1>5, <1>7, <1>9, <1>12, <1>14, <1>15, <1>16, <1>17, <1>18
<1> QED BY <1>13, <1>16, <1>17, <1>19

-----------------------------------------------------------------------------
(* The invariant.                                                          *)

\* What a connection still brings begins after the event that was read last.
Coming ==
  state = "read" => LeftFrom(rest, ending, tornEOF, missed, lastID, head)

\* The counter of loop is that of the connections since an event was last
\* delivered, up to the connection being read, and the delay is computed from it.
Counting ==
  /\ quiet <= conns
  /\ IF state = "read"
     THEN attempt + 1 <= conns /\ quiet = (IF delivered THEN 0 ELSE attempt + 1)
     ELSE quiet = attempt
  /\ state = "wait" => delay \in Delays(attempt - 1, recon.min, recon.max)

IInv ==
  /\ TypeOK /\ rest \in Seq(Lines) /\ lastID <= head
  /\ Coming
  /\ Counting
  /\ ReadBack

LEMMA ReconType ==
  ASSUME NEW r \in Recons
  PROVE  r.min \in Nat \ {0} /\ r.max \in Nat \ {0}
BY ReaderAssumption

LEMMA InitInv == Init => IInv
<1> SUFFICES ASSUME Init PROVE IInv
  OBVIOUS
<1>1. 0 \in 0..MaxID /\ 0 \in 0..MaxConns /\ 0 \in 0..recon.max
  BY ReaderAssumption, ReconType DEF Init
<1>2. <<>> \in Seq(1..MaxID) /\ <<>> \in Seq(Lines) /\ Len(<<>>) <= 6 + 4 * MaxID
  BY ReaderAssumption
<1>3. ending \in Endings
  BY DEF Init, Endings
<1>4. delivered \in BOOLEAN /\ tornEOF \subseteq 1..MaxID /\ missed \subseteq 1..MaxID
  BY DEF Init
<1>5. TypeOK
  BY <1>1, <1>2, <1>3, <1>4 DEF Init, TypeOK
<1>6. Coming /\ Counting
  BY DEF Init, Coming, Counting
<1>7. ReadBack
  BY DEF Init, ReadBack, Heard
<1> QED BY <1>2, <1>5, <1>6, <1>7 DEF IInv, Init

\* Nothing new was heard.
LEMMA HeardSame ==
  ASSUME ReadBack, lastID \in Nat, lastID' \in Nat, events \in Seq(1..MaxID),
         UNCHANGED events, tornEOF \subseteq tornEOF', lastID <= lastID',
         {id \in missed : id <= lastID} \subseteq missed',
         \A id \in lastID + 1 .. lastID' : id \in tornEOF' \cup missed'
  PROVE  ReadBack'
<1>1. \A i, j \in 1..Len(events') : i < j => events'[i] < events'[j]
  BY DEF ReadBack
<1>2. Heard' = Heard
  BY DEF Heard
<1>3. \A id \in Heard : id <= lastID /\ id \in Nat
  BY ReaderAssumption DEF ReadBack, Heard
<1>4. \A id \in Heard' : id <= lastID'
  BY <1>2, <1>3
<1>5. ASSUME NEW id \in 1..lastID' PROVE id \in Heard' \cup tornEOF' \cup missed'
  <2>1. CASE id <= lastID
    <3>1. id \in Heard \cup tornEOF \cup missed
      BY <2>1 DEF ReadBack
    <3> QED BY <1>2, <2>1, <3>1
  <2>2. CASE ~(id <= lastID)
    <3>1. id \in lastID + 1 .. lastID'
      BY <2>2
    <3> QED BY <3>1
  <2> QED BY <2>1, <2>2
<1> QED BY <1>1, <1>4, <1>5 DEF ReadBack

\* An event was heard, the next of those the connection carries.
LEMMA HeardNext ==
  ASSUME ReadBack, lastID \in Nat, events \in Seq(1..MaxID), NEW n \in 1..MaxID,
         events' = Append(events, n), lastID' = n, UNCHANGED <<tornEOF, missed>>,
         Skips(lastID, n, missed)
  PROVE  ReadBack'
<1> DEFINE c == Len(events)
<1>0. lastID < n
  BY DEF Skips
<1>1. /\ c \in Nat /\ Len(events') = c + 1 /\ events'[c + 1] = n
      /\ \A i \in 1..c : events'[i] = events[i] /\ events[i] \in Nat \ {0}
      /\ events = <<>> <=> c = 0
  BY ReaderAssumption
<1>2. \A i \in 1..c : events[i] \in Heard /\ events[i] <= lastID
  BY DEF Heard, ReadBack
<1> HIDE DEF c
<1>3. ASSUME NEW i \in 1..Len(events'), NEW j \in 1..Len(events'), i < j
      PROVE  events'[i] < events'[j]
  <2>1. i \in 1..c
    BY <1>1, <1>3
  <2>2. CASE j = c + 1
    BY <1>0, <1>1, <1>2, <2>1, <2>2, ReaderAssumption
  <2>3. CASE j # c + 1
    <3>1. j \in 1..c
      BY <1>1, <2>3
    <3>2. events[i] < events[j]
      BY <1>3, <2>1, <3>1 DEF ReadBack, c
    <3> QED BY <1>1, <2>1, <3>1, <3>2
  <2> QED BY <2>2, <2>3
<1>4. Heard' = Heard \cup {n}
  <2>1. Heard = {events[i] : i \in 1..c} /\ Heard' = {events'[i] : i \in 1 .. c + 1}
    BY <1>1 DEF Heard, c
  <2>2. \A x : x \in Heard' <=> x \in Heard \/ x = n
    <3>1. \A i \in 1 .. c + 1 : i \in 1..c \/ i = c + 1
      BY <1>1
    <3>2. c + 1 \in 1 .. c + 1 /\ \A i \in 1..c : i \in 1 .. c + 1
      BY <1>1
    <3> QED BY <1>1, <2>1, <3>1, <3>2
  <2> QED BY <2>2
<1>5. ASSUME NEW id \in Heard' PROVE id <= lastID'
  <2>1. CASE id = n
    BY <2>1
  <2>2. CASE id \in Heard
    <3>1. id <= lastID /\ id \in Nat
      BY <1>1, <1>2, <2>2 DEF Heard, c
    <3> QED BY <1>0, <3>1, ReaderAssumption
  <2> QED BY <1>4, <2>1, <2>2
<1>6. ASSUME NEW id \in 1..lastID' PROVE id \in Heard' \cup tornEOF' \cup missed'
  <2>1. CASE id = n
    BY <1>4, <2>1
  <2>2. CASE id <= lastID
    <3>1. id \in Heard \cup tornEOF \cup missed
      BY <2>2 DEF ReadBack
    <3> QED BY <1>4, <3>1
  <2>3. CASE id # n /\ ~(id <= lastID)
    <3>1. id \in lastID + 1 .. n - 1
      BY <1>6, <2>3, ReaderAssumption
    <3>2. id \in missed
      BY <3>1 DEF Skips, Gap
    <3> QED BY <3>2
  <2> QED BY <2>1, <2>2, <2>3
<1> QED BY <1>3, <1>5, <1>6 DEF ReadBack

LEMMA DialStep == IInv /\ Dial => IInv'
<1> SUFFICES ASSUME IInv, Dial PROVE IInv'
  OBVIOUS
<1> USE ReaderAssumption
<1>1. /\ lastID \in Nat /\ head \in Nat /\ lastID <= head /\ head <= MaxID
      /\ tornEOF \subseteq 1..MaxID /\ missed \subseteq 1..MaxID /\ events \in Seq(1..MaxID)
      /\ quiet \in Nat /\ conns \in Nat /\ attempt \in Nat /\ quiet <= conns /\ quiet = attempt
  BY DEF IInv, TypeOK, Counting, Dial
<1> DEFINE Connects(h, got, body, k, clean) ==
       /\ head' = h
       /\ missed' = {id \in missed : id <= lastID} \cup ((lastID + 1 .. h) \ Carried(got))
       /\ \/ /\ rest' = SubSeq(body, 1, k)
             /\ ending' = [cut |-> FALSE, clean |-> clean]
             /\ UNCHANGED tornEOF
          \/ /\ k < Len(body) /\ body[k + 1] # Blank
             /\ \E part \in Beginnings(body[k + 1]) :
                  /\ rest' = Append(SubSeq(body, 1, k), part)
                  /\ tornEOF' = IF clean /\ part = Line("data", Torn)
                                THEN tornEOF \cup ({body[k + 1].v} \ {Json})
                                ELSE tornEOF
             /\ ending' = [cut |-> TRUE, clean |-> clean]
<1>0. PICK h \in head..MaxID :
        \E got \in SUBSET (head + 1 .. h) : \E body \in Bodies(h, got) :
          \E k \in 0..Len(body) : \E clean \in BOOLEAN : Connects(h, got, body, k, clean)
  BY DEF Dial
<1>16. PICK got \in SUBSET (head + 1 .. h) :
        \E body \in Bodies(h, got) : \E k \in 0..Len(body) : \E clean \in BOOLEAN :
          Connects(h, got, body, k, clean)
  BY <1>0
<1>2. PICK body \in Bodies(h, got) : \E k \in 0..Len(body) : \E clean \in BOOLEAN :
        Connects(h, got, body, k, clean)
  BY <1>16
<1>3. PICK k \in 0..Len(body), clean \in BOOLEAN : Connects(h, got, body, k, clean)
  BY <1>2
<1>4. h \in Nat /\ head <= h /\ h <= MaxID
  BY <1>1
<1>5. /\ (lastID + 1 .. h) \ Carried(got) \subseteq missed'
      /\ {id \in missed : id <= lastID} \subseteq missed' /\ missed' \subseteq 1..MaxID
  <2>1. missed' = {id \in missed : id <= lastID} \cup ((lastID + 1 .. h) \ Carried(got))
    BY <1>3
  <2>2. lastID + 1 .. h \subseteq 1..MaxID
    BY <1>1, <1>4
  <2> QED BY <1>1, <2>1, <2>2
<1>15. PICK last \in lastID..h : Runs(body, lastID, last, missed')
  BY <1>1, <1>4, <1>5, RunOfBodies
<1>6. Runs(body, lastID, last, missed') /\ Len(body) <= 6 + 3 * h /\ last \in Nat /\ last <= h
  <2>1. Len(body) <= 6 + 3 * h
    BY <1>1, <1>4, <1>5, RunOfBodies
  <2>2. last \in Nat /\ last <= h
    BY <1>1, <1>4
  <2> QED BY <1>15, <2>1, <2>2
<1>7. body \in Seq(Lines) /\ Len(body) \in Nat /\ k \in Nat /\ k <= Len(body)
  BY <1>6 DEF Runs
<1>8. /\ rest' \in Seq(Lines) /\ Len(rest') <= 6 + 3 * h /\ ending' \in Endings
      /\ tornEOF \subseteq tornEOF' /\ tornEOF' \subseteq 1..MaxID
      /\ LeftFrom(rest', ending', tornEOF', missed', lastID, h)
  <2>1. CASE /\ rest' = SubSeq(body, 1, k)
             /\ ending' = [cut |-> FALSE, clean |-> clean]
             /\ UNCHANGED tornEOF
    <3>1. ending' \in Endings /\ ~ending'.cut
      BY <2>1 DEF Endings
    <3>2. /\ SubSeq(body, 1, k) \in Seq(Lines) /\ Len(SubSeq(body, 1, k)) = k
          /\ LeftFrom(SubSeq(body, 1, k), ending', tornEOF', missed', lastID, h)
      BY <1>1, <1>4, <1>6, <3>1, CutAfter
    <3>3. Len(rest') <= 6 + 3 * h
      BY <1>4, <1>6, <1>7, <2>1, <3>2
    <3> QED BY <1>1, <2>1, <3>1, <3>2, <3>3
  <2>2. CASE /\ k < Len(body) /\ body[k + 1] # Blank
             /\ \E part \in Beginnings(body[k + 1]) :
                  /\ rest' = Append(SubSeq(body, 1, k), part)
                  /\ tornEOF' = IF clean /\ part = Line("data", Torn)
                                THEN tornEOF \cup ({body[k + 1].v} \ {Json})
                                ELSE tornEOF
             /\ ending' = [cut |-> TRUE, clean |-> clean]
    <3>1. ending' \in Endings /\ ending'.cut /\ ending'.clean = clean
      BY <2>2 DEF Endings
    <3>2. PICK part \in Beginnings(body[k + 1]) :
            /\ rest' = Append(SubSeq(body, 1, k), part)
            /\ tornEOF' = IF clean /\ part = Line("data", Torn)
                          THEN tornEOF \cup ({body[k + 1].v} \ {Json})
                          ELSE tornEOF
      BY <2>2
    <3>3. tornEOF \subseteq tornEOF'
      BY <3>2
    <3>4. ending'.clean /\ part = Line("data", Torn) => body[k + 1].v \in tornEOF' \cup {Json}
      BY <3>1, <3>2
    <3>5. /\ Append(SubSeq(body, 1, k), part) \in Seq(Lines)
          /\ Len(Append(SubSeq(body, 1, k), part)) = k + 1
          /\ LeftFrom(Append(SubSeq(body, 1, k), part), ending', tornEOF', missed', lastID, h)
          /\ part = Line("data", Torn) => body[k + 1].v \in 0..h
      <4>1. k < Len(body) /\ body[k + 1] # Blank
        BY <2>2
      <4> HIDE DEF Connects
      <4> QED BY <1>1, <1>4, <1>6, <3>1, <3>4, <4>1, CutInside
    <3>6. tornEOF' \subseteq 1..MaxID
      <4>1. part = Line("data", Torn) => {body[k + 1].v} \ {Json} \subseteq 1..MaxID
        BY <1>4, <3>5 DEF Json
      <4> QED BY <1>1, <3>2, <4>1
    <3>7. Len(rest') <= 6 + 3 * h
      BY <1>4, <1>6, <1>7, <2>2, <3>2, <3>5
    <3> QED BY <3>1, <3>2, <3>3, <3>5, <3>6, <3>7
  <2> QED BY <1>3, <2>1, <2>2
<1>9. /\ state' = "read" /\ delivered' = FALSE /\ quiet' = quiet + 1 /\ conns' = conns + 1
      /\ conns < MaxConns /\ head' = h
      /\ UNCHANGED <<recon, lastID, attempt, delay, events>>
  BY <1>3 DEF Dial
<1>10. TypeOK'
  <2>1. Len(rest') <= 6 + 4 * MaxID
    BY <1>4, <1>8
  <2>2. head' \in 0..MaxID /\ quiet' \in 0..MaxConns /\ conns' \in 0..MaxConns
    BY <1>1, <1>4, <1>9
  <2>3. delivered' \in BOOLEAN
    BY <1>9
  <2> QED BY <1>5, <1>8, <1>9, <2>1, <2>2, <2>3 DEF IInv, TypeOK
<1>11. Coming'
  BY <1>8, <1>9 DEF Coming
<1>12. Counting'
  <2>1. quiet' <= conns' /\ attempt' + 1 <= conns' /\ quiet' = attempt' + 1
    BY <1>1, <1>9
  <2> QED BY <1>9, <2>1 DEF Counting
<1>13. ReadBack'
  <2>1. \A id \in lastID + 1 .. lastID' : FALSE
    BY <1>1, <1>9
  <2> QED BY <1>1, <1>5, <1>8, <1>9, <2>1, HeardSame DEF IInv
<1>14. lastID' <= head'
  BY <1>1, <1>4, <1>9
<1> QED BY <1>8, <1>10, <1>11, <1>12, <1>13, <1>14 DEF IInv

\* runOnce has returned.
LEMMA ReturnStep ==
  ASSUME IInv, NEW some \in BOOLEAN, Return(some), quiet' \in 0..MaxConns, conns' \in 0..MaxConns,
         quiet' <= conns', quiet' = Counted(some),
         UNCHANGED <<recon, lastID, delivered, ending, events, head, tornEOF, missed>>,
         rest' = rest \/ rest' = <<>>
  PROVE  IInv'
<1> USE ReaderAssumption
<1>1. attempt' = quiet' /\ state' = "wait" /\ delay' \in Delays(attempt' - 1, recon.min, recon.max)
  BY DEF Return
<1>2. delay' \in 1..recon.max
  <2>1. recon.min \in Nat \ {0} /\ recon.max \in Nat \ {0} /\ attempt' - 1 \in Int
    BY <1>1, ReconType DEF IInv, TypeOK
  <2> QED BY <1>1, <2>1, DelaysType
<1>3. rest' \in Seq(Lines) /\ Len(rest') <= 6 + 4 * MaxID
  <2>1. rest \in Seq(Lines) /\ Len(rest) <= 6 + 4 * MaxID
    BY DEF IInv, TypeOK
  <2>2. CASE rest' = rest
    BY <2>1, <2>2
  <2>3. CASE rest' = <<>>
    BY <2>3
  <2> QED BY <2>2, <2>3
<1>4. TypeOK'
  <2>1. delay' \in 0..recon'.max
    BY <1>2
  <2> QED BY <1>1, <1>3, <2>1 DEF IInv, TypeOK
<1>5. Coming' /\ Counting'
  BY <1>1 DEF Coming, Counting
<1>6. ReadBack'
  BY DEF IInv, ReadBack, Heard
<1> QED BY <1>3, <1>4, <1>5, <1>6 DEF IInv

LEMMA DialFailsStep == IInv /\ DialFails => IInv'
<1> SUFFICES ASSUME IInv, DialFails PROVE IInv'
  OBVIOUS
<1>1. quiet = attempt /\ quiet <= conns /\ quiet \in Nat /\ conns \in Nat /\ conns < MaxConns
  BY ReaderAssumption DEF IInv, Counting, TypeOK, DialFails
<1>2. /\ quiet' \in 0..MaxConns /\ conns' \in 0..MaxConns /\ quiet' <= conns'
      /\ quiet' = Counted(FALSE)
  BY <1>1, ReaderAssumption DEF DialFails, Counted
<1>3. /\ FALSE \in BOOLEAN /\ Return(FALSE) /\ rest' = rest
      /\ UNCHANGED <<recon, lastID, delivered, ending, events, head, tornEOF, missed>>
  BY DEF DialFails
<1> QED BY <1>2, <1>3, ReturnStep

LEMMA ReadFailsStep == IInv /\ ReadFails => IInv'
<1> SUFFICES ASSUME IInv, ReadFails PROVE IInv'
  OBVIOUS
<1>1. /\ quiet' \in 0..MaxConns /\ conns' \in 0..MaxConns /\ quiet' <= conns'
      /\ quiet' = Counted(delivered)
  BY DEF IInv, Counting, TypeOK, ReadFails, Counted
<1>2. /\ delivered \in BOOLEAN /\ Return(delivered) /\ rest' = <<>>
      /\ UNCHANGED <<recon, lastID, delivered, ending, events, head, tornEOF, missed>>
  BY DEF ReadFails, IInv, TypeOK
<1> QED BY <1>1, <1>2, ReturnStep

LEMMA TimerStep == IInv /\ Timer => IInv'
<1> SUFFICES ASSUME IInv, Timer PROVE IInv'
  OBVIOUS
<1>1. TypeOK'
  BY DEF IInv, TypeOK, Timer
<1>2. Coming' /\ Counting'
  BY DEF IInv, Coming, Counting, Timer
<1>3. ReadBack'
  BY DEF IInv, ReadBack, Heard, Timer
<1> QED BY <1>1, <1>2, <1>3 DEF IInv, Timer

\* How the body ends once an event was read from it.
LEMMA EndsAfter ==
  ASSUME ending \in Endings, Event.used \in 1..Len(rest),
         ending' = IF Event.used = Len(rest) THEN [ending EXCEPT !.cut = FALSE] ELSE ending
  PROVE  ending' \in Endings /\ Ends(ending', ending, rest, Event.used)
<1> DEFINE u == Event.used
           e == [ending EXCEPT !.cut = FALSE]
<1>1. e \in Endings /\ ~e.cut
  BY DEF Endings
<1> HIDE DEF e, u
<1>2. ending' = IF u = Len(rest) THEN e ELSE ending
  BY DEF e, u
<1>3. u < Len(rest) => u # Len(rest)
  BY DEF u
<1>4. ending' \in Endings /\ (u < Len(rest) => ending' = ending) /\ (u = Len(rest) => ~ending'.cut)
  BY <1>1, <1>2, <1>3
<1> QED BY <1>4 DEF Ends, u

LEMMA ReadStep == IInv /\ Read => IInv'
<1> SUFFICES ASSUME IInv, Read PROVE IInv'
  OBVIOUS
<1> USE ReaderAssumption
<1> DEFINE ev == Event
<1>1. /\ lastID \in Nat /\ head \in Nat /\ lastID <= head /\ head <= MaxID
      /\ rest \in Seq(Lines) /\ Len(rest) <= 6 + 4 * MaxID /\ ending \in Endings
      /\ tornEOF \subseteq 1..MaxID /\ missed \subseteq 1..MaxID /\ events \in Seq(1..MaxID)
  BY DEF IInv, TypeOK
<1>2. /\ quiet \in Nat /\ conns \in 0..MaxConns /\ attempt \in Nat /\ attempt + 1 <= conns
      /\ quiet = (IF delivered THEN 0 ELSE attempt + 1) /\ quiet <= conns
  BY DEF IInv, TypeOK, Counting, Read
<1>3. /\ ev = ReadSSEEvent(rest, ending.cut, ending.clean) /\ ev.done
      /\ state = "read" /\ state' = state
      /\ lastID' = Advanced(ev.id)
      /\ rest' = After(rest, ev.used)
      /\ UNCHANGED <<recon, attempt, delay, head, tornEOF, missed, conns>>
  BY DEF Read, After, Event
<1>4. IF ev.type = Message /\ ev.data # Torn
      THEN events' = Append(events, ev.data) /\ delivered' = TRUE /\ quiet' = 0
      ELSE UNCHANGED <<events, delivered, quiet>>
  BY DEF Read
<1>5. LeftFrom(rest, ending, tornEOF, missed, lastID, head)
  BY <1>3 DEF IInv, Coming
<1>6. ending' = IF ev.used = Len(rest) THEN [ending EXCEPT !.cut = FALSE] ELSE ending
  BY DEF Read
<1>8. ev.used \in 1..Len(rest)
  <2> HIDE DEF ev
  <2>1. PICK at, num : Left(rest, ending, tornEOF, missed, at, num, lastID, head)
    BY <1>5 DEF LeftFrom
  <2> QED BY <1>1, <1>3, <2>1, ReadsEvent
<1>9. ending' \in Endings /\ Ends(ending', ending, rest, ev.used)
  BY <1>1, <1>6, <1>8, EndsAfter
<1> HIDE DEF ev
<1>10. /\ rest' \in Seq(Lines) /\ Len(rest') <= Len(rest)
       /\ \E n \in 0..head : /\ Brings(ev, n, lastID, tornEOF, missed)
                             /\ LeftFrom(rest', ending', tornEOF, missed, n, head)
  <2>1. /\ After(rest, ev.used) \in Seq(Lines) /\ Len(After(rest, ev.used)) <= Len(rest)
        /\ \E n \in 0..head : /\ Brings(ev, n, lastID, tornEOF, missed)
                              /\ LeftFrom(After(rest, ev.used), ending', tornEOF, missed, n, head)
    BY <1>1, <1>3, <1>5, <1>9, ReadsOn
  <2> QED BY <1>3, <2>1
<1>11. PICK n \in 0..head : /\ Brings(ev, n, lastID, tornEOF, missed)
                            /\ LeftFrom(rest', ending', tornEOF, missed, n, head)
  BY <1>10
<1>12. Len(rest') <= 6 + 4 * MaxID
  BY <1>1, <1>10
<1>13. CASE n = lastID /\ ev.type # Message /\ ev.id = 0
  <2>1. lastID' = lastID /\ UNCHANGED <<events, delivered, quiet>>
    BY <1>1, <1>3, <1>4, <1>13 DEF Advanced
  <2>2. TypeOK'
    BY <1>3, <1>9, <1>12, <2>1 DEF IInv, TypeOK
  <2>3. Coming'
    BY <1>3, <1>5, <1>11, <1>13, <2>1 DEF Coming
  <2>4. Counting'
    BY <1>2, <1>3, <2>1 DEF Counting
  <2>5. ReadBack'
    BY <1>3, <2>1 DEF IInv, ReadBack, Heard
  <2> QED BY <1>1, <1>3, <1>10, <2>1, <2>2, <2>3, <2>4, <2>5 DEF IInv
<1>14. CASE /\ Skips(lastID, n, missed) /\ ev.type = Message /\ ev.id = n
            /\ ev.data = n \/ (ev.data = Torn /\ n \in tornEOF)
  <2>1. n \in 1..MaxID /\ lastID < n
    BY <1>1, <1>14 DEF Skips
  <2>2. lastID' = n
    BY <1>1, <1>3, <1>14, <2>1 DEF Advanced
  <2>3. Coming'
    <3>1. n \in lastID' .. head'
      BY <1>1, <1>3, <2>1, <2>2
    <3> QED BY <1>3, <1>11, <2>2, <3>1 DEF Coming
  <2>4. CASE ev.data # Torn
    <3>1. events' = Append(events, n) /\ delivered' = TRUE /\ quiet' = 0
      BY <1>4, <1>14, <2>4
    <3>2. events' \in Seq(1..MaxID)
      BY <1>1, <2>1, <3>1
    <3>3. TypeOK'
      <4>1. quiet' \in 0..MaxConns /\ lastID' \in 0..MaxID /\ delivered' \in BOOLEAN
        BY <2>1, <2>2, <3>1
      <4> QED BY <1>3, <1>9, <1>12, <3>2, <4>1 DEF IInv, TypeOK
    <3>4. Counting'
      BY <1>2, <1>3, <3>1 DEF Counting
    <3>5. ReadBack'
      BY <1>1, <1>3, <1>14, <2>1, <2>2, <3>1, HeardNext DEF IInv
    <3> QED BY <1>1, <1>3, <1>10, <2>2, <2>3, <3>3, <3>4, <3>5 DEF IInv
  <2>5. CASE ev.data = Torn
    <3>0. n # Torn
      BY <2>1 DEF Torn
    <3>1. UNCHANGED <<events, delivered, quiet>> /\ n \in tornEOF
      BY <1>4, <1>14, <2>5, <3>0
    <3>2. TypeOK'
      <4>1. lastID' \in 0..MaxID
        BY <2>1, <2>2
      <4> QED BY <1>3, <1>9, <1>12, <3>1, <4>1 DEF IInv, TypeOK
    <3>3. Counting'
      BY <1>2, <1>3, <3>1 DEF Counting
    <3>4. ReadBack'
      <4>2. \A id \in lastID + 1 .. lastID' : id \in tornEOF' \cup missed'
        <5> TAKE id \in lastID + 1 .. lastID'
        <5>1. id = n \/ id \in lastID + 1 .. n - 1
          BY <1>1, <2>1, <2>2
        <5> QED BY <1>3, <1>14, <3>1, <5>1 DEF Skips, Gap
      <4>3. tornEOF \subseteq tornEOF' /\ missed \subseteq missed' /\ lastID <= lastID' /\ lastID' \in Nat
        BY <1>1, <1>3, <2>1, <2>2
      <4> QED BY <1>1, <3>1, <4>2, <4>3, HeardSame DEF IInv
    <3> QED BY <1>1, <1>3, <1>10, <2>2, <2>3, <3>2, <3>3, <3>4 DEF IInv
  <2> QED BY <2>4, <2>5
<1> QED BY <1>11, <1>13, <1>14 DEF Brings

LEMMA StutterStep == IInv /\ UNCHANGED vars => IInv'
<1> SUFFICES ASSUME IInv, UNCHANGED vars PROVE IInv'
  OBVIOUS
<1>1. TypeOK'
  BY DEF IInv, TypeOK, vars
<1>2. Coming' /\ Counting'
  BY DEF IInv, Coming, Counting, vars
<1>3. ReadBack'
  BY DEF IInv, ReadBack, Heard, vars
<1> QED BY <1>1, <1>2, <1>3 DEF IInv, vars

LEMMA Invariance == Spec => []IInv
<1>1. IInv /\ [Next]_vars => IInv'
  BY DialStep, DialFailsStep, ReadStep, ReadFailsStep, TimerStep, StutterStep DEF Next
<1> QED BY <1>1, InitInv, PTL DEF Spec

-----------------------------------------------------------------------------
(* The theorems.                                                           *)

\* The variables of runOnce and loop keep their types, through every connection
\* and however it is cut: what is delivered are identifiers of events that were
\* broadcast, never a part of one, and the delay never exceeds maxRecon.
THEOREM TypeCorrect == Spec => []TypeOK
<1>1. IInv => TypeOK
  BY DEF IInv
<1> QED BY <1>1, Invariance, PTL

\* What runOnce delivers are broadcasts, in order and once each, for any cut of
\* any connection and any size of the history; and lastID passes an event that
\* was not delivered only if a clean end cut it or the connection did not carry
\* it.  The next body goes on after the identifier read last, readSSEEvent takes
\* one frame at a time off the front of it, and skips none.
THEOREM InOrderAndOnce == Spec => []ReadBack
<1>1. IInv => ReadBack
  BY DEF IInv
<1> QED BY <1>1, Invariance, PTL

\* The delay loop computes is the doubling formula of the connections since an
\* event was last delivered, for every minRecon and maxRecon.
THEOREM DelayIsFormula == Spec => []DelayFits
<1>1. IInv => DelayFits
  <2> SUFFICES ASSUME IInv, state = "wait" PROVE DelayFits
    BY DEF DelayFits
  <2> DEFINE k == attempt - 1
             d == Capped(k, recon.min, recon.max)
  <2>1. recon.min \in Nat \ {0} /\ recon.max \in Nat \ {0} /\ attempt \in Nat
    BY ReaderAssumption, ReconType DEF IInv, TypeOK
  <2>2. quiet = attempt /\ delay \in Delays(k, recon.min, recon.max)
    BY DEF IInv, Counting
  <2>3. delay \in Jittered(d, recon.max)
    BY <2>2 DEF Delays
  <2>4. /\ d = Least(recon.min * Power2[IF k < 0 THEN 0 ELSE k], recon.max)
        /\ d \in 1..recon.max
    <3>1. k \in Int
      BY <2>1
    <3> HIDE DEF k
    <3> QED BY <2>1, <3>1, CappedIs
  <2>5. (IF k < 0 THEN 0 ELSE k) = (IF quiet = 0 THEN 0 ELSE quiet - 1)
    BY <2>1, <2>2
  <2> HIDE DEF d, k
  <2>6. delay \in 1..recon.max /\ 4 * d <= 5 * delay /\ 5 * delay <= 6 * d
    BY <2>1, <2>3, <2>4, JitterBounds
  <2>7. d = Least(recon.min * Power2[IF quiet = 0 THEN 0 ELSE quiet - 1], recon.max)
    BY <2>4, <2>5
  <2>8. 0 < delay /\ delay <= recon.max
    BY <2>1, <2>6
  <2> QED BY <2>6, <2>7, <2>8 DEF DelayFits
<1> QED BY <1>1, Invariance, PTL
=============================================================================
