-------------------------- MODULE GapQueueProofs --------------------------
(***************************************************************************)
(* Proofs about GapQueue: slots are neither lost nor made, advertisements  *)
(* start in the order they were asked for, and a radio that reports at     *)
(* once what a call changes is not given one over another.                 *)
(***************************************************************************)
EXTENDS GapQueue, SequenceTheorems, TLAPS

Status == Kind \X {"idle", "active"}

\* Advertisements stand before scans.
Sorted(q) ==
  \E k \in 0 .. Len(q) : \A i \in 1 .. Len(q) : q[i].type = IF i <= k THEN "adv" ELSE "scan"

\* The advertisements of a queue, in the order they were asked for, n at last.
Rising(q) ==
  \A i, j \in 1 .. Len(q) : i < j /\ q[i].type = "adv" /\ q[j].type = "adv" => q[i].n < q[j].n

\* Slots that are free or hold an action of a queue, of which n were asked for.
Queued(q, free, n) ==
  /\ q \in Seq(Action) /\ free \in 0 .. Slots /\ free + Len(q) = Slots
  /\ Sorted(q) /\ Rising(q)
  /\ \A i \in 1 .. Len(q) : q[i].n <= n

\* What was started came before all that waits.
Logged(l, q, n) ==
  /\ l \in Seq(1 .. MaxAsked)
  /\ \A i, j \in 1 .. Len(l) : i < j => l[i] < l[j]
  /\ \A i \in 1 .. Len(l) : l[i] <= n
  /\ \A i \in 1 .. Len(l), j \in 1 .. Len(q) : q[j].type = "adv" => l[i] < q[j].n

\* A prompt radio is known to advertise until the event that it has ended is
\* handled, and there is one such event for each end.
Prompt(k, e, a) ==
  /\ a # None => k["adv"] = "active" /\ \A i \in 1 .. Len(e) : e[i][1] # "adv"
  /\ \A i \in 1 .. Len(e) : e[i][1] = "adv" => e[i][2] = "idle" /\ k["adv"] = "active"
  /\ \A i, j \in 1 .. Len(e) : e[i][1] = "adv" /\ e[j][1] = "adv" => i = j

Radio(k, e, a) ==
  /\ k \in [Kind -> {"idle", "active"}] /\ e \in Seq(Status) /\ a \in 0 .. MaxAsked
  /\ radio = "prompt" => Prompt(k, e, a)

Inv ==
  /\ enabled \in BOOLEAN /\ asked \in 0 .. MaxAsked
  /\ Queued(active, idle, asked)
  /\ Logged(log, active, asked)
  /\ Radio(known, events, air)

-----------------------------------------------------------------------------
(* The queue *)

\* There is a place for an action: the end of the advertisements or the end.
LEMMA PlaceFound ==
  ASSUME NEW q \in Seq(Action), Sorted(q), NEW a \in Action
  PROVE  /\ Place(q, a) \in 1 .. Len(q) + 1
         /\ \A j \in 1 .. Place(q, a) - 1 : a.type = "scan" \/ q[j].type = "adv"
         /\ Place(q, a) <= Len(q) => a.type = "adv" /\ q[Place(q, a)].type = "scan"
<1> DEFINE P(i) == /\ \A j \in 1 .. i - 1 : a.type = "scan" \/ q[j].type = "adv"
                   /\ i <= Len(q) => a.type = "adv" /\ q[i].type = "scan"
<1>1. PICK k \in 0 .. Len(q) : \A i \in 1 .. Len(q) : q[i].type = IF i <= k THEN "adv" ELSE "scan"
  BY DEF Sorted
<1>2. Len(q) \in Nat /\ a.type \in {"adv", "scan"}
  BY DEF Action, Kind
<1>3. \E i \in 1 .. Len(q) + 1 : P(i)
  <2>1. CASE a.type = "adv"
    <3>1. k + 1 \in 1 .. Len(q) + 1 /\ P(k + 1)
      BY <1>1, <1>2, <2>1
    <3> QED
      BY <3>1
  <2>2. CASE a.type = "scan"
    <3>1. Len(q) + 1 \in 1 .. Len(q) + 1 /\ P(Len(q) + 1)
      BY <1>2, <2>2
    <3> QED
      BY <3>1
  <2> QED
    BY <1>2, <2>1, <2>2
<1>4. Place(q, a) = CHOOSE i \in 1 .. Len(q) + 1 : P(i)
  BY DEF Place
<1>5. Place(q, a) \in 1 .. Len(q) + 1 /\ P(Place(q, a))
  <2> HIDE DEF P
  <2> QED
    BY <1>3, <1>4
<1> QED
  BY <1>5

\* An insertion moves what stands behind it.
LEMMA InsertedAt ==
  ASSUME NEW q \in Seq(Action), NEW a \in Action, NEW p \in 1 .. Len(q) + 1
  PROVE  LET r == InsertAt(q, p, a)
         IN /\ r \in Seq(Action) /\ Len(r) = Len(q) + 1 /\ r[p] = a
            /\ \A i \in 1 .. p - 1 : r[i] = q[i]
            /\ \A i \in p + 1 .. Len(q) + 1 : r[i] = q[i - 1]
<1> DEFINE s == SubSeq(q, 1, p - 1)
           t == SubSeq(q, p, Len(q))
<1>1. Len(q) \in Nat
  OBVIOUS
<1>2. s \in Seq(Action) /\ Len(s) = p - 1 /\ \A i \in 1 .. p - 1 : s[i] = q[i]
  BY <1>1
<1>3. t \in Seq(Action) /\ Len(t) = Len(q) + 1 - p /\ \A i \in 1 .. Len(q) + 1 - p : t[i] = q[p + i - 1]
  BY <1>1
<1>4. InsertAt(q, p, a) = (s \o <<a>>) \o t
  BY DEF InsertAt
<1> DEFINE u == s \o <<a>>
<1> HIDE DEF s, t
<1>5. u \in Seq(Action) /\ Len(u) = p /\ u[p] = a /\ \A i \in 1 .. p - 1 : u[i] = q[i]
  BY <1>1, <1>2
<1> DEFINE r == u \o t
<1> HIDE DEF u
<1>6. r \in Seq(Action) /\ Len(r) = Len(q) + 1
  <2>1. r \in Seq(Action) /\ Len(r) = Len(u) + Len(t)
    BY <1>3, <1>5, ConcatProperties
  <2> QED
    BY <1>1, <1>3, <1>5, <2>1
<1>7. \A i \in 1 .. p : r[i] = u[i]
  BY <1>1, <1>3, <1>5
<1>8. ASSUME NEW i \in p + 1 .. Len(q) + 1 PROVE r[i] = q[i - 1]
  <2>1. r[i] = t[i - p]
    BY <1>1, <1>3, <1>5
  <2>2. t[i - p] = q[p + (i - p) - 1]
    BY <1>1, <1>3
  <2> QED
    BY <1>1, <2>1, <2>2
<1> HIDE DEF r
<1> QED
  BY <1>1, <1>4, <1>5, <1>6, <1>7, <1>8 DEF r, u

\* The queue takes the next action that is asked for.
LEMMA InsertedQueued ==
  ASSUME NEW q, NEW f, NEW n \in 0 .. MaxAsked, Queued(q, f, n), f > 0, NEW a \in Action, a.n = n + 1
  PROVE  Queued(Inserted(q, a), f - 1, n + 1)
<1> DEFINE p == Place(q, a)
           r == Inserted(q, a)
<1>1. q \in Seq(Action) /\ f \in 0 .. Slots /\ f + Len(q) = Slots /\ Len(q) \in Nat /\ Slots \in Nat
      /\ a.type \in {"adv", "scan"} /\ MaxAsked \in Nat
  BY GapQueueAssumption DEF Queued, Action, Kind
<1>2. /\ p \in 1 .. Len(q) + 1
      /\ \A j \in 1 .. p - 1 : a.type = "scan" \/ q[j].type = "adv"
      /\ p <= Len(q) => a.type = "adv" /\ q[p].type = "scan"
  BY <1>1, PlaceFound DEF Queued
<1>3. /\ r \in Seq(Action) /\ Len(r) = Len(q) + 1 /\ r[p] = a
      /\ \A i \in 1 .. p - 1 : r[i] = q[i]
      /\ \A i \in p + 1 .. Len(q) + 1 : r[i] = q[i - 1]
  BY <1>1, <1>2, InsertedAt DEF Inserted
<1>4. ASSUME NEW i \in 1 .. Len(q) PROVE q[i].n <= n /\ q[i].n \in Nat
  <2>1. q[i] \in Action
    BY <1>1
  <2> QED
    BY <1>1, <2>1 DEF Queued, Action
<1>5. PICK k \in 0 .. Len(q) : \A i \in 1 .. Len(q) : q[i].type = IF i <= k THEN "adv" ELSE "scan"
  BY DEF Queued, Sorted
<1> HIDE DEF p, r
<1>6. Sorted(r)
  <2>1. CASE a.type = "adv"
    <3>1. p = k + 1
      <4>1. p \in Nat /\ k \in Nat /\ k <= Len(q) /\ p <= Len(q) + 1
        BY <1>1, <1>2, <1>5
      <4>2. ASSUME p <= k PROVE FALSE
        <5>1. p \in 1 .. Len(q) /\ q[p].type = "scan"
          BY <1>1, <1>2, <4>1, <4>2
        <5> QED
          BY <1>5, <4>2, <5>1
      <4>3. ASSUME k + 1 < p PROVE FALSE
        <5>1. k + 1 \in 1 .. Len(q) /\ k + 1 \in 1 .. p - 1 /\ ~(k + 1 <= k)
          BY <1>1, <1>2, <4>1, <4>3
        <5>2. q[k + 1].type = "adv"
          BY <1>2, <2>1, <5>1
        <5> QED
          BY <1>5, <5>1, <5>2
      <4> QED
        BY <4>1, <4>2, <4>3
    <3>2. k + 1 \in 0 .. Len(r)
      BY <1>1, <1>3
    <3>3. ASSUME NEW i \in 1 .. Len(r) PROVE r[i].type = IF i <= k + 1 THEN "adv" ELSE "scan"
      <4>1. CASE i < p
        <5>1. i \in 1 .. p - 1 /\ i \in 1 .. Len(q) /\ i <= k
          BY <1>1, <1>2, <3>1, <4>1
        <5>2. r[i] = q[i]
          BY <1>3, <5>1
        <5> QED
          BY <1>5, <5>1, <5>2
      <4>2. CASE i = p
        BY <1>1, <1>3, <2>1, <3>1, <4>2
      <4>3. CASE i > p
        <5>1. r[i] = q[i - 1] /\ i - 1 \in 1 .. Len(q) /\ i - 1 > k
          BY <1>1, <1>2, <1>3, <3>1, <4>3
        <5> QED
          BY <1>5, <3>1, <4>3, <5>1
      <4> QED
        BY <1>2, <4>1, <4>2, <4>3
    <3> QED
      BY <3>2, <3>3 DEF Sorted
  <2>2. CASE a.type = "scan"
    <3>1. p = Len(q) + 1
      BY <1>1, <1>2, <2>2
    <3>2. k \in 0 .. Len(r)
      BY <1>1, <1>3
    <3>3. \A i \in 1 .. Len(r) : r[i].type = IF i <= k THEN "adv" ELSE "scan"
      BY <1>1, <1>3, <1>5, <2>2, <3>1
    <3> QED
      BY <3>2, <3>3 DEF Sorted
  <2> QED
    BY <1>1, <2>1, <2>2
<1>7. Rising(r)
  <2> SUFFICES ASSUME NEW i \in 1 .. Len(r), NEW j \in 1 .. Len(r), i < j,
                      r[i].type = "adv", r[j].type = "adv"
               PROVE  r[i].n < r[j].n
    BY DEF Rising
  <2>1. CASE j < p
    <3>1. r[i] = q[i] /\ r[j] = q[j] /\ i \in 1 .. Len(q) /\ j \in 1 .. Len(q)
      BY <1>1, <1>2, <1>3, <2>1
    <3> QED
      BY <3>1 DEF Queued, Rising
  <2>2. CASE j = p
    <3>1. r[i] = q[i] /\ i \in 1 .. Len(q) /\ r[j].n = n + 1
      BY <1>1, <1>2, <1>3, <2>2
    <3> QED
      BY <1>4, <3>1
  <2>3. CASE j > p
    <3>1. r[j] = q[j - 1] /\ j - 1 \in 1 .. Len(q) /\ j - 1 >= p
      BY <1>1, <1>2, <1>3, <2>3
    <3>2. q[p].type = "scan" /\ p \in 1 .. Len(q)
      BY <1>1, <1>2, <3>1
    <3>3. k < p
      BY <1>5, <3>2
    <3>4. ~(j - 1 <= k)
      BY <3>1, <3>2, <3>3
    <3>5. q[j - 1].type = "scan"
      BY <1>5, <3>1, <3>4
    <3> QED
      BY <3>1, <3>5
  <2> QED
    BY <1>2, <2>1, <2>2, <2>3
<1>8. ASSUME NEW i \in 1 .. Len(r) PROVE r[i].n <= n + 1
  <2>1. \/ i < p /\ r[i] = q[i] /\ i \in 1 .. Len(q)
        \/ r[i] = a
        \/ r[i] = q[i - 1] /\ i - 1 \in 1 .. Len(q)
    BY <1>1, <1>2, <1>3
  <2> QED
    BY <1>4, <2>1
<1>9. f - 1 \in 0 .. Slots /\ f - 1 + Len(r) = Slots
  <2> DEFINE lq == Len(q)
             lr == Len(r)
  <2>1. f \in Nat /\ f > 0 /\ lq \in Nat /\ f + lq = Slots /\ lr = lq + 1 /\ Slots \in Nat
    BY <1>1, <1>3
  <2> HIDE DEF lq, lr
  <2>2. f - 1 \in 0 .. Slots /\ f - 1 + lr = Slots
    BY <2>1
  <2> QED
    BY <2>2 DEF lr
<1>10. Queued(r, f - 1, n + 1)
  BY <1>3, <1>6, <1>7, <1>8, <1>9 DEF Queued
<1> QED
  BY <1>10 DEF r

\* What was started came before an action that is only asked for now.
LEMMA InsertedLogged ==
  ASSUME NEW q, NEW f, NEW n \in 0 .. MaxAsked, Queued(q, f, n), NEW l, Logged(l, q, n),
         NEW a \in Action, a.n = n + 1
  PROVE  Logged(l, Inserted(q, a), n + 1)
<1> DEFINE p == Place(q, a)
           r == Inserted(q, a)
<1>1. q \in Seq(Action) /\ Len(q) \in Nat /\ MaxAsked \in Nat
  BY GapQueueAssumption DEF Queued
<1>2. p \in 1 .. Len(q) + 1
  BY <1>1, PlaceFound DEF Queued
<1>3. /\ Len(r) = Len(q) + 1 /\ r[p] = a
      /\ \A i \in 1 .. p - 1 : r[i] = q[i]
      /\ \A i \in p + 1 .. Len(q) + 1 : r[i] = q[i - 1]
  <2>1. r = InsertAt(q, p, a)
    BY DEF Inserted
  <2> HIDE DEF p, r
  <2> QED
    <3> DEFINE z == InsertAt(q, p, a)
    <3>1. /\ z \in Seq(Action) /\ Len(z) = Len(q) + 1 /\ z[p] = a
          /\ \A i \in 1 .. p - 1 : z[i] = q[i]
          /\ \A i \in p + 1 .. Len(q) + 1 : z[i] = q[i - 1]
      BY <1>1, <1>2, InsertedAt
    <3>2. r = z
      BY <2>1
    <3> HIDE DEF z
    <3> QED
      BY <3>1, <3>2
<1>4. ASSUME NEW i \in 1 .. Len(l) PROVE l[i] <= n /\ l[i] \in Nat
  BY <1>1 DEF Logged
<1> HIDE DEF p, r
<1>5. ASSUME NEW i \in 1 .. Len(l), NEW j \in 1 .. Len(r), r[j].type = "adv" PROVE l[i] < r[j].n
  <2>1. \/ r[j] = a
        \/ r[j] = q[j] /\ j \in 1 .. Len(q)
        \/ r[j] = q[j - 1] /\ j - 1 \in 1 .. Len(q)
    BY <1>1, <1>2, <1>3
  <2> QED
    BY <1>4, <1>5, <2>1 DEF Logged
<1> QED
  BY <1>4, <1>5 DEF Logged, r

\* A queue without its first action.
LEMMA TailQueued ==
  ASSUME NEW q, NEW f, NEW n \in 0 .. MaxAsked, Queued(q, f, n), q # << >>
  PROVE  /\ Queued(Tail(q), f + 1, n)
         /\ Head(q) \in Action /\ Head(q).n <= n
         /\ Head(q).type = "adv" =>
              \A j \in 1 .. Len(Tail(q)) : Tail(q)[j].type = "adv" => Head(q).n < Tail(q)[j].n
<1> DEFINE t == Tail(q)
<1>1. q \in Seq(Action) /\ f \in 0 .. Slots /\ f + Len(q) = Slots /\ Slots \in Nat /\ Len(q) \in Nat \ {0}
  BY GapQueueAssumption DEF Queued
<1>2. /\ t \in Seq(Action) /\ Len(t) = Len(q) - 1
      /\ \A i \in 1 .. Len(t) : t[i] = q[i + 1] /\ i + 1 \in 1 .. Len(q)
  BY <1>1
<1>3. Head(q) = q[1] /\ 1 \in 1 .. Len(q)
  BY <1>1
<1> HIDE DEF t
<1>4. PICK k \in 0 .. Len(q) : \A i \in 1 .. Len(q) : q[i].type = IF i <= k THEN "adv" ELSE "scan"
  BY DEF Queued, Sorted
<1>5. Sorted(t)
  <2> DEFINE m == IF k = 0 THEN 0 ELSE k - 1
  <2>1. m \in 0 .. Len(t)
    BY <1>1, <1>2
  <2>2. \A i \in 1 .. Len(t) : t[i].type = IF i <= m THEN "adv" ELSE "scan"
    <3> SUFFICES ASSUME NEW i \in 1 .. Len(t) PROVE t[i].type = IF i <= m THEN "adv" ELSE "scan"
      OBVIOUS
    <3>1. t[i] = q[i + 1] /\ i + 1 \in 1 .. Len(q) /\ i \in Nat \ {0} /\ k \in Nat
      BY <1>1, <1>2
    <3>2. t[i].type = IF i + 1 <= k THEN "adv" ELSE "scan"
      BY <1>4, <3>1
    <3>3. i + 1 <= k <=> i <= m
      BY <3>1
    <3> QED
      BY <3>2, <3>3
  <2> HIDE DEF m
  <2> QED
    BY <2>1, <2>2 DEF Sorted
<1>6. Rising(t)
  <2> SUFFICES ASSUME NEW i \in 1 .. Len(t), NEW j \in 1 .. Len(t), i < j,
                      t[i].type = "adv", t[j].type = "adv"
               PROVE  t[i].n < t[j].n
    BY DEF Rising
  <2>1. t[i] = q[i + 1] /\ t[j] = q[j + 1] /\ i + 1 \in 1 .. Len(q) /\ j + 1 \in 1 .. Len(q) /\ i + 1 < j + 1
    BY <1>1, <1>2
  <2>2. Rising(q)
    BY DEF Queued
  <2> QED
    BY <2>1, <2>2 DEF Rising
<1>7. \A i \in 1 .. Len(t) : t[i].n <= n
  BY <1>2 DEF Queued
<1>8. Queued(t, f + 1, n)
  <2> DEFINE lq == Len(q)
             lt == Len(t)
  <2>1. f \in Nat /\ lq \in Nat \ {0} /\ f + lq = Slots /\ lt = lq - 1 /\ Slots \in Nat
    BY <1>1, <1>2
  <2> HIDE DEF lq, lt
  <2>2. f + 1 \in 0 .. Slots /\ f + 1 + lt = Slots
    BY <2>1
  <2> QED
    BY <1>2, <1>5, <1>6, <1>7, <2>2 DEF Queued, lt
<1>9. Head(q) \in Action /\ Head(q).n <= n
  BY <1>1, <1>3 DEF Queued
<1>10. ASSUME Head(q).type = "adv", NEW j \in 1 .. Len(t), t[j].type = "adv"
       PROVE  Head(q).n < t[j].n
  <2>1. t[j] = q[j + 1] /\ j + 1 \in 1 .. Len(q) /\ 1 < j + 1
    BY <1>1, <1>2
  <2> QED
    BY <1>3, <1>10, <2>1 DEF Queued, Rising
<1> QED
  BY <1>8, <1>9, <1>10 DEF t

-----------------------------------------------------------------------------
(* Running the first action *)

\* The log takes the first advertisement of the queue.
LEMMA HeadLogged ==
  ASSUME NEW q, NEW f, NEW n \in 0 .. MaxAsked, Queued(q, f, n), NEW l, Logged(l, q, n), q # << >>
  PROVE  /\ Logged(l, Tail(q), n)
         /\ Head(q).type = "adv" => Logged(Append(l, Head(q).n), Tail(q), n)
<1> DEFINE t == Tail(q)
           h == Head(q)
<1>1. q \in Seq(Action) /\ Len(q) \in Nat \ {0} /\ l \in Seq(1 .. MaxAsked) /\ Len(l) \in Nat
  BY DEF Queued, Logged
<1>2. Len(t) = Len(q) - 1 /\ \A i \in 1 .. Len(t) : t[i] = q[i + 1] /\ i + 1 \in 1 .. Len(q)
  BY <1>1
<1>3. h = q[1] /\ 1 \in 1 .. Len(q)
  BY <1>1
<1>4. /\ h \in Action /\ h.n <= n
      /\ h.type = "adv" => \A j \in 1 .. Len(t) : t[j].type = "adv" => h.n < t[j].n
  BY TailQueued
<1>5. h.n \in 1 .. MaxAsked
  BY <1>4 DEF Action
<1> HIDE DEF t, h
<1>6. Logged(l, t, n)
  BY <1>2 DEF Logged
<1>7. ASSUME h.type = "adv" PROVE Logged(Append(l, h.n), t, n)
  <2> DEFINE m == Append(l, h.n)
  <2>1. /\ m \in Seq(1 .. MaxAsked) /\ Len(m) = Len(l) + 1 /\ m[Len(l) + 1] = h.n
        /\ \A i \in 1 .. Len(l) : m[i] = l[i]
    BY <1>1, <1>5
  <2> HIDE DEF m
  <2>2. \A i \in 1 .. Len(l) : l[i] < h.n
    BY <1>3, <1>7 DEF Logged
  <2>3. ASSUME NEW i \in 1 .. Len(m), NEW j \in 1 .. Len(m), i < j
        PROVE  m[i] < m[j]
    <3>1. Len(l) \in Nat
      BY <1>1, LenProperties DEF Logged
    <3>2. i \in 1 .. Len(l) /\ m[i] = l[i]
      BY <2>1, <2>3, <3>1
    <3>3. CASE j = Len(l) + 1
      BY <2>1, <2>2, <3>2, <3>3
    <3>4. CASE j # Len(l) + 1
      <4>1. j \in 1 .. Len(l) /\ m[j] = l[j]
        BY <2>1, <3>1, <3>4
      <4> QED
        BY <1>1, <2>3, <3>2, <4>1 DEF Logged
    <3> QED
      BY <3>3, <3>4
  <2>4. \A i \in 1 .. Len(m) : m[i] <= n
    BY <1>1, <1>4, <2>1 DEF Logged
  <2>5. \A i \in 1 .. Len(m), j \in 1 .. Len(t) : t[j].type = "adv" => m[i] < t[j].n
    BY <1>1, <1>4, <1>6, <1>7, <2>1 DEF Logged
  <2>6. Logged(m, t, n)
    BY <2>1, <2>3, <2>4, <2>5 DEF Logged
  <2> QED
    BY <2>6 DEF m
<1> QED
  BY <1>6, <1>7 DEF t, h

\* Status events when one is appended or the first is taken.
LEMMA EventsType ==
  ASSUME NEW e \in Seq(Status), NEW s \in Status
  PROVE  Append(e, s) \in Seq(Status) /\ (e # << >> => Head(e) \in Status /\ Tail(e) \in Seq(Status))
OBVIOUS

\* What meshx_run_actions does to the radio, from what each caller hands to it.
LEMMA RunsFirstKeeps ==
  ASSUME NEW q, NEW f, NEW n \in 0 .. MaxAsked, NEW k, NEW e, NEW r,
         Queued(q, f, n), Logged(log, q, n), Radio(k, e, r), radio' = radio, RunsFirst(q, k, e, r)
  PROVE  /\ CanStart(q, k) => Logged(log', Tail(q), n)
         /\ ~CanStart(q, k) => log' = log
         /\ Radio(known, events, air)'
         /\ k["adv"] = "active" => air' = r
<1>1. CASE ~CanStart(q, k) /\ known' = k /\ events' = e /\ air' = r /\ log' = log
  BY <1>1 DEF Radio
<1>2. CASE /\ CanStart(q, k)
           /\ Starts(k, e, Head(q).type)
           /\ IF Head(q).type = "adv"
              THEN air' = (IF radio = "silent" THEN r ELSE Head(q).n) /\ log' = Append(log, Head(q).n)
              ELSE air' = r /\ log' = log
  <2> DEFINE h == Head(q)
  <2>1. q # << >> /\ k[h.type] = "idle"
    BY <1>2 DEF CanStart
  <2>2. h \in Action
    BY <2>1, TailQueued
  <2>3. h.type \in Kind /\ h.n \in 1 .. MaxAsked
    BY <2>2 DEF Action
  <2>4. Logged(log', Tail(q), n)
    BY <1>2, <2>1, HeadLogged
  <2>5. k["adv"] = "active" => air' = r
    BY <1>2, <2>1
  <2>6. /\ k \in [Kind -> {"idle", "active"}] /\ e \in Seq(Status) /\ r \in 0 .. MaxAsked
        /\ radio = "prompt" => Prompt(k, e, r)
    BY DEF Radio
  <2>7. air' \in 0 .. MaxAsked
    BY <1>2, <2>3, <2>6
  <2>8. known' = (IF radio = "prompt" THEN [k EXCEPT ![h.type] = "active"] ELSE k)
    BY <1>2 DEF Starts
  <2>9. /\ known' \in [Kind -> {"idle", "active"}]
        /\ radio = "prompt" => known'["adv"] = IF h.type = "adv" THEN "active" ELSE k["adv"]
    BY <2>3, <2>6, <2>8 DEF Kind
  <2>10. events' \in Seq(Status) /\ (radio = "prompt" => events' = e)
    <3>1. <<h.type, "active">> \in Status
      BY <2>3 DEF Status
    <3>2. events' = (IF radio = "late" THEN Append(e, <<h.type, "active">>) ELSE e)
      BY <1>2 DEF Starts
    <3> QED
      BY <2>6, <3>1, <3>2, EventsType
  <2>11. radio = "prompt" => Prompt(known', e, air')
    BY <1>2, <2>1, <2>6, <2>9 DEF Prompt
  <2> QED
    BY <1>2, <2>4, <2>5, <2>7, <2>9, <2>10, <2>11 DEF Radio
<1> QED
  BY <1>1, <1>2 DEF RunsFirst

\* What it does to the queue.
LEMMA RunActionsKeep ==
  ASSUME NEW q, NEW f, NEW n \in 0 .. MaxAsked, NEW k, NEW e,
         Queued(q, f, n), Logged(log, q, n), Radio(k, e, air), radio' = radio, RunActions(q, f, k, e)
  PROVE  /\ Queued(active', idle', n) /\ Logged(log', active', n) /\ Radio(known, events, air)'
         /\ k["adv"] = "active" => air' = air
<1>1. /\ CanStart(q, k) => Logged(log', Tail(q), n)
      /\ ~CanStart(q, k) => log' = log
      /\ Radio(known, events, air)'
      /\ k["adv"] = "active" => air' = air
  BY RunsFirstKeeps DEF RunActions
<1>2. CASE CanStart(q, k)
  <2>1. active' = Tail(q) /\ idle' = f + 1 /\ q # << >>
    BY <1>2 DEF RunActions, CanStart
  <2>2. Queued(Tail(q), f + 1, n)
    BY <2>1, TailQueued
  <2> QED
    BY <1>1, <1>2, <2>1, <2>2
<1>3. CASE ~CanStart(q, k)
  <2>1. active' = q /\ idle' = f
    BY <1>3 DEF RunActions
  <2> QED
    BY <1>1, <1>3, <2>1
<1> QED
  BY <1>2, <1>3

-----------------------------------------------------------------------------
(* The actions *)

LEMMA InitInv ==
  ASSUME Init
  PROVE  Inv
<1>1. Queued(<< >>, Slots, 0)
  BY GapQueueAssumption DEF Queued, Sorted, Rising
<1>2. Logged(<< >>, << >>, 0)
  BY DEF Logged
<1>3. Radio(known, << >>, None)
  BY GapQueueAssumption DEF Init, Radio, Prompt, None
<1>4. active = << >> /\ idle = Slots /\ asked = 0 /\ log = << >> /\ events = << >> /\ air = None
      /\ enabled = FALSE
  BY DEF Init
<1>5. 0 \in 0 .. MaxAsked
  BY GapQueueAssumption
<1> QED
  BY <1>1, <1>2, <1>3, <1>4, <1>5 DEF Inv

LEMMA AddKeeps ==
  ASSUME Inv, NEW a \in Action, Add(a)
  PROVE  Inv' /\ (known["adv"] = "active" => air' = air)
<1> DEFINE q == Inserted(active, a)
<1>1. idle > 0 /\ a.n = asked + 1 /\ RunActions(q, idle - 1, known, events)
      /\ asked' = a.n /\ radio' = radio /\ enabled' = enabled
  BY DEF Add
<1>2. asked + 1 \in 0 .. MaxAsked
  BY <1>1, GapQueueAssumption DEF Action, Inv
<1>3. Queued(q, idle - 1, asked + 1) /\ Logged(log, q, asked + 1)
  BY <1>1, InsertedQueued, InsertedLogged DEF Inv
<1> HIDE DEF q
<1>4. /\ Queued(active', idle', asked + 1) /\ Logged(log', active', asked + 1)
      /\ Radio(known, events, air)'
      /\ known["adv"] = "active" => air' = air
  BY <1>1, <1>2, <1>3, RunActionsKeep DEF Inv
<1> QED
  BY <1>1, <1>2, <1>4 DEF Inv

LEMMA StartKeeps ==
  ASSUME Inv, Start
  PROVE  Inv' /\ air' = air
<1>1. /\ known \in [Kind -> {"idle", "active"}] /\ events \in Seq(Status) /\ air \in 0 .. MaxAsked
      /\ radio = "prompt" => Prompt(known, events, air)
  BY DEF Inv, Radio
<1>2. /\ enabled' = TRUE /\ UNCHANGED <<radio, active, idle, air, asked, log>>
      /\ known' = IF radio = "prompt" THEN [known EXCEPT !["scan"] = "active"] ELSE known
      /\ events' = IF radio = "late" THEN Append(events, <<"scan", "active">>) ELSE events
  BY DEF Start, Starts
<1>3. known' \in [Kind -> {"idle", "active"}] /\ known'["adv"] = known["adv"]
  BY <1>1, <1>2 DEF Kind
<1>4. events' \in Seq(Status)
  <2>1. <<"scan", "active">> \in Status
    BY DEF Status, Kind
  <2> QED
    BY <1>1, <1>2, <2>1, EventsType
<1>5. radio = "prompt" => Prompt(known', events', air)
  BY <1>1, <1>2, <1>3 DEF Prompt
<1> QED
  BY <1>1, <1>2, <1>3, <1>4, <1>5 DEF Inv, Radio

\* Stopping drops the queue; the radio may have taken its first action.
LEMMA StopKeeps ==
  ASSUME Inv, Stop
  PROVE  Inv' /\ enabled' # enabled
<1>1. /\ known \in [Kind -> {"idle", "active"}] /\ events \in Seq(Status) /\ air \in 0 .. MaxAsked
      /\ radio = "prompt" => Prompt(known, events, air)
  BY DEF Inv, Radio
<1>2. enabled /\ enabled' = FALSE /\ active' = << >> /\ idle' = Slots /\ radio' = radio /\ asked' = asked
  BY DEF Stop, Stopped
<1>3. Queued(<< >>, Slots, asked)
  BY GapQueueAssumption DEF Inv, Queued, Sorted, Rising
<1>4. \A l, q : Logged(l, q, asked) => Logged(l, << >>, asked)
  BY DEF Logged
<1>5. None \in 0 .. MaxAsked
  BY GapQueueAssumption DEF None
<1>6. PICK scans \in BOOLEAN :
        LET k == IF scans THEN [known EXCEPT !["scan"] = "idle"] ELSE known
            scanEnd == IF scans THEN <<<<"scan", "idle">>>> ELSE <<>>
            advEnd == IF air # None THEN <<<<"adv", "idle">>>> ELSE <<>>
        IN \/ /\ radio = "silent"
              /\ UNCHANGED <<known, events, air, log>>
           \/ /\ radio = "late"
              /\ air' = None /\ events' = events \o scanEnd \o advEnd
              /\ UNCHANGED <<known, log>>
           \/ /\ radio = "prompt" /\ air = None
              /\ known' = k
              /\ UNCHANGED <<events, air, log>>
           \/ /\ radio = "prompt" /\ air # None
              /\ RunsFirst(active, [k EXCEPT !["adv"] = "idle"], events, None)
  BY DEF Stop
<1> DEFINE k == IF scans THEN [known EXCEPT !["scan"] = "idle"] ELSE known
           scanEnd == IF scans THEN <<<<"scan", "idle">>>> ELSE <<>>
           advEnd == IF air # None THEN <<<<"adv", "idle">>>> ELSE <<>>
<1>7. k \in [Kind -> {"idle", "active"}] /\ k["adv"] = known["adv"]
  BY <1>1 DEF Kind
<1>8. CASE radio = "silent" /\ UNCHANGED <<known, events, air, log>>
  BY <1>1, <1>2, <1>3, <1>4, <1>8 DEF Inv, Radio
<1>9. CASE radio = "late" /\ air' = None /\ events' = events \o scanEnd \o advEnd /\ UNCHANGED <<known, log>>
  <2>1. <<"scan", "idle">> \in Status /\ <<"adv", "idle">> \in Status
    BY DEF Status, Kind
  <2>2. scanEnd \in Seq(Status) /\ advEnd \in Seq(Status)
    BY <2>1
  <2> HIDE DEF scanEnd, advEnd
  <2>3. events' \in Seq(Status)
    BY <1>1, <1>9, <2>2, ConcatProperties
  <2> QED
    BY <1>1, <1>2, <1>3, <1>4, <1>5, <1>9, <2>3 DEF Inv, Radio
<1>10. CASE radio = "prompt" /\ air = None /\ known' = k /\ UNCHANGED <<events, air, log>>
  <2> HIDE DEF k
  <2>1. Prompt(k, events, air)
    BY <1>1, <1>7, <1>10 DEF Prompt
  <2> QED
    BY <1>1, <1>2, <1>3, <1>4, <1>7, <1>10, <2>1 DEF Inv, Radio
<1>11. CASE radio = "prompt" /\ air # None /\ RunsFirst(active, [k EXCEPT !["adv"] = "idle"], events, None)
  <2> HIDE DEF k
  <2> DEFINE h == [k EXCEPT !["adv"] = "idle"]
  <2>1. h \in [Kind -> {"idle", "active"}] /\ h["adv"] = "idle"
    BY <1>7 DEF Kind
  <2> HIDE DEF h
  <2>2. \A i \in 1 .. Len(events) : events[i][1] # "adv"
    BY <1>1, <1>11 DEF Prompt
  <2>3. Radio(h, events, None)
    BY <1>1, <1>5, <2>1, <2>2 DEF Radio, Prompt
  <2>4. RunsFirst(active, h, events, None)
    BY <1>11 DEF h
  <2>5. /\ Logged(log', Tail(active), asked) \/ log' = log
        /\ Radio(known, events, air)'
    BY <1>2, <2>3, <2>4, RunsFirstKeeps DEF Inv
  <2> QED
    BY <1>2, <1>3, <1>4, <2>5 DEF Inv
<1> QED
  BY <1>2, <1>6, <1>8, <1>9, <1>10, <1>11

\* An advertisement has been sent: the event that says so is the only one.
LEMMA SentKeeps ==
  ASSUME Inv, Sent
  PROVE  Inv' /\ air' = None
<1> DEFINE s == <<"adv", "idle">>
           e == Append(events, s)
<1>1. /\ known \in [Kind -> {"idle", "active"}] /\ events \in Seq(Status)
      /\ radio = "prompt" => Prompt(known, events, air)
  BY DEF Inv, Radio
<1>2. air # None /\ air' = None /\ events' = e /\ UNCHANGED <<radio, enabled, known, active, idle, asked, log>>
  BY DEF Sent
<1>3. e \in Seq(Status) /\ Len(events) \in Nat /\ Len(e) = Len(events) + 1 /\ e[Len(events) + 1] = s
      /\ \A i \in 1 .. Len(events) : e[i] = events[i]
  BY <1>1, EventsType DEF Status, Kind
<1> HIDE DEF e
<1>4. ASSUME radio = "prompt" PROVE Prompt(known, e, None)
  <2>1. known["adv"] = "active" /\ \A i \in 1 .. Len(events) : events[i][1] # "adv"
    BY <1>1, <1>2, <1>4 DEF Prompt
  <2>2. \A i \in 1 .. Len(e) : e[i][1] = "adv" => i = Len(events) + 1
    BY <1>3, <2>1
  <2> QED
    BY <1>3, <2>1, <2>2 DEF Prompt
<1>5. None \in 0 .. MaxAsked
  BY GapQueueAssumption DEF None
<1> QED
  BY <1>1, <1>2, <1>3, <1>4, <1>5 DEF Inv, Radio

LEMMA ScanEndsKeeps ==
  ASSUME Inv, ScanEnds
  PROVE  Inv' /\ air' = air
<1> DEFINE s == <<"scan", "idle">>
           e == Append(events, s)
<1>1. /\ known \in [Kind -> {"idle", "active"}] /\ events \in Seq(Status) /\ air \in 0 .. MaxAsked
      /\ radio = "prompt" => Prompt(known, events, air)
  BY DEF Inv, Radio
<1>2. events' = e /\ UNCHANGED <<radio, enabled, known, active, idle, air, asked, log>>
  BY DEF ScanEnds
<1>3. e \in Seq(Status) /\ Len(events) \in Nat /\ Len(e) = Len(events) + 1 /\ e[Len(events) + 1] = s
      /\ \A i \in 1 .. Len(events) : e[i] = events[i]
  BY <1>1, EventsType DEF Status, Kind
<1> HIDE DEF e
<1>4. \A i \in 1 .. Len(e) : e[i][1] = "adv" => i \in 1 .. Len(events) /\ e[i] = events[i]
  BY <1>3
<1>5. ASSUME radio = "prompt" PROVE Prompt(known, e, air)
  BY <1>1, <1>4, <1>5 DEF Prompt
<1> QED
  BY <1>1, <1>2, <1>3, <1>5 DEF Inv, Radio

\* The handler of an event: the end of an advertisement leaves no other behind.
LEMMA HandleStatusKeeps ==
  ASSUME Inv, HandleStatus
  PROVE  Inv' /\ (radio = "prompt" /\ air # None => air' = air)
<1> DEFINE s == Head(events)
           k == [known EXCEPT ![s[1]] = s[2]]
           e == Tail(events)
<1>1. /\ known \in [Kind -> {"idle", "active"}] /\ events \in Seq(Status) /\ air \in 0 .. MaxAsked
      /\ radio = "prompt" => Prompt(known, events, air)
  BY DEF Inv, Radio
<1>2. events # << >> /\ UNCHANGED <<radio, enabled, asked>>
  BY DEF HandleStatus
<1>3. /\ s \in Status /\ s[1] \in Kind /\ s[2] \in {"idle", "active"} /\ s = events[1]
      /\ e \in Seq(Status) /\ Len(events) \in Nat \ {0} /\ Len(e) = Len(events) - 1
      /\ \A i \in 1 .. Len(e) : e[i] = events[i + 1] /\ i + 1 \in 1 .. Len(events)
  <2>1. s \in Status /\ e \in Seq(Status)
    BY <1>1, <1>2, EventsType
  <2>2. s[1] \in Kind /\ s[2] \in {"idle", "active"}
    BY <2>1 DEF Status
  <2> QED
    BY <1>1, <1>2, <2>1, <2>2
<1> HIDE DEF s, e
<1>4. /\ k \in [Kind -> {"idle", "active"}]
      /\ k["adv"] = IF s[1] = "adv" THEN s[2] ELSE known["adv"]
  BY <1>1, <1>3 DEF Kind
<1>5. \/ RunActions(active, idle, k, e)
      \/ known' = k /\ events' = e /\ UNCHANGED <<active, idle, air, log>>
  BY DEF HandleStatus, s, e
<1> HIDE DEF k
<1>6. ASSUME radio = "prompt" PROVE Prompt(k, e, air) /\ (air # None => k["adv"] = "active")
  <2>1. Prompt(known, events, air) /\ 1 \in 1 .. Len(events)
    BY <1>1, <1>3, <1>6
  <2>2. CASE s[1] = "adv"
    <3>1. \A i \in 1 .. Len(e) : e[i][1] # "adv"
      BY <1>3, <2>1, <2>2 DEF Prompt
    <3>2. air = None
      BY <1>3, <2>1, <2>2 DEF Prompt
    <3> QED
      BY <3>1, <3>2 DEF Prompt
  <2>3. CASE s[1] # "adv"
    <3>1. k["adv"] = known["adv"]
      BY <1>4, <2>3
    <3>2. \A i \in 1 .. Len(e) : e[i] = events[i + 1] /\ i + 1 \in 1 .. Len(events)
      BY <1>3
    <3>3. \A i, j \in 1 .. Len(e) : i + 1 = j + 1 => i = j
      BY <1>3
    <3> HIDE DEF e
    <3>4. air # None => k["adv"] = "active" /\ \A i \in 1 .. Len(e) : e[i][1] # "adv"
      BY <2>1, <3>1, <3>2 DEF Prompt
    <3>5. ASSUME NEW i \in 1 .. Len(e), e[i][1] = "adv" PROVE e[i][2] = "idle" /\ k["adv"] = "active"
      BY <2>1, <3>1, <3>2, <3>5 DEF Prompt
    <3>6. ASSUME NEW i \in 1 .. Len(e), NEW j \in 1 .. Len(e), e[i][1] = "adv", e[j][1] = "adv"
          PROVE  i = j
      <4>1. i + 1 = j + 1
        BY <2>1, <3>2, <3>6 DEF Prompt
      <4> QED
        BY <3>3, <4>1
    <3> QED
      BY <3>4, <3>5, <3>6 DEF Prompt
  <2> QED
    BY <2>2, <2>3
<1>7. Radio(k, e, air)
  BY <1>1, <1>3, <1>4, <1>6 DEF Radio
<1>8. CASE RunActions(active, idle, k, e)
  <2>1. /\ Queued(active', idle', asked) /\ Logged(log', active', asked) /\ Radio(known, events, air)'
        /\ k["adv"] = "active" => air' = air
    BY <1>2, <1>7, <1>8, RunActionsKeep DEF Inv
  <2> QED
    BY <1>2, <1>6, <2>1 DEF Inv
<1>9. CASE known' = k /\ events' = e /\ UNCHANGED <<active, idle, air, log>>
  BY <1>2, <1>7, <1>9 DEF Inv, Radio
<1> QED
  BY <1>5, <1>8, <1>9

\* Every step keeps the invariant, and the advertisement of a prompt radio.
LEMMA NextKeeps ==
  ASSUME Inv, [Next]_vars
  PROVE  Inv' /\ (radio = "prompt" /\ air # None /\ enabled' = enabled => air' \in {air, None})
<1>1. radio = "prompt" /\ air # None => known["adv"] = "active"
  BY DEF Inv, Radio, Prompt
<1>2. CASE \E a \in Action : Add(a)
  BY <1>1, <1>2, AddKeeps
<1>3. CASE Start
  BY <1>3, StartKeeps
<1>4. CASE Stop
  BY <1>4, StopKeeps
<1>5. CASE Sent
  BY <1>5, SentKeeps
<1>6. CASE ScanEnds
  BY <1>6, ScanEndsKeeps
<1>7. CASE HandleStatus
  BY <1>7, HandleStatusKeeps
<1>8. CASE UNCHANGED vars
  BY <1>8 DEF vars, Inv, Radio
<1> QED
  BY <1>2, <1>3, <1>4, <1>5, <1>6, <1>7, <1>8 DEF Next

LEMMA SpecInv == Spec => []Inv
<1>1. Init => Inv
  BY InitInv
<1>2. Inv /\ [Next]_vars => Inv'
  BY NextKeeps
<1> QED
  BY <1>1, <1>2, PTL DEF Spec

\* Every slot is either free or holds a waiting action, across refusals, stops
\* and restarts: meshx_run_actions gives back each slot that
\* meshx_sort_insert_action and meshx_append_action take.
THEOREM TypeCorrectQueue == Spec => []TypeOK
<1>1. Inv => TypeOK
  BY DEF Inv, Queued, Radio, TypeOK
<1> QED
  BY <1>1, SpecInv, PTL

\* Advertisements start in the order they were asked for, for any numbers of
\* slots, actions and late events: meshx_list_sort_insert puts none before
\* another, although scans are overtaken, and the queue is dropped as a whole.
THEOREM StartInOrder == Spec => []InOrder
<1>1. ASSUME Inv PROVE InOrder
  <2>1. Len(log) \in Nat /\ DOMAIN log = 1 .. Len(log)
    BY <1>1 DEF Inv, Logged
  <2> QED
    BY <1>1, <2>1 DEF Inv, Logged, InOrder
<1> QED
  BY <1>1, SpecInv, PTL

\* A radio that reports at once what a call changes, and nothing else, is not
\* given another advertisement before it has sent the one it has, unless the
\* stack is stopped: its state is known to be active until the event that it
\* has ended is handled, and there is never a second such event.
THEOREM NoneReplaced == Spec => NotReplaced
<1>1. Inv /\ [Next]_vars => [radio = "prompt" /\ air # None /\ enabled' = enabled => air' \in {air, None}]_vars
  BY NextKeeps
<1> QED
  BY <1>1, SpecInv, PTL DEF Spec, NotReplaced
=============================================================================
