-------------------------- MODULE LowerTransProofs --------------------------
(***************************************************************************)
(* Proofs about LowerTrans, for any script of messages, any numbers of     *)
(* tasks, segments and retries and every setting of the environment.       *)
(*                                                                         *)
(* The inductive invariant Inv speaks of each node by itself: its transmit *)
(* tasks (TxInv, Counted, and while it is up Full and Waits), its receive  *)
(* tasks (RxInv, AllKept), the timers of its tasks, and what the packets   *)
(* in the air say of it.  Every action is one node's, so a lemma for each  *)
(* handler tells what it makes of one record of tasks, TxStep and RxStep   *)
(* sum that up, and StepKinds divides the steps of the system into those   *)
(* two and the posting of timeouts.  The theorems follow from Inv; the     *)
(* last one, the refinement of SegTransfer, from Inv and Told, which ties  *)
(* the lists of a node to the outcomes its users have been told.           *)
(***************************************************************************)
EXTENDS LowerTrans, SequenceTheorems, FiniteSetTheorems, WellFoundedInduction, TLAPS

-----------------------------------------------------------------------------
(* Lists of tasks *)

\* The elements after k move up by one place.
LEMMA RemoveAtList ==
  ASSUME NEW S, NEW s \in Seq(S), NEW k \in 1 .. Len(s)
  PROVE  /\ RemoveAt(s, k) \in Seq(S) /\ Len(RemoveAt(s, k)) = Len(s) - 1
         /\ \A j \in 1 .. Len(s) - 1 : RemoveAt(s, k)[j] = IF j < k THEN s[j] ELSE s[j + 1]
<1> DEFINE a == SubSeq(s, 1, k - 1)
           b == SubSeq(s, k + 1, Len(s))
<1>1. /\ a \in Seq(S) /\ Len(a) = k - 1 /\ \A j \in 1 .. k - 1 : a[j] = s[j]
      /\ b \in Seq(S) /\ Len(b) = Len(s) - k /\ \A j \in 1 .. Len(s) - k : b[j] = s[k + j]
  BY SubSeqProperties
<1> HIDE DEF a, b
<1>2. RemoveAt(s, k) = a \o b
  BY DEF RemoveAt, a, b
<1>3. /\ a \o b \in Seq(S) /\ Len(a \o b) = Len(s) - 1
      /\ \A j \in 1 .. Len(s) - 1 : (a \o b)[j] = IF j < k THEN a[j] ELSE b[j - (k - 1)]
  BY <1>1, ConcatProperties
<1>4. \A j \in k .. Len(s) - 1 : b[j - (k - 1)] = s[j + 1]
  BY <1>1
<1> QED
  BY <1>1, <1>2, <1>3, <1>4

\* A removal keeps the order of what it leaves.
LEMMA RemoveFirstList ==
  ASSUME NEW S, NEW s \in Seq(S), NEW e, IsInjective(s)
  PROVE  LET r == RemoveFirst(s, e) IN
         /\ r \in Seq(S) /\ IsInjective(r) /\ ToSet(r) = ToSet(s) \ {e}
         /\ e \notin ToSet(s) => r = s
         /\ \A i, j \in DOMAIN r : i < j =>
              \E k, l \in DOMAIN s : k < l /\ r[i] = s[k] /\ r[j] = s[l]
<1> DEFINE r == RemoveFirst(s, e)
<1>1. Len(s) \in Nat /\ DOMAIN s = 1 .. Len(s)
  OBVIOUS
<1>2. CASE ~ \E i \in 1 .. Len(s) : s[i] = e
  BY <1>1, <1>2 DEF RemoveFirst, ToSet
<1>3. CASE \E i \in 1 .. Len(s) : s[i] = e
  <2>1. PICK k \in 1 .. Len(s) : s[k] = e
    BY <1>3
  <2>2. {i \in 1 .. Len(s) : s[i] = e} = {k}
    BY <1>1, <2>1 DEF IsInjective
  <2>3. r = RemoveAt(s, k)
    BY <1>3, <2>2 DEF RemoveFirst, SelectInSeq, Min
  <2>4. /\ r \in Seq(S) /\ Len(r) = Len(s) - 1 /\ DOMAIN r = 1 .. Len(s) - 1
        /\ \A j \in 1 .. Len(s) - 1 : r[j] = IF j < k THEN s[j] ELSE s[j + 1]
    <3> HIDE DEF r
    <3>1. /\ r \in Seq(S) /\ Len(r) = Len(s) - 1
          /\ \A j \in 1 .. Len(s) - 1 : r[j] = IF j < k THEN s[j] ELSE s[j + 1]
      BY <1>1, <2>3, RemoveAtList, Zenon
    <3>2. DOMAIN r = 1 .. Len(r)
      BY <3>1
    <3> QED
      BY <3>1, <3>2
  <2> HIDE DEF r
  <2>5. \A i, j \in DOMAIN r : i < j =>
              \E c, l \in DOMAIN s : c < l /\ r[i] = s[c] /\ r[j] = s[l]
    <3> SUFFICES ASSUME NEW i \in DOMAIN r, NEW j \in DOMAIN r, i < j
                 PROVE  \E c, l \in DOMAIN s : c < l /\ r[i] = s[c] /\ r[j] = s[l]
      OBVIOUS
    <3> DEFINE c == IF i < k THEN i ELSE i + 1
               l == IF j < k THEN j ELSE j + 1
    <3>1. c \in DOMAIN s /\ l \in DOMAIN s /\ c < l /\ r[i] = s[c] /\ r[j] = s[l]
      BY <1>1, <2>4
    <3> QED
      BY <3>1
  <2>6. IsInjective(r)
    <3> SUFFICES ASSUME NEW i \in DOMAIN r, NEW j \in DOMAIN r, i < j PROVE r[i] # r[j]
      BY <2>4 DEF IsInjective
    <3> QED
      BY <1>1, <2>5 DEF IsInjective
  <2>7. ToSet(r) \subseteq ToSet(s) \ {e}
    <3> SUFFICES ASSUME NEW j \in DOMAIN r PROVE r[j] \in ToSet(s) /\ r[j] # e
      BY DEF ToSet
    <3>1. PICK l \in DOMAIN s : l # k /\ r[j] = s[l]
      <4>1. CASE j < k
        BY <1>1, <2>4, <4>1
      <4>2. CASE ~(j < k)
        BY <1>1, <2>4, <4>2
      <4> QED
        BY <4>1, <4>2
    <3> QED
      BY <1>1, <2>1, <3>1 DEF ToSet, IsInjective
  <2>8. ToSet(s) \ {e} \subseteq ToSet(r)
    <3> SUFFICES ASSUME NEW l \in DOMAIN s, l # k PROVE s[l] \in ToSet(r)
      BY <2>1 DEF ToSet
    <3> DEFINE j == IF l < k THEN l ELSE l - 1
    <3>1. j \in DOMAIN r /\ r[j] = s[l]
      BY <1>1, <2>4
    <3> QED
      BY <3>1 DEF ToSet
  <2>9. e \in ToSet(s)
    BY <1>1, <2>1 DEF ToSet
  <2> QED
    BY <2>4, <2>5, <2>6, <2>7, <2>8, <2>9 DEF r
<1> QED
  BY <1>2, <1>3

\* Append is for the lists whose elements must stay different.
LEMMA AppendNew ==
  ASSUME NEW S, NEW s \in Seq(S), NEW e \in S, IsInjective(s), e \notin ToSet(s)
  PROVE  LET r == Append(s, e) IN
         /\ r \in Seq(S) /\ IsInjective(r) /\ ToSet(r) = ToSet(s) \cup {e}
         /\ DOMAIN r = 1 .. Len(s) + 1
         /\ \A j \in 1 .. Len(s) + 1 : r[j] = IF j <= Len(s) THEN s[j] ELSE e
<1> DEFINE r == Append(s, e)
<1>1. Len(s) \in Nat /\ DOMAIN s = 1 .. Len(s)
  OBVIOUS
<1>2. /\ r \in Seq(S) /\ Len(r) = Len(s) + 1 /\ DOMAIN r = 1 .. Len(s) + 1
      /\ \A j \in 1 .. Len(s) + 1 : r[j] = IF j <= Len(s) THEN s[j] ELSE e
  OBVIOUS
<1> HIDE DEF r
<1>3. \A j \in 1 .. Len(s) : s[j] # e
  BY <1>1 DEF ToSet
<1>4. IsInjective(r)
  BY <1>1, <1>2, <1>3 DEF IsInjective
<1>5. ToSet(r) = ToSet(s) \cup {e}
  BY <1>1, <1>2 DEF ToSet
<1> QED
  BY <1>2, <1>4, <1>5 DEF r

\* Taking the head, as the idle lists lose their tasks.
LEMMA TakeHead ==
  ASSUME NEW S, NEW s \in Seq(S), IsInjective(s), s # <<>>
  PROVE  /\ Head(s) \in S /\ Head(s) \in ToSet(s)
         /\ Tail(s) \in Seq(S) /\ IsInjective(Tail(s)) /\ ToSet(Tail(s)) = ToSet(s) \ {Head(s)}
<1> DEFINE r == Tail(s)
<1>1. Len(s) \in Nat /\ DOMAIN s = 1 .. Len(s) /\ Len(s) >= 1 /\ Head(s) = s[1] /\ Head(s) \in S
  BY EmptySeq
<1>2. /\ r \in Seq(S) /\ Len(r) = Len(s) - 1 /\ DOMAIN r = 1 .. Len(s) - 1
      /\ \A j \in 1 .. Len(s) - 1 : r[j] = s[j + 1]
  BY <1>1, HeadTailProperties
<1> HIDE DEF r
<1>3. IsInjective(r)
  <2> SUFFICES ASSUME NEW i \in DOMAIN r, NEW j \in DOMAIN r, r[i] = r[j] PROVE i = j
    BY DEF IsInjective
  <2>1. i + 1 \in DOMAIN s /\ j + 1 \in DOMAIN s /\ s[i + 1] = s[j + 1]
    BY <1>1, <1>2
  <2> QED
    BY <1>2, <2>1 DEF IsInjective
<1>4. Head(s) \in ToSet(s)
  BY <1>1 DEF ToSet
<1>5. ToSet(r) \subseteq ToSet(s) \ {Head(s)}
  <2> SUFFICES ASSUME NEW j \in DOMAIN r PROVE r[j] \in ToSet(s) /\ r[j] # s[1]
    BY <1>1 DEF ToSet
  <2>1. j + 1 \in DOMAIN s /\ r[j] = s[j + 1] /\ j + 1 # 1
    BY <1>1, <1>2
  <2> QED
    BY <1>1, <2>1 DEF ToSet, IsInjective
<1>6. ToSet(s) \ {Head(s)} \subseteq ToSet(r)
  <2> SUFFICES ASSUME NEW l \in DOMAIN s, s[l] # s[1] PROVE s[l] \in ToSet(r)
    BY <1>1 DEF ToSet
  <2>1. l - 1 \in DOMAIN r /\ r[l - 1] = s[l]
    BY <1>1, <1>2
  <2> QED
    BY <2>1 DEF ToSet
<1> QED
  BY <1>1, <1>2, <1>3, <1>4, <1>5, <1>6 DEF r

\* How often a task is in a list without repetitions.
LEMMA InSeqIs ==
  ASSUME NEW S, NEW s \in Seq(S), IsInjective(s), NEW t
  PROVE  InSeq(s, t) = IF t \in ToSet(s) THEN 1 ELSE 0
<1>1. CASE t \in ToSet(s)
  <2>1. PICK i \in DOMAIN s : s[i] = t
    BY <1>1 DEF ToSet
  <2>2. {j \in DOMAIN s : s[j] = t} = {i}
    BY <2>1 DEF IsInjective
  <2> QED
    BY <1>1, <2>2, FS_Singleton DEF InSeq
<1>2. CASE t \notin ToSet(s)
  <2>1. {j \in DOMAIN s : s[j] = t} = {}
    BY <1>2 DEF ToSet
  <2> QED
    BY <1>2, <2>1, FS_EmptySet DEF InSeq
<1> QED
  BY <1>1, <1>2
\* What a search from the front of a list finds.
LEMMA LeastIndex ==
  ASSUME NEW R \in SUBSET Nat, R # {}
  PROVE  \E i \in R : \A j \in R : i <= j
<1>1. \E i \in R : \A j \in R : ~ (<<j, i>> \in OpToRel(<, Nat))
  BY WFMin, NatLessThanWellFounded
<1>2. PICK i \in R : \A j \in R : ~ (<<j, i>> \in OpToRel(<, Nat))
  BY <1>1
<1>3. \A j \in R : ~ (j < i)
  BY <1>2 DEF OpToRel
<1> QED
  BY <1>3

-----------------------------------------------------------------------------
(* Transmit tasks of one node *)

\* Messages have a source, another node as destination, and segments.
LEMMA ScriptTyped ==
  ASSUME setting \in Settings
  PROVE  /\ Script \in Seq(MessageOf) /\ Msg \subseteq Nat /\ NONE \notin Msg
         /\ StaleTimeouts \in BOOLEAN /\ TimerFails \in BOOLEAN /\ RplRejects \in BOOLEAN /\ Duplicates \in BOOLEAN
         /\ \A m \in Msg : Script[m] \in MessageOf /\ Seg(m) \subseteq Segs /\ 0 \in Seg(m)
         /\ \A m \in Msg : Script[m].src \in Node /\ Script[m].src # Script[m].dst /\ Script[m].last \in 0 .. 31
<1>1. setting \in [script : Seq(MessageOf), stale : BOOLEAN, timerFails : BOOLEAN,
                   rplRejects : BOOLEAN, duplicates : BOOLEAN]
  BY LowerTransAssumption
<1>2. /\ Script \in Seq(MessageOf)
      /\ StaleTimeouts \in BOOLEAN /\ TimerFails \in BOOLEAN /\ RplRejects \in BOOLEAN /\ Duplicates \in BOOLEAN
  BY <1>1 DEF Script, StaleTimeouts, TimerFails, RplRejects, Duplicates
<1>3. Msg = 1 .. Len(Script) /\ Len(Script) \in Nat
  BY <1>2 DEF Msg
<1>4. \A m \in Msg : Script[m] \in MessageOf
  BY <1>2, <1>3
<1>5. \A m \in Msg : Script[m].src \in Node /\ Script[m].last \in 0 .. 31
  BY <1>4 DEF MessageOf
<1>6. \A m \in Msg : Script[m].src # Script[m].dst
  BY LowerTransAssumption DEF Msg, Script
<1>7. \A m \in Msg : Seg(m) \subseteq Segs /\ 0 \in Seg(m)
  BY <1>5 DEF Seg, Segs
<1> QED
  BY <1>2, <1>3, <1>4, <1>5, <1>6, <1>7 DEF NONE

\* The transmit tasks of node n: no task is in two lists, a task in use has a
\* message of the node, and active tasks have different destinations.
TxInv(n, x) ==
  /\ x \in TxState
  /\ IsInjective(x.idle) /\ IsInjective(x.pending)
  /\ ToSet(x.idle) \cap ToSet(x.pending) = {}
  /\ ToSet(x.idle) \cap x.active = {} /\ ToSet(x.pending) \cap x.active = {}
  /\ \A t \in TxSlot : x.task[t].msg # NONE => Script[x.task[t].msg].src = n
  /\ \A t \in x.active \cup ToSet(x.pending) : x.task[t].msg # NONE
  /\ \A t, u \in x.active : Dst(x, t) = Dst(x, u) => t = u

\* The retries of a task in use are not used up.
Counted(x) == \A t \in x.active \cup ToSet(x.pending) : x.task[t].tries <= Retries

\* No task is lost.
Full(x) == ToSet(x.idle) \cup ToSet(x.pending) \cup x.active = TxSlot

\* Every task that waits has one to wait for.
Waits(x) == \A t \in ToSet(x.pending) : Blocked(x, t)

\* What waits is a task.
LEMMA PendingSlots ==
  ASSUME NEW n \in Node, NEW x, TxInv(n, x)
  PROVE  x.active \subseteq TxSlot /\ ToSet(x.pending) \subseteq TxSlot /\ ToSet(x.idle) \subseteq TxSlot
<1>1. x.idle \in Seq(TxSlot) /\ x.pending \in Seq(TxSlot) /\ x.active \subseteq TxSlot
  BY DEF TxInv, TxState
<1> QED
  BY <1>1 DEF ToSet

\* The fields of the transmit tasks of a node.
LEMMA TxTyped ==
  ASSUME NEW x \in TxState, NEW a \in SUBSET TxSlot, NEW p \in Seq(TxSlot), NEW i \in Seq(TxSlot),
         NEW k \in [TxSlot -> TxTask]
  PROVE  [x EXCEPT !.active = a, !.pending = p, !.idle = i, !.task = k] \in TxState
BY DEF TxState

\* What a release of task t makes of x.
Released(n, x, t, y) ==
  /\ TxInv(n, y) /\ (Full(x) => Full(y))
  /\ y.active = x.active \ {t} /\ ToSet(y.pending) = ToSet(x.pending) \ {t}
  /\ y.pending = RemoveFirst(x.pending, t)
  /\ \A u \in TxSlot : y.task[u].msg = x.task[u].msg /\ y.task[u].tries = x.task[u].tries

\* meshx_lower_trans_tx_task_release: the task is idle, the others are where they were.
LEMMA ReleaseTask ==
  ASSUME NEW n \in Node, NEW x, TxInv(n, x), NEW t \in TxSlot
  PROVE  Released(n, x, t, Release(x, t))
<1> DEFINE y == Release(x, t)
           rest == RemoveFirst(x.idle, t)
<1>1. /\ x.idle \in Seq(TxSlot) /\ x.pending \in Seq(TxSlot) /\ x.active \subseteq TxSlot
      /\ x.task \in [TxSlot -> TxTask] /\ IsInjective(x.idle) /\ IsInjective(x.pending)
  BY DEF TxInv, TxState
<1>2. /\ y.idle = Append(rest, t) /\ y.pending = RemoveFirst(x.pending, t) /\ y.active = x.active \ {t}
      /\ y.task = [x.task EXCEPT ![t].stored = FALSE]
      /\ y = [x EXCEPT !.active = y.active, !.pending = y.pending, !.idle = y.idle, !.task = y.task]
  <2>1. x \in TxState
    BY DEF TxInv
  <2>2. /\ y.idle = Append(rest, t) /\ y.pending = RemoveFirst(x.pending, t) /\ y.active = x.active \ {t}
        /\ y.task = [x.task EXCEPT ![t].stored = FALSE]
    BY <2>1 DEF TxState, Release
  <2>3. y = [x EXCEPT !.active = x.active \ {t}, !.pending = RemoveFirst(x.pending, t),
                      !.idle = Append(rest, t), !.task = [x.task EXCEPT ![t].stored = FALSE]]
    BY <2>1 DEF TxState, Release
  <2> HIDE DEF y, rest
  <2> QED
    BY <2>2, <2>3
<1> HIDE DEF y
<1>3. y.pending \in Seq(TxSlot) /\ IsInjective(y.pending) /\ ToSet(y.pending) = ToSet(x.pending) \ {t}
  BY <1>1, <1>2, RemoveFirstList
<1>4. rest \in Seq(TxSlot) /\ IsInjective(rest) /\ ToSet(rest) = ToSet(x.idle) \ {t}
  BY <1>1, RemoveFirstList
<1> HIDE DEF rest
<1>5. y.idle \in Seq(TxSlot) /\ IsInjective(y.idle) /\ ToSet(y.idle) = ToSet(x.idle) \cup {t}
  BY <1>2, <1>4, AppendNew
<1>6. /\ y.task \in [TxSlot -> TxTask]
      /\ \A u \in TxSlot : y.task[u].msg = x.task[u].msg /\ y.task[u].tries = x.task[u].tries
  <2>1. x.task[t] \in TxTask
    BY <1>1
  <2>2. /\ [x.task[t] EXCEPT !.stored = FALSE] \in TxTask
        /\ [x.task[t] EXCEPT !.stored = FALSE].msg = x.task[t].msg
        /\ [x.task[t] EXCEPT !.stored = FALSE].tries = x.task[t].tries
    BY <2>1 DEF TxTask
  <2> QED
    BY <1>1, <1>2, <2>2
<1>7. y \in TxState
  <2>1. x \in TxState /\ y.active \in SUBSET TxSlot
    BY <1>1, <1>2 DEF TxInv
  <2>2. [x EXCEPT !.active = y.active, !.pending = y.pending, !.idle = y.idle, !.task = y.task] \in TxState
    BY <1>3, <1>5, <1>6, <2>1, TxTyped
  <2> QED
    BY <1>2, <2>2
<1>8. /\ \A u \in TxSlot : y.task[u].msg # NONE => Script[y.task[u].msg].src = n
      /\ \A u \in y.active \cup ToSet(y.pending) : y.task[u].msg # NONE
      /\ \A u, v \in y.active : Dst(y, u) = Dst(y, v) => u = v
  BY <1>1, <1>2, <1>3, <1>6, PendingSlots DEF TxInv, Dst
<1>9. TxInv(n, y)
  BY <1>2, <1>3, <1>5, <1>7, <1>8 DEF TxInv
<1>10. Full(x) => Full(y)
  BY <1>2, <1>3, <1>5 DEF Full
<1> QED
  BY <1>2, <1>3, <1>6, <1>9, <1>10 DEF y, Released

\* What does not touch the lists and the messages of the tasks.
LEMMA SameTasks ==
  ASSUME NEW n \in Node, NEW x, TxInv(n, x), NEW y \in TxState,
         y.idle = x.idle, y.active = x.active, y.pending = x.pending,
         \A u \in TxSlot : y.task[u].msg = x.task[u].msg
  PROVE  TxInv(n, y) /\ (Full(x) => Full(y)) /\ (Waits(x) => Waits(y))
<1>1. \A u \in TxSlot : Dst(y, u) = Dst(x, u)
  BY DEF Dst
<1>2. TxInv(n, y)
  BY <1>1, PendingSlots DEF TxInv
<1>3. \A u \in ToSet(x.pending) : Blocked(x, u) => Blocked(y, u)
  BY <1>1, PendingSlots DEF Blocked
<1> QED
  BY <1>2, <1>3 DEF Full, Waits

\* The search for a task to start finds the first that waits for nothing.
LEMMA FirstReadyIs ==
  ASSUME NEW n \in Node, NEW x, TxInv(n, x)
  PROVE  LET u == FirstReady(x) IN
         \/ u = NONE /\ Waits(x)
         \/ /\ u # NONE /\ u \in TxSlot /\ u \in ToSet(x.pending) /\ ~Blocked(x, u)
            /\ \E i \in DOMAIN x.pending : u = x.pending[i] /\ \A j \in DOMAIN x.pending : j < i => Blocked(x, x.pending[j])
<1> DEFINE R == {i \in DOMAIN x.pending : ~Blocked(x, x.pending[i])}
           u == FirstReady(x)
<1>1. x.pending \in Seq(TxSlot)
  BY DEF TxInv, TxState
<1>2. DOMAIN x.pending \subseteq Nat
  BY <1>1
<1>3. CASE R = {}
  BY <1>3 DEF FirstReady, Waits, ToSet
<1>4. CASE R # {}
  <2> DEFINE i == CHOOSE i \in R : \A j \in R : i <= j
  <2>1. i \in R /\ \A j \in R : i <= j
    BY <1>2, <1>4, LeastIndex
  <2>2. u = x.pending[i]
    BY <1>4 DEF FirstReady
  <2> HIDE DEF i, u
  <2>3. u \in ToSet(x.pending) /\ u \in TxSlot /\ u # NONE
    BY <2>1, <2>2, PendingSlots DEF ToSet, TxSlot, NONE
  <2>4. \A j \in DOMAIN x.pending : j < i => Blocked(x, x.pending[j])
    BY <1>2, <2>1
  <2> QED
    BY <2>1, <2>2, <2>3, <2>4 DEF u
<1> QED
  BY <1>3, <1>4

\* A task that waits is taken off its list, and is active if it gets a timer.
Started(n, x, u, z, w) ==
  /\ TxInv(n, z) /\ TxInv(n, w) /\ (Full(x) => Full(w))
  /\ z.active = x.active /\ w.active = x.active \cup {u} /\ z.task = x.task /\ w.task = x.task
  /\ ToSet(w.pending) = ToSet(x.pending) \ {u}
  /\ z.pending = RemoveFirst(x.pending, u) /\ w.pending = z.pending

\* A task that waited is active, and its timer runs.
LEMMA StartTask ==
  ASSUME NEW n \in Node, NEW x, TxInv(n, x), NEW u \in TxSlot, u \in ToSet(x.pending), ~Blocked(x, u)
  PROVE  LET z == [x EXCEPT !.pending = RemoveFirst(@, u)]
         IN Started(n, x, u, z, [z EXCEPT !.active = @ \cup {u}])
<1> DEFINE p == x.pending
           r == RemoveFirst(p, u)
           z == [x EXCEPT !.pending = RemoveFirst(@, u)]
           w == [z EXCEPT !.active = @ \cup {u}]
<1>1. /\ x \in TxState /\ p \in Seq(TxSlot) /\ IsInjective(p) /\ x.active \subseteq TxSlot
      /\ ToSet(p) \subseteq TxSlot /\ ToSet(p) \cap x.active = {}
  BY PendingSlots DEF TxInv, TxState
<1>2. z.pending = r /\ z.idle = x.idle /\ z.active = x.active /\ z.task = x.task
  BY <1>1 DEF TxState
<1>3. w.pending = r /\ w.idle = x.idle /\ w.active = x.active \cup {u} /\ w.task = x.task
  BY <1>1 DEF TxState
<1> HIDE DEF p
<1>4. r \in Seq(TxSlot) /\ IsInjective(r) /\ ToSet(r) = ToSet(p) \ {u}
  BY <1>1, RemoveFirstList
<1>5. z \in TxState
  <2>1. z = [x EXCEPT !.pending = r]
    BY DEF p
  <2> QED
    BY <1>1, <1>4, <2>1 DEF TxState
<1>6. w \in TxState
  BY <1>1, <1>5 DEF TxState
<1> HIDE DEF z, w, r
<1>7. TxInv(n, z)
  BY <1>1, <1>2, <1>4, <1>5 DEF TxInv, Dst, p
<1>8. TxInv(n, w)
  BY <1>1, <1>3, <1>4, <1>6 DEF TxInv, Dst, Blocked, p
<1>9. Full(x) => Full(w)
  BY <1>3, <1>4 DEF Full, p
<1> QED
  BY <1>2, <1>3, <1>4, <1>7, <1>8, <1>9 DEF z, w, r, p, Started

-----------------------------------------------------------------------------
(* What a step of the transmitting side of node n may do.  The messages in  *)
(* won are taken for received by it.                                       *)

OutcomeType == [Msg -> {"new", "refused", "waiting", "sending", "acked", "ended"}]
FaultType == [Node -> {"none", "assert", "null", "freed"}]

\* Timers of transmission run for active tasks only.
Running(n, x, tms) ==
  \A tm \in tms : tm.kind = "retry" /\ tm.node = n => tm = Own(n, "retry", tm.slot) /\ tm.slot \in x.active

\* A segment of m goes out, and m is under way: if no timeout is stale, which
\* would find its task in another list.
Sent(n, p) ==
  \E m \in Msg : \E i \in Seg(m) :
    p = SegmentPkt(m, i) /\ (StaleTimeouts \/ \E u \in tx'[n].active : tx'[n].task[u].msg = m)

SameMessages(n, x, T) == \A u \in T : x.task[u].msg = tx[n].task[u].msg

\* Message m is the next to be handed over, and it has got task t of x.
Fresh(n, m) == Script[m].src = n /\ outcome[m] = "new" /\ \A k \in 1 .. m - 1 : outcome[k] # "new"
Taken(n, x, m, t) ==
  /\ Fresh(n, m) /\ t \notin tx[n].active \cup ToSet(tx[n].pending)
  /\ x.task[t].msg = m /\ SameMessages(n, x, TxSlot \ {t})
  /\ \/ /\ \E u \in tx[n].active : Dst(tx[n], u) = Script[m].dst
        /\ x.active = tx[n].active /\ x.pending = Append(tx[n].pending, t)
        /\ outcome' = [outcome EXCEPT ![m] = "waiting"]
     \/ /\ \A u \in tx[n].active : Dst(tx[n], u) # Script[m].dst
        /\ x.active = tx[n].active \cup {t} /\ x.pending = tx[n].pending
        /\ outcome' = [outcome EXCEPT ![m] = "sending"]

\* The message of the active task t is over, and the first task that waits for
\* its destination, if any, is active.
Waiting(n, t) == {i \in DOMAIN tx[n].pending : Dst(tx[n], tx[n].pending[i]) = Dst(tx[n], t)}
Over(m, how) == IF outcome[m] \in {"waiting", "sending"} THEN [outcome EXCEPT ![m] = how] ELSE outcome
Follows(n, x, t, i, over) ==
  /\ i \in Waiting(n, t) /\ \A j \in Waiting(n, t) : i <= j
  /\ x.active = (tx[n].active \ {t}) \cup {tx[n].pending[i]}
  /\ x.pending = RemoveFirst(tx[n].pending, tx[n].pending[i])
  /\ outcome' = [over EXCEPT ![tx[n].task[tx[n].pending[i]].msg] = "sending"]
Ended(n, x, t, how) ==
  /\ SameMessages(n, x, TxSlot)
  /\ \/ /\ Waiting(n, t) = {} /\ x.active = tx[n].active \ {t} /\ x.pending = tx[n].pending
        /\ outcome' = Over(tx[n].task[t].msg, how)
     \/ \E i \in Waiting(n, t) : Follows(n, x, t, i, Over(tx[n].task[t].msg, how))

\* What becomes of the messages of n, if no timeout is stale and no timer fails.
Calm == ~StaleTimeouts /\ ~TimerFails
Moved(n, x, won) ==
  \/ /\ x.active = tx[n].active /\ x.pending = tx[n].pending /\ SameMessages(n, x, TxSlot)
     /\ outcome' = outcome \/ \E m \in Msg : Fresh(n, m) /\ outcome' = [outcome EXCEPT ![m] = "refused"]
  \/ \E m \in Msg, t \in TxSlot : Taken(n, x, m, t)
  \/ \E t \in tx[n].active, how \in {"acked", "ended"} :
       Ended(n, x, t, how) /\ (how = "acked" => tx[n].task[t].msg \in won)

TxStep(n, won) ==
  /\ Up(n)
  /\ \E x \in TxState :
       /\ tx' = [tx EXCEPT ![n] = x] /\ TxInv(n, x) /\ Counted(x)
       /\ \A t \in TxSlot : tx[n].task[t].msg # NONE => x.task[t].msg # NONE
       /\ fault'[n] = "none" => Full(x) /\ Waits(x)
       /\ Running(n, x, timers')
       /\ Calm => Moved(n, x, won)
  /\ fault' \in FaultType /\ \A k \in Node : fault'[k] = "none" => fault[k] = "none"
  /\ \A tm \in timers' \ timers : \E t \in TxSlot : tm = Own(n, "retry", t) /\ tx'[n].task[t].msg # NONE
  /\ \A p \in air' \ air : Sent(n, p)
  /\ outcome' \in OutcomeType
  /\ \A m \in Msg : outcome'[m] = "acked" => outcome[m] = "acked" \/ m \in won

\* The record x of the tasks of n while an action changes it: the messages
\* are those of tx, and the count of task t may be over the limit.
Changing(n, x, t) ==
  /\ TxInv(n, x) /\ Full(x) /\ Waits(x)
  /\ x.active = tx[n].active /\ x.pending = tx[n].pending /\ Running(n, tx[n], timers)
  /\ \A u \in TxSlot : x.task[u].msg = tx[n].task[u].msg
  /\ \A u \in (x.active \cup ToSet(x.pending)) \ {t} : x.task[u].tries <= Retries

\* What meshx_send_segments puts in the air.
LEMMA SegmentsOf ==
  ASSUME NEW n, NEW task, task.msg \in Msg,
         StaleTimeouts \/ \E u \in tx'[n].active : tx'[n].task[u].msg = task.msg
  PROVE  \A p \in SendSegments(task) : Sent(n, p)
BY DEF SendSegments, Sent

\* Stopping a timer leaves no timer of an idle task behind.
LEMMA StopRunning ==
  ASSUME NEW n, NEW t, Running(n, tx[n], timers), NEW y, y.active = tx[n].active \ {t}
  PROVE  Running(n, y, StopTimer(n, t))
BY DEF Running, StopTimer

\* A timer that is started is of an active task.
LEMMA StartRunning ==
  ASSUME NEW n, NEW x, NEW tms, Running(n, x, tms), NEW u, NEW w, w.active = x.active \cup {u}
  PROVE  Running(n, w, tms \cup {Own(n, "retry", u)})
BY DEF Running, Own, Timer

\* The end of an active task sets free the tasks that wait for its destination,
\* and no others.
LEMMA SetFree ==
  ASSUME NEW n \in Node, TxInv(n, tx[n]), Waits(tx[n]), NEW t \in tx[n].active,
         NEW y, y.active = tx[n].active \ {t}, SameMessages(n, y, TxSlot),
         NEW i \in DOMAIN tx[n].pending
  PROVE  Blocked(y, tx[n].pending[i]) <=> i \notin Waiting(n, t)
<1> DEFINE v == tx[n].pending[i]
<1>1. v \in ToSet(tx[n].pending) /\ v \in TxSlot /\ tx[n].active \subseteq TxSlot
  BY PendingSlots DEF ToSet
<1>2. \A u \in TxSlot : Dst(y, u) = Dst(tx[n], u)
  BY DEF SameMessages, Dst
<1>3. i \in Waiting(n, t) <=> Dst(tx[n], v) = Dst(tx[n], t)
  BY DEF Waiting
<1>4. PICK b \in tx[n].active : Dst(tx[n], b) = Dst(tx[n], v)
  BY <1>1 DEF Waits, Blocked
<1>5. Blocked(y, v) <=> \E u \in tx[n].active \ {t} : Dst(tx[n], u) = Dst(tx[n], v)
  BY <1>1, <1>2 DEF Blocked
<1>6. \A u \in tx[n].active : Dst(tx[n], u) = Dst(tx[n], t) => u = t
  BY DEF TxInv
<1> HIDE DEF v
<1>7. CASE i \in Waiting(n, t)
  BY <1>3, <1>5, <1>6, <1>7 DEF v
<1>8. CASE i \notin Waiting(n, t)
  BY <1>3, <1>4, <1>5, <1>8 DEF v
<1> QED
  BY <1>7, <1>8

\* meshx_lower_trans_tx_task_finish: the
\* task is given back and the first one it kept waiting is started.
LEMMA FinishStep ==
  ASSUME setting \in Settings, tx \in [Node -> TxState], fault \in FaultType, outcome \in OutcomeType,
         NEW n \in Node, Up(n), NEW t \in TxSlot, NEW x, Changing(n, x, t), x.task[t].msg # NONE,
         TxInv(n, tx[n]), Waits(tx[n]), t \in tx[n].active \/ StaleTimeouts,
         NEW how \in {"acked", "ended"}, NEW left \in SUBSET air,
         Finish(n, x, t, how, left)
  PROVE  TxStep(n, IF how = "acked" THEN {x.task[t].msg} ELSE {})
<1> DEFINE y == Release(x, t)
           u == FirstReady(y)
           m == x.task[t].msg
           over == IF outcome[m] \in {"waiting", "sending"} THEN [outcome EXCEPT ![m] = how] ELSE outcome
           z == [y EXCEPT !.pending = RemoveFirst(@, u)]
           w == [z EXCEPT !.active = @ \cup {u}]
<1>1. /\ TxInv(n, x) /\ x \in TxState /\ Full(x) /\ Waits(x) /\ x.task \in [TxSlot -> TxTask]
      /\ \A v \in TxSlot : x.task[v].msg = tx[n].task[v].msg /\ x.task[v].msg \in Msg \cup {NONE}
      /\ \A v \in (x.active \cup ToSet(x.pending)) \ {t} : x.task[v].tries <= Retries
  BY DEF Changing, TxInv, TxState, TxTask
<1>a. /\ x.active = tx[n].active /\ x.pending = tx[n].pending /\ Running(n, tx[n], timers)
      /\ SameMessages(n, x, TxSlot)
  BY DEF Changing, SameMessages
<1>2. /\ TxInv(n, y) /\ y \in TxState /\ Full(y) /\ y.active = x.active \ {t} /\ ToSet(y.pending) = ToSet(x.pending) \ {t}
      /\ \A v \in TxSlot : y.task[v].msg = x.task[v].msg /\ y.task[v].tries = x.task[v].tries
      /\ y.pending = RemoveFirst(x.pending, t)
  <2>1. Released(n, x, t, y)
    BY <1>1, ReleaseTask
  <2> QED
    BY <1>1, <2>1 DEF Released, TxInv
<1>3. y.active \subseteq TxSlot /\ ToSet(y.pending) \subseteq TxSlot
  BY <1>2, PendingSlots
<1>4. Counted(y)
  BY <1>1, <1>2, <1>3 DEF Counted
<1>5. m \in Msg /\ over \in OutcomeType
  BY <1>1 DEF OutcomeType
<1>6. \A k \in Msg : over[k] = "acked" => outcome[k] = "acked" \/ (k = m /\ how = "acked")
  BY <1>5 DEF OutcomeType
<1>b. SameMessages(n, y, TxSlot) /\ y.active = tx[n].active \ {t} /\ Running(n, y, StopTimer(n, t))
  BY <1>1, <1>2, <1>a, StopRunning DEF SameMessages
<1>c. ASSUME Calm
      PROVE  /\ t \in tx[n].active /\ y.pending = tx[n].pending /\ m = tx[n].task[t].msg
             /\ \A i \in DOMAIN tx[n].pending : Blocked(y, tx[n].pending[i]) <=> i \notin Waiting(n, t)
  <2>1. t \in tx[n].active /\ t \notin ToSet(tx[n].pending)
    BY <1>c DEF Calm, TxInv
  <2>2. x.pending \in Seq(TxSlot) /\ IsInjective(x.pending)
    BY <1>1 DEF TxInv, TxState
  <2>3. y.pending = tx[n].pending
    BY <1>2, <1>a, <2>1, <2>2, RemoveFirstList
  <2> HIDE DEF y
  <2> QED
    BY <1>1, <1>b, <2>1, <2>3, SetFree
<1>7. Up(n)' <=> fault'[n] = "none"
  BY DEF Up
<1>8. CASE u = NONE
  <2>1. /\ tx' = [tx EXCEPT ![n] = y] /\ timers' = StopTimer(n, t) /\ outcome' = over /\ air' = left /\ fault' = fault
    BY <1>8 DEF Finish
  <2>2. Waits(y)
    BY <1>2, <1>8, FirstReadyIs
  <2> HIDE DEF y
  <2>3. ASSUME Calm
        PROVE  Moved(n, y, IF how = "acked" THEN {m} ELSE {})
    <3>1. Waiting(n, t) = {}
      BY <1>c, <2>2, <2>3 DEF Waiting, Waits, ToSet
    <3>2. over = Over(tx[n].task[t].msg, how)
      BY <1>c, <2>3 DEF Over
    <3>3. Ended(n, y, t, how)
      BY <1>b, <1>c, <2>1, <2>3, <3>1, <3>2 DEF Ended
    <3> QED
      BY <1>c, <2>3, <3>3 DEF Moved
  <2> HIDE DEF over
  <2> QED
    BY <1>1, <1>2, <1>4, <1>5, <1>6, <1>b, <2>1, <2>2, <2>3 DEF TxStep, StopTimer
<1>9. CASE u # NONE
  <2>1. u \in TxSlot /\ u \in ToSet(y.pending) /\ ~Blocked(y, u)
    BY <1>2, <1>9, FirstReadyIs
  <2>2. /\ TxInv(n, z) /\ TxInv(n, w) /\ z \in TxState /\ w \in TxState
        /\ z.active = y.active /\ w.active = y.active \cup {u} /\ z.task = y.task /\ w.task = y.task
        /\ ToSet(w.pending) = ToSet(y.pending) \ {u} /\ z.pending = w.pending /\ Full(w)
    <3> HIDE DEF y, u
    <3>1. Started(n, y, u, z, w)
      BY <1>2, <2>1, StartTask
    <3> QED
      BY <1>2, <3>1 DEF Started, TxInv
  <2>a. z.pending = RemoveFirst(y.pending, u)
    <3> HIDE DEF y, u
    <3> QED
      BY <1>2 DEF TxState
  <2>b. \E i \in DOMAIN y.pending : u = y.pending[i] /\ \A j \in DOMAIN y.pending : j < i => Blocked(y, y.pending[j])
    BY <1>2, <1>9, FirstReadyIs
  <2>3. Run(n, z, u, StopTimer(n, t), left) /\ outcome' = [over EXCEPT ![x.task[u].msg] = "sending"]
    BY <1>9 DEF Finish
  <2> HIDE DEF y, over, z, u
  <2>4. x.task[u].msg \in Msg
    BY <1>1, <1>2, <2>1 DEF TxInv
  <2>5. outcome' \in OutcomeType /\ \A k \in Msg : outcome'[k] = "acked" => outcome[k] = "acked" \/ (k = m /\ how = "acked")
    BY <1>5, <1>6, <2>3, <2>4 DEF OutcomeType
  <2>6. Counted(z) /\ Counted(w)
    BY <1>4, <2>1, <2>2 DEF Counted
  <2>7. Waits(w)
    <3> SUFFICES ASSUME NEW v \in ToSet(w.pending) PROVE Blocked(w, v)
      BY DEF Waits
    <3>1. v \in TxSlot /\ v \in ToSet(x.pending) /\ u \in ToSet(x.pending)
      BY <1>2, <1>3, <2>1, <2>2
    <3>2. \A a \in TxSlot : Dst(w, a) = Dst(x, a) /\ Dst(y, a) = Dst(x, a)
      BY <1>2, <2>2 DEF Dst
    <3>3. PICK a \in x.active : Dst(x, a) = Dst(x, v)
      BY <1>1, <3>1 DEF Waits, Blocked
    <3>4. PICK b \in x.active : Dst(x, b) = Dst(x, u)
      BY <1>1, <3>1 DEF Waits, Blocked
    <3>5. x.active \subseteq TxSlot
      BY <1>1, PendingSlots
    <3>6. b = t
      BY <1>2, <2>1, <3>2, <3>4, <3>5 DEF Blocked
    <3>7. CASE a = t
      BY <2>1, <2>2, <3>1, <3>2, <3>3, <3>4, <3>6, <3>7 DEF Blocked
    <3>8. CASE a # t
      BY <1>2, <2>2, <3>1, <3>2, <3>3, <3>5, <3>8 DEF Blocked
    <3> QED
      BY <3>7, <3>8
  <2> HIDE DEF w
  <2>c. ASSUME Calm
        PROVE  Moved(n, w, IF how = "acked" THEN {m} ELSE {})
    <3>1. PICK i \in DOMAIN y.pending : u = y.pending[i] /\ \A j \in DOMAIN y.pending : j < i => Blocked(y, y.pending[j])
      BY <2>b
    <3>2. i \in Waiting(n, t) /\ u = tx[n].pending[i]
      BY <1>c, <2>1, <2>c, <3>1
    <3>3. DOMAIN tx[n].pending \subseteq Nat
      <4>1. tx[n].pending \in Seq(TxSlot)
        BY DEF TxInv, TxState
      <4> QED
        BY <4>1
    <3>4. \A j \in Waiting(n, t) : i <= j
      <4> SUFFICES ASSUME NEW j \in Waiting(n, t), j < i PROVE FALSE
        BY <3>2, <3>3 DEF Waiting
      <4> QED
        BY <1>c, <2>c, <3>1 DEF Waiting
    <3>5. over = Over(tx[n].task[t].msg, how)
      BY <1>c, <2>c DEF Over, over
    <3>6. SameMessages(n, w, TxSlot)
      BY <1>b, <2>2 DEF SameMessages
    <3>7. outcome' = [over EXCEPT ![tx[n].task[tx[n].pending[i]].msg] = "sending"]
      BY <1>1, <2>1, <2>3, <3>2, <1>2, <1>3
    <3>8. Follows(n, w, t, i, over)
      BY <1>b, <1>c, <2>2, <2>a, <2>c, <3>2, <3>4, <3>7 DEF Follows
    <3>9. Ended(n, w, t, how)
      BY <3>2, <3>5, <3>6, <3>8 DEF Ended
    <3> QED
      BY <1>c, <2>c, <3>9 DEF Moved
  <2>8. CASE /\ tx' = [tx EXCEPT ![n] = w] /\ air' = left \cup SendSegments(z.task[u])
             /\ timers' = StopTimer(n, t) \cup {Own(n, "retry", u)} /\ fault' = fault
    <3>1. \A p \in SendSegments(z.task[u]) : Sent(n, p)
      <4>1. z.task[u].msg \in Msg /\ tx'[n] = w /\ u \in w.active
        BY <1>2, <2>1, <2>2, <2>4, <2>8
      <4> QED
        BY <2>2, <4>1, SegmentsOf
    <3>a. Running(n, w, timers')
      BY <1>b, <2>2, <2>8, StartRunning
    <3>2. tx'[n].task[u].msg # NONE
      BY <1>2, <2>1, <2>2, <2>4, <2>8, ScriptTyped
    <3>3. \A v \in TxSlot : tx[n].task[v].msg # NONE => w.task[v].msg # NONE
      BY <1>1, <1>2, <2>2
    <3> QED
      BY <2>1, <2>2, <2>5, <2>6, <2>7, <2>8, <2>c, <3>1, <3>2, <3>3, <3>a DEF TxStep, StopTimer
  <2>9. CASE /\ TimerFails /\ tx' = [tx EXCEPT ![n] = z] /\ fault' = [fault EXCEPT ![n] = "assert"]
             /\ timers' = StopTimer(n, t) /\ air' = left
    <3>1. \A v \in TxSlot : tx[n].task[v].msg # NONE => z.task[v].msg # NONE
      BY <1>1, <1>2, <2>2
    <3>2. fault' \in FaultType /\ fault'[n] # "none" /\ \A k \in Node : fault'[k] = "none" => fault[k] = "none"
      BY <2>9 DEF FaultType
    <3>3. Running(n, z, timers')
      BY <1>b, <2>2, <2>9 DEF Running
    <3>4. ~Calm
      BY <2>9 DEF Calm
    <3> QED
      BY <2>2, <2>5, <2>6, <2>9, <3>1, <3>2, <3>3, <3>4 DEF TxStep, StopTimer
  <2>10. \/ /\ tx' = [tx EXCEPT ![n] = w] /\ air' = left \cup SendSegments(z.task[u])
            /\ timers' = StopTimer(n, t) \cup {Own(n, "retry", u)} /\ fault' = fault
         \/ /\ TimerFails /\ tx' = [tx EXCEPT ![n] = z] /\ fault' = [fault EXCEPT ![n] = "assert"]
            /\ timers' = StopTimer(n, t) /\ air' = left
    BY <2>3 DEF Run, w
  <2> QED
    BY <2>8, <2>9, <2>10
<1> QED
  BY <1>8, <1>9

\* A change of the count and of the acknowledged segments of one task.
LEMMA ChangeTask ==
  ASSUME NEW n \in Node, TxInv(n, tx[n]), Counted(tx[n]), Full(tx[n]), Waits(tx[n]), Running(n, tx[n], timers), NEW t \in TxSlot,
         NEW x \in TxState, x.idle = tx[n].idle, x.active = tx[n].active, x.pending = tx[n].pending,
         NEW k, x.task = [tx[n].task EXCEPT ![t] = k], k.msg = tx[n].task[t].msg
  PROVE  Changing(n, x, t) /\ (k.tries <= Retries => Counted(x)) /\ x.task[t] = k
<1>1. tx[n] \in TxState /\ tx[n].task \in [TxSlot -> TxTask]
  BY DEF TxInv, TxState
<1>2. x.task[t] = k /\ \A u \in TxSlot \ {t} : x.task[u] = tx[n].task[u]
  BY <1>1
<1>3. \A u \in TxSlot : x.task[u].msg = tx[n].task[u].msg
  BY <1>2
<1>4. TxInv(n, x) /\ Full(x) /\ Waits(x)
  BY <1>3, SameTasks
<1>5. x.active \subseteq TxSlot /\ ToSet(x.pending) \subseteq TxSlot
  BY <1>4, PendingSlots
<1>6. \A u \in (x.active \cup ToSet(x.pending)) \ {t} : x.task[u].tries <= Retries
  BY <1>2, <1>5 DEF Counted
<1>7. k.tries <= Retries => Counted(x)
  BY <1>2, <1>6 DEF Counted
<1> QED
  BY <1>2, <1>3, <1>4, <1>6, <1>7 DEF Changing

\* A round of segments is sent again.
LEMMA ResendStep ==
  ASSUME setting \in Settings, tx \in [Node -> TxState], fault \in FaultType, outcome \in OutcomeType,
         NEW n \in Node, Up(n), NEW t \in TxSlot, t \in tx[n].active \/ StaleTimeouts, NEW x, Changing(n, x, t), Counted(x),
         x.task[t].msg # NONE, NEW left \in SUBSET air,
         Resend(n, x, t, left)
  PROVE  TxStep(n, {})
<1>1. /\ TxInv(n, x) /\ x \in TxState /\ Full(x) /\ Waits(x)
      /\ \A v \in TxSlot : x.task[v].msg = tx[n].task[v].msg
  BY DEF Changing, TxInv
<1>a. x.active = tx[n].active /\ x.pending = tx[n].pending /\ Running(n, x, timers)
  BY DEF Changing, Running
<1>2. x.task[t].msg \in Msg
  BY <1>1 DEF TxState, TxTask
<1>3. tx' = [tx EXCEPT ![n] = x] /\ outcome' = outcome /\ tx'[n] = x
  BY DEF Resend
<1>b. Moved(n, x, {})
  BY <1>1, <1>3, <1>a DEF Moved, SameMessages
<1>4. \A p \in SendSegments(x.task[t]) : Sent(n, p)
  BY <1>2, <1>3, <1>a, SegmentsOf
<1>5. CASE x.task[t].stored
  <2>1. /\ air' = left \cup SendSegments(x.task[t]) /\ fault' = fault
        /\ (timers' = timers \/ (t \in x.active /\ timers' = timers \cup {Own(n, "retry", t)}))
    BY <1>5 DEF Resend
  <2>2. Running(n, x, timers')
    BY <1>a, <2>1 DEF Running, Own, Timer
  <2>3. \A tm \in timers' \ timers : \E v \in TxSlot : tm = Own(n, "retry", v) /\ tx'[n].task[v].msg # NONE
    BY <1>3, <2>1
  <2>4. \A p \in air' \ air : Sent(n, p)
    BY <1>4, <2>1
  <2> QED
    BY <1>1, <1>3, <1>b, <2>1, <2>2, <2>3, <2>4 DEF TxStep
<1>6. CASE ~x.task[t].stored
  <2>1. fault' = [fault EXCEPT ![n] = "null"] /\ air' = left /\ timers' = timers
    BY <1>6 DEF Resend
  <2>2. fault' \in FaultType /\ \A k \in Node : fault'[k] = "none" => fault[k] = "none"
    BY <2>1 DEF FaultType
  <2> QED
    BY <1>1, <1>3, <1>a, <1>b, <2>1, <2>2 DEF TxStep
<1> QED
  BY <1>5, <1>6

\* The retry timer: another round, or the end of the message.
LEMMA RetryStep ==
  ASSUME setting \in Settings, tx \in [Node -> TxState], fault \in FaultType, outcome \in OutcomeType,
         NEW n \in Node, Up(n), TxInv(n, tx[n]), Counted(tx[n]), Full(tx[n]), Waits(tx[n]),
         Running(n, tx[n], timers),
         NEW t \in TxSlot, tx[n].task[t].msg # NONE, t \in tx[n].active \/ StaleTimeouts,
         Again(n, tx[n], t)
  PROVE  TxStep(n, {})
<1> DEFINE x == tx[n]
           k == [x.task[t] EXCEPT !.tries = IF @ > Retries THEN @ ELSE @ + 1]
           y == [x EXCEPT !.task[t].tries = IF @ > Retries THEN @ ELSE @ + 1]
<1>1. x \in TxState /\ x.task \in [TxSlot -> TxTask] /\ x.task[t] \in TxTask
  BY DEF TxState
<1>2. k \in TxTask /\ k.msg = x.task[t].msg
  <2> DEFINE c == IF x.task[t].tries > Retries THEN x.task[t].tries ELSE x.task[t].tries + 1
  <2>1. c \in 0 .. Retries + 1
    BY <1>1, LowerTransAssumption DEF TxTask
  <2>2. k = [x.task[t] EXCEPT !.tries = c]
    OBVIOUS
  <2> HIDE DEF c, k
  <2> QED
    BY <1>1, <2>1, <2>2 DEF TxTask
<1>3. y.idle = x.idle /\ y.active = x.active /\ y.pending = x.pending /\ y.task = [x.task EXCEPT ![t] = k]
  BY <1>1 DEF TxState
<1>4. y = [x EXCEPT !.task = [x.task EXCEPT ![t] = k]]
  OBVIOUS
<1> HIDE DEF k, y
<1>5. y \in TxState
  BY <1>1, <1>2, <1>4 DEF TxState
<1>6. Changing(n, y, t) /\ (k.tries <= Retries => Counted(y)) /\ y.task[t] = k
  BY <1>2, <1>3, <1>5, ChangeTask
<1>7. IF k.tries > Retries THEN Finish(n, y, t, "ended", air) ELSE Resend(n, y, t, air)
  BY <1>6 DEF Again, y
<1>8. CASE k.tries > Retries
  <2>1. Finish(n, y, t, "ended", air)
    BY <1>7, <1>8
  <2>2. TxStep(n, IF "ended" = "acked" THEN {y.task[t].msg} ELSE {})
    BY <1>2, <1>6, <2>1, FinishStep
  <2> QED
    BY <2>2
<1>9. CASE ~(k.tries > Retries)
  <2>1. k.tries <= Retries
    BY <1>2, <1>9, LowerTransAssumption DEF TxTask
  <2> QED
    BY <1>2, <1>6, <1>7, <1>9, <2>1, ResendStep
<1> QED
  BY <1>8, <1>9

\* An acknowledgement that is not of the whole message counts as a retry.
LEMMA RecvAckStep ==
  ASSUME setting \in Settings, tx \in [Node -> TxState], fault \in FaultType, outcome \in OutcomeType,
         NEW n \in Node, TxInv(n, tx[n]), Counted(tx[n]), Up(n) => Full(tx[n]) /\ Waits(tx[n]),
         Running(n, tx[n], timers),
         NEW p \in air, p.msg \in Msg, p.bits \subseteq Segs,
         RecvAck(n, p)
  PROVE  TxStep(n, IF p.bits = Seg(p.msg) THEN {p.msg} ELSE {})
<1>1. PICK t \in tx[n].active :
        /\ tx[n].task[t].msg = p.msg
        /\ CASE p.bits = Seg(p.msg) -> Finish(n, tx[n], t, "acked", Received(p))
             [] p.bits = {} -> Finish(n, tx[n], t, "ended", Received(p))
             [] OTHER ->
                  LET x == [tx[n] EXCEPT !.task[t].tries = @ + 1] IN
                  IF x.task[t].tries > Retries THEN Finish(n, x, t, "ended", Received(p))
                  ELSE Resend(n, [x EXCEPT !.task[t].acked = p.bits], t, Received(p))
  BY DEF RecvAck
<1>2. /\ tx[n] \in TxState /\ tx[n].task \in [TxSlot -> TxTask] /\ t \in TxSlot
      /\ tx[n].task[t] \in TxTask /\ tx[n].task[t].tries <= Retries
  BY <1>1 DEF TxState, Counted
<1>3. Up(n) /\ Full(tx[n]) /\ Waits(tx[n]) /\ tx[n].task[t].msg # NONE /\ Received(p) \in SUBSET air
  BY <1>1, ScriptTyped DEF RecvAck, Received
<1>4. Changing(n, tx[n], t)
  BY <1>3, PendingSlots DEF Changing, Counted
<1>5. 0 \in Seg(p.msg)
  BY ScriptTyped
<1>6. CASE p.bits = Seg(p.msg)
  <2>1. Finish(n, tx[n], t, "acked", Received(p))
    BY <1>1, <1>5, <1>6
  <2>2. TxStep(n, IF "acked" = "acked" THEN {tx[n].task[t].msg} ELSE {})
    BY <1>2, <1>3, <1>4, <2>1, FinishStep
  <2> QED
    BY <1>1, <1>6, <2>2
<1>7. CASE p.bits = {}
  <2>1. Finish(n, tx[n], t, "ended", Received(p)) /\ p.bits # Seg(p.msg)
    BY <1>1, <1>5, <1>7
  <2>2. TxStep(n, IF "ended" = "acked" THEN {tx[n].task[t].msg} ELSE {})
    BY <1>2, <1>3, <1>4, <2>1, FinishStep
  <2> QED
    BY <2>1, <2>2
<1>8. CASE p.bits # Seg(p.msg) /\ p.bits # {}
  <2> DEFINE c == tx[n].task[t].tries + 1
             k == [tx[n].task[t] EXCEPT !.tries = c]
             x == [tx[n] EXCEPT !.task[t].tries = c]
  <2>1. c \in 1 .. Retries + 1
    BY <1>2, LowerTransAssumption DEF TxTask
  <2>2. k \in TxTask /\ k.msg = tx[n].task[t].msg /\ k.tries = c
    BY <1>2, <2>1 DEF TxTask
  <2>3. x.idle = tx[n].idle /\ x.active = tx[n].active /\ x.pending = tx[n].pending /\ x.task = [tx[n].task EXCEPT ![t] = k]
    BY <1>2 DEF TxState
  <2>4. x = [tx[n] EXCEPT !.task = [tx[n].task EXCEPT ![t] = k]]
    OBVIOUS
  <2>5. IF x.task[t].tries > Retries THEN Finish(n, x, t, "ended", Received(p))
        ELSE Resend(n, [x EXCEPT !.task[t].acked = p.bits], t, Received(p))
    BY <1>1, <1>8
  <2> HIDE DEF c, k, x
  <2>6. x \in TxState
    BY <1>2, <2>2, <2>4 DEF TxState
  <2>7. Changing(n, x, t) /\ (k.tries <= Retries => Counted(x)) /\ x.task[t] = k
    BY <1>2, <1>3, <2>2, <2>3, <2>6, ChangeTask
  <2>8. CASE c > Retries
    <3>1. TxStep(n, IF "ended" = "acked" THEN {x.task[t].msg} ELSE {})
      BY <1>2, <1>3, <2>2, <2>5, <2>7, <2>8, FinishStep
    <3> QED
      BY <1>8, <3>1
  <2>9. CASE c <= Retries
    <3> DEFINE j == [k EXCEPT !.acked = p.bits]
               y == [x EXCEPT !.task[t].acked = p.bits]
    <3>1. j \in TxTask /\ j.msg = k.msg /\ j.tries = c
      BY <2>2 DEF TxTask
    <3>2. x.task \in [TxSlot -> TxTask]
      BY <2>6 DEF TxState
    <3>3. y.idle = x.idle /\ y.active = x.active /\ y.pending = x.pending /\ y.task = [x.task EXCEPT ![t] = j]
      BY <2>6, <2>7 DEF TxState
    <3>4. y = [x EXCEPT !.task = [x.task EXCEPT ![t] = j]]
      BY <2>7
    <3>5. ~(x.task[t].tries > Retries)
      BY <2>1, <2>2, <2>7, <2>9, LowerTransAssumption
    <3>6. Resend(n, y, t, Received(p))
      BY <2>5, <3>5
    <3> HIDE DEF j, y
    <3>7. y \in TxState
      BY <1>2, <2>6, <3>1, <3>2, <3>4 DEF TxState
    <3>8. y.task = [tx[n].task EXCEPT ![t] = j]
      BY <1>2, <2>3, <3>3
    <3>9. Changing(n, y, t) /\ (j.tries <= Retries => Counted(y)) /\ y.task[t] = j
      BY <1>2, <1>3, <2>2, <2>3, <3>1, <3>3, <3>7, <3>8, ChangeTask
    <3>10. y.task[t].msg # NONE /\ Counted(y) /\ Changing(n, y, t)
      BY <1>3, <2>2, <2>9, <3>1, <3>9
    <3>11. TxStep(n, {})
      BY <1>2, <1>3, <3>6, <3>10, ResendStep
    <3> QED
      BY <1>8, <3>11
  <2> QED
    BY <2>1, <2>8, <2>9, LowerTransAssumption
<1> QED
  BY <1>6, <1>7, <1>8

\* A message gets an idle task, which waits if its destination is taken.
LEMMA SendStep ==
  ASSUME setting \in Settings, tx \in [Node -> TxState], fault \in FaultType, outcome \in OutcomeType,
         NEW n \in Node, TxInv(n, tx[n]), Counted(tx[n]), Up(n) => Full(tx[n]) /\ Waits(tx[n]),
         Running(n, tx[n], timers),
         NEW m \in Msg, Send(n, m)
  PROVE  TxStep(n, {})
<1> DEFINE t == Head(tx[n].idle)
           k == [msg |-> m, acked |-> {}, tries |-> 0, stored |-> TRUE]
           x == [tx[n] EXCEPT !.idle = Tail(@), !.task[t] = k]
           w == [x EXCEPT !.pending = Append(@, t)]
           v == [x EXCEPT !.active = @ \cup {t}]
<1>1. /\ Up(n) /\ Script[m].src = n /\ outcome[m] = "new" /\ Full(tx[n]) /\ Waits(tx[n])
      /\ tx[n] \in TxState /\ tx[n].idle \in Seq(TxSlot) /\ IsInjective(tx[n].idle)
      /\ tx[n].task \in [TxSlot -> TxTask] /\ m # NONE /\ Up(n)' = (fault'[n] = "none")
  BY ScriptTyped DEF Send, TxInv, TxState, Up
<1>a. Fresh(n, m)
  BY DEF Send, Fresh
<1>2. CASE tx[n].idle = <<>>
  <2>1. outcome' = [outcome EXCEPT ![m] = "refused"] /\ tx' = tx /\ air' = air /\ timers' = timers /\ fault' = fault
    BY <1>2 DEF Send
  <2>2. tx' = [tx EXCEPT ![n] = tx[n]]
    BY <2>1
  <2>3. outcome' \in OutcomeType /\ \A j \in Msg : outcome'[j] = "acked" => outcome[j] = "acked"
    BY <2>1 DEF OutcomeType
  <2>4. Moved(n, tx[n], {})
    BY <1>a, <2>1 DEF Moved, SameMessages
  <2> QED
    BY <1>1, <2>1, <2>2, <2>3, <2>4 DEF TxStep
<1>3. CASE tx[n].idle # <<>>
  <2>1. /\ t \in TxSlot /\ t \in ToSet(tx[n].idle)
        /\ Tail(tx[n].idle) \in Seq(TxSlot) /\ IsInjective(Tail(tx[n].idle))
        /\ ToSet(Tail(tx[n].idle)) = ToSet(tx[n].idle) \ {t}
    BY <1>1, <1>3, TakeHead
  <2>2. k \in TxTask
    BY LowerTransAssumption DEF TxTask
  <2>3. IF Blocked(x, t)
        THEN tx' = [tx EXCEPT ![n] = w] /\ outcome' = [outcome EXCEPT ![m] = "waiting"]
             /\ UNCHANGED <<air, timers, fault>>
        ELSE Run(n, x, t, timers, air) /\ outcome' = [outcome EXCEPT ![m] = "sending"]
    BY <1>3 DEF Send
  <2>4. /\ x.idle = Tail(tx[n].idle) /\ x.active = tx[n].active /\ x.pending = tx[n].pending
        /\ x.task = [tx[n].task EXCEPT ![t] = k]
    BY <1>1 DEF TxState
  <2>5. x = [tx[n] EXCEPT !.idle = Tail(tx[n].idle), !.task = [tx[n].task EXCEPT ![t] = k]]
    OBVIOUS
  <2> HIDE DEF t, k, x
  <2>6. x \in TxState
    BY <1>1, <2>1, <2>2, <2>5 DEF TxState
  <2>7. x.task[t] = k /\ k.msg = m /\ k.tries = 0 /\ \A u \in TxSlot \ {t} : x.task[u] = tx[n].task[u]
    BY <1>1, <2>1, <2>4 DEF k
  <2>8. /\ t \notin ToSet(tx[n].pending) /\ t \notin tx[n].active
        /\ ToSet(tx[n].pending) \subseteq TxSlot /\ tx[n].active \subseteq TxSlot
        /\ \A u \in TxSlot \ {t} : Dst(x, u) = Dst(tx[n], u)
    BY <2>1, <2>7, PendingSlots DEF TxInv, Dst
  <2>9. TxInv(n, x)
    <3>1. /\ ToSet(x.idle) \cap ToSet(x.pending) = {}
          /\ ToSet(x.idle) \cap x.active = {} /\ ToSet(x.pending) \cap x.active = {}
          /\ IsInjective(x.idle) /\ IsInjective(x.pending)
      BY <2>1, <2>4 DEF TxInv
    <3>2. \A u \in TxSlot : x.task[u].msg # NONE => Script[x.task[u].msg].src = n
      BY <1>1, <2>7 DEF TxInv
    <3>3. \A u \in x.active \cup ToSet(x.pending) : x.task[u].msg # NONE
      BY <2>4, <2>7, <2>8 DEF TxInv
    <3>4. \A u1, u2 \in x.active : Dst(x, u1) = Dst(x, u2) => u1 = u2
      BY <2>4, <2>8 DEF TxInv
    <3> QED
      BY <2>6, <3>1, <3>2, <3>3, <3>4 DEF TxInv
  <2>10. Counted(x)
    BY <2>4, <2>7, <2>8 DEF Counted
  <2>11. \A u \in ToSet(x.pending) : Blocked(x, u)
    BY <1>1, <2>4, <2>8 DEF Waits, Blocked
  <2>12. \A u \in TxSlot : tx[n].task[u].msg # NONE => x.task[u].msg # NONE
    BY <1>1, <2>7
  <2>13. outcome' \in OutcomeType /\ \A j \in Msg : outcome'[j] = "acked" => outcome[j] = "acked"
    BY <2>3 DEF OutcomeType
  <2>a. Blocked(x, t) <=> \E u \in tx[n].active : Dst(tx[n], u) = Script[m].dst
    <3>1. Dst(x, t) = Script[m].dst
      BY <2>7 DEF Dst
    <3> QED
      BY <2>4, <2>8, <3>1 DEF Blocked
  <2>14. CASE Blocked(x, t)
    <3>1. tx' = [tx EXCEPT ![n] = w] /\ UNCHANGED <<air, timers, fault>>
      BY <2>3, <2>14
    <3>2. x.pending \in Seq(TxSlot) /\ IsInjective(x.pending) /\ t \notin ToSet(x.pending)
      BY <2>4, <2>8, <2>9 DEF TxInv, TxState
    <3>3. /\ w.idle = x.idle /\ w.active = x.active /\ w.pending = Append(x.pending, t) /\ w.task = x.task
          /\ w = [x EXCEPT !.pending = Append(x.pending, t)]
      BY <2>6 DEF TxState
    <3> HIDE DEF w
    <3>4. w.pending \in Seq(TxSlot) /\ IsInjective(w.pending) /\ ToSet(w.pending) = ToSet(x.pending) \cup {t}
      BY <2>1, <3>2, <3>3, AppendNew
    <3>5. w \in TxState
      BY <2>6, <3>3, <3>4 DEF TxState
    <3>a. \A u \in TxSlot : Dst(w, u) = Dst(x, u)
      BY <3>3 DEF Dst
    <3>b. t \notin ToSet(w.idle) /\ ToSet(w.idle) = ToSet(x.idle) /\ t \notin w.active
      BY <2>1, <2>4, <2>8, <3>3
    <3>c. /\ ToSet(w.idle) \cap ToSet(w.pending) = {}
          /\ ToSet(w.idle) \cap w.active = {} /\ ToSet(w.pending) \cap w.active = {}
          /\ IsInjective(w.idle) /\ IsInjective(w.pending)
      BY <2>9, <3>3, <3>4, <3>b DEF TxInv
    <3>d. \A u \in TxSlot : w.task[u].msg # NONE => Script[w.task[u].msg].src = n
      BY <2>9, <3>3 DEF TxInv
    <3>e. \A u \in w.active \cup ToSet(w.pending) : w.task[u].msg # NONE
      <4>1. x.task[t].msg # NONE
        BY <1>1, <2>7
      <4> QED
        BY <2>9, <3>3, <3>4, <4>1 DEF TxInv
    <3>f. \A u1, u2 \in w.active : Dst(w, u1) = Dst(w, u2) => u1 = u2
      BY <2>4, <2>8, <2>9, <3>3, <3>a DEF TxInv
    <3>6. TxInv(n, w)
      BY <3>5, <3>c, <3>d, <3>e, <3>f DEF TxInv
    <3>7. Counted(w)
      BY <2>7, <2>10, <3>3, <3>4, LowerTransAssumption DEF Counted
    <3>8. Full(w)
      BY <1>1, <2>1, <2>4, <3>3, <3>4 DEF Full
    <3>9. Waits(w)
      BY <2>11, <2>14, <3>3, <3>4 DEF Waits, Blocked, Dst
    <3>10. \A u \in TxSlot : tx[n].task[u].msg # NONE => w.task[u].msg # NONE
      BY <2>12, <3>3
    <3>11. Running(n, w, timers')
      BY <2>4, <3>1, <3>3 DEF Running
    <3>12. Taken(n, w, m, t)
      BY <1>a, <2>3, <2>4, <2>7, <2>8, <2>14, <2>a, <3>3 DEF Taken, SameMessages
    <3>13. Moved(n, w, {})
      BY <2>1, <3>12 DEF Moved
    <3> QED
      BY <1>1, <2>13, <3>1, <3>5, <3>6, <3>7, <3>8, <3>9, <3>10, <3>11, <3>13 DEF TxStep
  <2>15. CASE ~Blocked(x, t)
    <3>1. /\ v.idle = x.idle /\ v.active = x.active \cup {t} /\ v.pending = x.pending /\ v.task = x.task
          /\ v = [x EXCEPT !.active = x.active \cup {t}]
      BY <2>6 DEF TxState
    <3>2. \/ /\ tx' = [tx EXCEPT ![n] = v] /\ air' = air \cup SendSegments(x.task[t])
             /\ timers' = timers \cup {Own(n, "retry", t)} /\ fault' = fault
          \/ /\ TimerFails /\ tx' = [tx EXCEPT ![n] = x] /\ fault' = [fault EXCEPT ![n] = "assert"]
             /\ timers' = timers /\ air' = air
      BY <2>3, <2>15 DEF Run
    <3> HIDE DEF v
    <3>3. v \in TxState
      BY <2>1, <2>6, <3>1 DEF TxState
    <3>4. TxInv(n, v)
      <4>1. \A u1, u2 \in v.active : Dst(v, u1) = Dst(v, u2) => u1 = u2
        BY <2>9, <2>15, <3>1 DEF TxInv, Dst, Blocked
      <4>2. ToSet(v.idle) \cap v.active = {} /\ ToSet(v.pending) \cap v.active = {}
        BY <2>1, <2>4, <2>8, <2>9, <3>1 DEF TxInv
      <4>3. \A u \in v.active \cup ToSet(v.pending) : v.task[u].msg # NONE
        BY <1>1, <2>7, <2>9, <3>1 DEF TxInv
      <4> QED
        BY <2>9, <3>1, <3>3, <4>1, <4>2, <4>3 DEF TxInv
    <3>5. Counted(v)
      BY <2>7, <2>10, <3>1, LowerTransAssumption DEF Counted
    <3>6. Full(v)
      BY <1>1, <2>1, <2>4, <3>1 DEF Full
    <3>7. Waits(v)
      BY <2>11, <3>1 DEF Waits, Blocked, Dst
    <3>9. CASE /\ tx' = [tx EXCEPT ![n] = v] /\ air' = air \cup SendSegments(x.task[t])
               /\ timers' = timers \cup {Own(n, "retry", t)} /\ fault' = fault
      <4>1. tx'[n].task[t].msg # NONE
        BY <1>1, <2>7, <3>1, <3>9
      <4>2. \A u \in TxSlot : tx[n].task[u].msg # NONE => v.task[u].msg # NONE
        BY <2>12, <3>1
      <4>3. \A p \in SendSegments(x.task[t]) : Sent(n, p)
        BY <1>1, <2>7, <3>1, <3>9, SegmentsOf
      <4>4. Running(n, v, timers')
        BY <2>4, <3>1, <3>9, StartRunning
      <4>5. Taken(n, v, m, t)
        BY <1>a, <2>3, <2>4, <2>7, <2>8, <2>15, <2>a, <3>1 DEF Taken, SameMessages
      <4>6. Moved(n, v, {})
        BY <2>1, <4>5 DEF Moved
      <4> QED
        BY <1>1, <2>1, <2>13, <3>3, <3>4, <3>5, <3>6, <3>7, <3>9, <4>1, <4>2, <4>3, <4>4, <4>6 DEF TxStep
    <3>10. CASE /\ TimerFails /\ tx' = [tx EXCEPT ![n] = x] /\ fault' = [fault EXCEPT ![n] = "assert"]
                /\ timers' = timers /\ air' = air
      <4>1. fault' \in FaultType /\ fault'[n] # "none" /\ \A j \in Node : fault'[j] = "none" => fault[j] = "none"
        BY <3>10 DEF FaultType
      <4>2. Running(n, x, timers') /\ ~Calm
        BY <2>4, <3>10 DEF Running, Calm
      <4> QED
        BY <4>2, <1>1, <2>6, <2>9, <2>10, <2>12, <2>13, <3>10, <4>1 DEF TxStep
    <3> QED
      BY <3>2, <3>9, <3>10
  <2> QED
    BY <2>14, <2>15
<1> QED
  BY <1>2, <1>3

-----------------------------------------------------------------------------
(* Receive tasks of one node *)

SegsTo(n) == UNION {Seg(m) : m \in {k \in Msg : Script[k].dst = n}}

\* The receive tasks of node n: no task is lost or in two lists, and an
\* active one has acknowledged exactly those of the segments of its message
\* that it does not miss.
RxInv(n, r) ==
  /\ r \in RxState
  /\ IsInjective(r.idle) /\ ToSet(r.idle) \cap r.active = {} /\ ToSet(r.idle) \cup r.active = RxSlot
  /\ \A t \in RxSlot :
       /\ r.task[t].missing \subseteq SegsTo(n)
       /\ r.task[t].msg # NONE => Script[r.task[t].msg].dst = n /\ r.task[t].acked \subseteq Seg(r.task[t].msg)
  /\ \A t \in r.active :
       /\ r.task[t].msg # NONE /\ r.task[t].missing \cap r.task[t].acked = {}
       /\ Seg(r.task[t].msg) \subseteq r.task[t].missing \cup r.task[t].acked

\* A message of which every segment is acknowledged has been handed up, g
\* being the lengths delivered so far.
Kept(m, g) == g[m] # {} \/ Shrinks(m) \/ RplRejects
AllKept(r, g) ==
  \A t \in RxSlot : r.task[t].msg # NONE /\ r.task[t].acked = Seg(r.task[t].msg) => Kept(r.task[t].msg, g)

GotType == [Msg -> SUBSET (0 .. MaxLen)]

\* A timer of before, or a new one of a receive task of n, whose record is r.
OldTimer(tm) ==
  \E old \in timers, own \in BOOLEAN :
    tm = [old EXCEPT !.own = own] /\ (old.kind = "retry" => (own <=> old.own))
RxTimer(n, r, tm) ==
  \E kind \in {"ack", "incomplete"}, t \in RxSlot : tm = Own(n, kind, t) /\ r.task[t].msg # NONE

\* The message of a segment that was in the air is delivered, by a task that
\* has it whole.
Delivers(n, r) ==
  \E p \in air : \E t \in r.active :
    /\ p.kind = "segment" /\ p.msg \in Msg /\ Script[p.msg].dst = n
    /\ r.task[t].msg = p.msg /\ r.task[t].acked = Seg(p.msg)
    /\ \E len : got' = [got EXCEPT ![p.msg] = @ \cup {len}]

RxStep(n) ==
  /\ \E r \in RxState :
       /\ rx' = [rx EXCEPT ![n] = r] /\ RxInv(n, r) /\ AllKept(r, got')
       /\ \A t \in RxSlot : rx[n].task[t].msg # NONE => r.task[t].msg # NONE
       /\ got' = got \/ Delivers(n, r)
       /\ \A tm \in timers' : OldTimer(tm) \/ RxTimer(n, r, tm)
  /\ got' \in GotType /\ \A m \in Msg : got[m] \subseteq got'[m]
  /\ \A p \in air' \ air : \E m \in Msg : \E bits \in SUBSET Seg(m) :
       p = AckPkt(m, bits) /\ (bits = Seg(m) => Kept(m, got'))

\* An active receive task has a message.
LEMMA RxActive ==
  ASSUME NEW n \in Node, NEW r, RxInv(n, r)
  PROVE  r.active \subseteq RxSlot /\ ToSet(r.idle) \subseteq RxSlot /\ r.task \in [RxSlot -> RxTask]
BY DEF RxInv, RxState

\* A receive task that is given back is idle and holds no segments.
LEMMA RxReleaseTask ==
  ASSUME NEW n \in Node, NEW r, RxInv(n, r), NEW t \in RxSlot
  PROVE  /\ RxInv(n, RxRelease(r, t)) /\ RxRelease(r, t).task = r.task
         /\ RxRelease(r, t).active = r.active \ {t}
<1> DEFINE rest == RemoveFirst(r.idle, t)
           y == RxRelease(r, t)
<1>1. /\ r \in RxState /\ r.idle \in Seq(RxSlot) /\ IsInjective(r.idle) /\ r.active \subseteq RxSlot
      /\ ToSet(r.idle) \cap r.active = {} /\ ToSet(r.idle) \cup r.active = RxSlot
  BY DEF RxInv, RxState
<1>2. /\ y.idle = Append(rest, t) /\ y.active = r.active \ {t} /\ y.task = r.task
      /\ y = [r EXCEPT !.active = r.active \ {t}, !.idle = Append(rest, t)]
  BY <1>1 DEF RxRelease, RxState
<1>3. rest \in Seq(RxSlot) /\ IsInjective(rest) /\ ToSet(rest) = ToSet(r.idle) \ {t}
  BY <1>1, RemoveFirstList
<1> HIDE DEF rest, y
<1>4. y.idle \in Seq(RxSlot) /\ IsInjective(y.idle) /\ ToSet(y.idle) = ToSet(r.idle) \cup {t}
  BY <1>2, <1>3, AppendNew
<1>5. y \in RxState
  BY <1>1, <1>2, <1>4 DEF RxState
<1>6. RxInv(n, y)
  BY <1>1, <1>2, <1>4, <1>5, RxActive DEF RxInv
<1> QED
  BY <1>2, <1>6 DEF y

\* A receive task that starts is typed.
LEMMA StartTyped ==
  ASSUME setting \in Settings, NEW task \in RxTask, NEW m \in Msg
  PROVE  /\ Start(task, m) \in RxTask /\ Start(task, m).msg = m /\ Start(task, m).acked = {}
         /\ Start(task, m).missing = task.missing \cup Seg(m) /\ Start(task, m).len = task.len
<1>1. Seg(m) \subseteq Segs
  BY ScriptTyped
<1> QED
  BY <1>1 DEF Start, RxTask

\* A message that gets an idle task misses all of its segments.
Begun(n, r, m, g, t, s) ==
  /\ t \in RxSlot /\ RxInv(n, s) /\ AllKept(s, g) /\ t \in s.active
  /\ s.task[t].msg = m /\ s.task[t].acked = {} /\ Seg(m) \subseteq s.task[t].missing
  /\ \A u \in RxSlot : r.task[u].msg # NONE => s.task[u].msg # NONE

\* A receive task gets a message of which it misses every segment; flags
\* of the task before may be left over.
LEMMA RxStart ==
  ASSUME setting \in Settings, NEW n \in Node, NEW r, RxInv(n, r), r.idle # <<>>,
         NEW m \in Msg, Script[m].dst = n, NEW g, AllKept(r, g)
  PROVE  LET t == Head(r.idle)
         IN Begun(n, r, m, g, t,
              [r EXCEPT !.idle = Tail(@), !.active = @ \cup {t}, !.task[t] = Start(@, m)])
<1> DEFINE t == Head(r.idle)
           k == Start(r.task[t], m)
           s == [r EXCEPT !.idle = Tail(@), !.active = @ \cup {t}, !.task[t] = Start(@, m)]
<1>1. /\ r \in RxState /\ r.idle \in Seq(RxSlot) /\ IsInjective(r.idle) /\ r.active \subseteq RxSlot
      /\ ToSet(r.idle) \cap r.active = {} /\ ToSet(r.idle) \cup r.active = RxSlot /\ r.task \in [RxSlot -> RxTask]
  BY DEF RxInv, RxState
<1>2. /\ t \in RxSlot /\ t \in ToSet(r.idle)
      /\ Tail(r.idle) \in Seq(RxSlot) /\ IsInjective(Tail(r.idle))
      /\ ToSet(Tail(r.idle)) = ToSet(r.idle) \ {t}
  BY <1>1, TakeHead
<1>3. /\ s.idle = Tail(r.idle) /\ s.active = r.active \cup {t} /\ s.task = [r.task EXCEPT ![t] = k]
      /\ s = [r EXCEPT !.idle = Tail(r.idle), !.active = r.active \cup {t}, !.task = [r.task EXCEPT ![t] = k]]
  BY <1>1 DEF RxState
<1> HIDE DEF t
<1>4. /\ k \in RxTask /\ k.msg = m /\ k.acked = {} /\ k.missing = r.task[t].missing \cup Seg(m)
  BY <1>1, <1>2, StartTyped
<1> HIDE DEF s, k
<1>5. s \in RxState
  BY <1>1, <1>2, <1>3, <1>4 DEF RxState
<1>6. s.task[t] = k /\ \A u \in RxSlot \ {t} : s.task[u] = r.task[u]
  BY <1>1, <1>2, <1>3
<1>7. m # NONE /\ 0 \in Seg(m) /\ Seg(m) \subseteq SegsTo(n)
  BY ScriptTyped DEF SegsTo
<1>8. RxInv(n, s)
  <2>1. /\ IsInjective(s.idle) /\ ToSet(s.idle) \cap s.active = {} /\ ToSet(s.idle) \cup s.active = RxSlot
    BY <1>1, <1>2, <1>3
  <2>2. \A u \in RxSlot :
          /\ s.task[u].missing \subseteq SegsTo(n)
          /\ s.task[u].msg # NONE => Script[s.task[u].msg].dst = n /\ s.task[u].acked \subseteq Seg(s.task[u].msg)
    BY <1>2, <1>4, <1>6, <1>7 DEF RxInv
  <2>3. \A u \in s.active :
          /\ s.task[u].msg # NONE /\ s.task[u].missing \cap s.task[u].acked = {}
          /\ Seg(s.task[u].msg) \subseteq s.task[u].missing \cup s.task[u].acked
    BY <1>1, <1>3, <1>4, <1>6, <1>7 DEF RxInv
  <2> QED
    BY <1>5, <2>1, <2>2, <2>3 DEF RxInv
<1>9. AllKept(s, g)
  BY <1>4, <1>6, <1>7 DEF AllKept
<1> QED
  BY <1>2, <1>3, <1>4, <1>6, <1>7, <1>8, <1>9 DEF s, t, Begun

\* A receive task that stores a segment is typed.
LEMMA StoreTyped ==
  ASSUME setting \in Settings, NEW task \in RxTask, task.msg \in Msg, NEW i \in Seg(task.msg)
  PROVE  LET k == Store(task, i) IN
         /\ k \in RxTask /\ k.msg = task.msg /\ k.acked = task.acked \cup {i} /\ k.len \in 0 .. MaxLen
         /\ k.missing = IF Script[task.msg].last = 0 THEN {} ELSE task.missing \ {i}
<1>1. i \in Segs
  BY ScriptTyped
<1>2. Longer(task) \in 0 .. MaxLen
  BY LowerTransAssumption DEF Longer, RxTask
<1> QED
  BY <1>1, <1>2 DEF Store, RxTask

\* A message not sent to the same node as a longer one is complete as soon as
\* all of its segments are acknowledged.
LEMMA CompleteWhenAcked ==
  ASSUME setting \in Settings, NEW n \in Node, NEW m \in Msg, Script[m].dst = n, ~Shrinks(m),
         NEW missing, missing \subseteq SegsTo(n), Script[m].last # 0, missing \cap Seg(m) = {}
  PROVE  missing = {}
<1>1. SegsTo(n) \subseteq Seg(m)
  <2> SUFFICES ASSUME NEW k \in Msg, Script[k].dst = n PROVE Seg(k) \subseteq Seg(m)
    BY DEF SegsTo
  <2>1. Script[k].last \in 0 .. 31 /\ Script[m].last \in 0 .. 31
    BY ScriptTyped
  <2>2. Script[k].last <= Script[m].last
    BY <2>1 DEF Shrinks
  <2> QED
    BY <2>1, <2>2 DEF Seg
<1> QED
  BY <1>1

\* A segment of the message of an active task: stored and acknowledged,
\* and with the last one the message is handed up.
LEMMA TakeSegmentStep ==
  ASSUME setting \in Settings, rx \in [Node -> RxState], got \in GotType,
         NEW n \in Node, NEW r, RxInv(n, r), AllKept(r, got),
         \A u \in RxSlot : rx[n].task[u].msg # NONE => r.task[u].msg # NONE,
         NEW p \in air, p.kind = "segment", p.msg \in Msg, p.seg \in Seg(p.msg), Script[p.msg].dst = n,
         NEW t \in r.active, r.task[t].msg = p.msg,
         NEW tms, \A tm \in tms : OldTimer(tm),
         TakeSegment(n, r, t, p, tms)
  PROVE  RxStep(n)
<1> DEFINE old == r.task[t]
           task == Store(old, p.seg)
           s == [r EXCEPT !.task[t] = task]
           m == p.msg
<1>1. /\ t \in RxSlot /\ old \in RxTask /\ r \in RxState /\ r.task \in [RxSlot -> RxTask]
      /\ Received(p) \subseteq air /\ m # NONE /\ 0 \in Seg(m) /\ Script[m].last \in 0 .. 31
  BY RxActive, ScriptTyped DEF RxInv, Received
<1>2. /\ old.missing \subseteq SegsTo(n) /\ old.acked \subseteq Seg(m) /\ old.missing \cap old.acked = {}
      /\ Seg(m) \subseteq old.missing \cup old.acked
      /\ old.acked = Seg(m) => Kept(m, got)
  BY <1>1 DEF RxInv, AllKept
<1>3. /\ task \in RxTask /\ task.msg = m /\ task.acked = old.acked \cup {p.seg} /\ task.len \in 0 .. MaxLen
      /\ task.missing = IF Script[m].last = 0 THEN {} ELSE old.missing \ {p.seg}
  BY <1>1, StoreTyped
<1>4. /\ s.idle = r.idle /\ s.active = r.active /\ s.task = [r.task EXCEPT ![t] = task]
  BY <1>1 DEF RxState
<1>5. s = [r EXCEPT !.task = [r.task EXCEPT ![t] = task]]
  OBVIOUS
<1> HIDE DEF task, s
<1>6. s \in RxState
  BY <1>1, <1>3, <1>5 DEF RxState
<1>7. s.task[t] = task /\ \A u \in RxSlot \ {t} : s.task[u] = r.task[u]
  BY <1>1, <1>4
<1>8. RxInv(n, s)
  <2>1. \A u \in RxSlot :
          /\ s.task[u].missing \subseteq SegsTo(n)
          /\ s.task[u].msg # NONE => Script[s.task[u].msg].dst = n /\ s.task[u].acked \subseteq Seg(s.task[u].msg)
    BY <1>2, <1>3, <1>7 DEF RxInv
  <2>2. task.missing \cap task.acked = {} /\ Seg(m) \subseteq task.missing \cup task.acked
    <3>1. CASE Script[m].last = 0
      <4>1. Seg(m) = {0}
        BY <3>1 DEF Seg
      <4> QED
        BY <1>3, <3>1, <4>1
    <3>2. CASE Script[m].last # 0
      BY <1>2, <1>3, <3>2
    <3> QED
      BY <3>1, <3>2
  <2>3. \A u \in s.active :
          /\ s.task[u].msg # NONE /\ s.task[u].missing \cap s.task[u].acked = {}
          /\ Seg(s.task[u].msg) \subseteq s.task[u].missing \cup s.task[u].acked
    BY <1>1, <1>3, <1>4, <1>7, <2>2, RxActive DEF RxInv
  <2> QED
    BY <1>4, <1>6, <2>1, <2>3 DEF RxInv
<1>9. /\ \A u \in RxSlot : rx[n].task[u].msg # NONE => s.task[u].msg # NONE
      /\ \A tm \in tms : OldTimer(tm)
  BY <1>1, <1>3, <1>7
<1>10. CASE old.missing = {}
  <2>1. /\ rx' = [rx EXCEPT ![n] = r] /\ timers' = tms /\ got' = got
        /\ air' = Received(p) \cup {AckPkt(m, old.acked)}
    BY <1>10 DEF TakeSegment, Acknowledge
  <2>2. old.acked \in SUBSET Seg(m) /\ Kept(m, got)
    BY <1>2, <1>10
  <2> QED
    BY <1>1, <2>1, <2>2 DEF RxStep
<1>11. CASE old.missing # {} /\ p.seg \notin old.missing
  <2>1. rx' = [rx EXCEPT ![n] = r] /\ timers' = tms /\ air' = Received(p) /\ got' = got
    BY <1>11 DEF TakeSegment
  <2> QED
    BY <1>1, <2>1 DEF RxStep
<1>12. CASE p.seg \in old.missing /\ task.missing # {}
  <2>1. /\ rx' = [rx EXCEPT ![n] = s] /\ timers' = tms \cup Unowned(n, t) /\ air' = Received(p) /\ got' = got
    BY <1>12 DEF TakeSegment, task, s
  <2>2. task.acked = Seg(m) => Kept(m, got)
    <3> SUFFICES ASSUME task.acked = Seg(m), ~Shrinks(m) PROVE FALSE
      BY DEF Kept
    <3>1. Script[m].last # 0 /\ task.missing \subseteq SegsTo(n) /\ task.missing \cap Seg(m) = {}
      BY <1>2, <1>3, <1>12
    <3> QED
      BY <1>12, <3>1, CompleteWhenAcked
  <2>3. AllKept(s, got)
    BY <1>3, <1>7, <2>2 DEF AllKept
  <2>4. \A tm \in timers' : OldTimer(tm) \/ RxTimer(n, s, tm)
    BY <1>1, <1>3, <1>7, <1>9, <2>1 DEF Unowned, RxTimer
  <2> QED
    BY <1>1, <1>6, <1>8, <1>9, <2>1, <2>3, <2>4 DEF RxStep
<1>13. CASE p.seg \in old.missing /\ task.missing = {}
  <2>1. task.acked = Seg(m)
    BY <1>1, <1>2, <1>3, <1>8, <1>7, <1>13, <1>4 DEF RxInv
  <2>2. CASE /\ air' = Received(p) \cup {AckPkt(m, task.acked)}
             /\ rx' = [rx EXCEPT ![n] = s]
             /\ timers' = (tms \ {Own(n, "ack", t)}) \cup {Own(n, "incomplete", t)}
             /\ got' = [got EXCEPT ![m] = @ \cup {task.len}]
    <3>1. got' \in GotType /\ got'[m] # {} /\ (\A k \in Msg : got[k] \subseteq got'[k]) /\ \A k \in Msg \ {m} : got'[k] = got[k]
      BY <1>3, <2>2 DEF GotType
    <3>2. AllKept(s, got')
      <4>1. \A k \in Msg : Kept(k, got) => Kept(k, got')
        BY <3>1 DEF Kept
      <4>2. \A u \in RxSlot : r.task[u].msg \in Msg \cup {NONE}
        BY <1>1 DEF RxTask
      <4> QED
        BY <1>3, <1>7, <3>1, <4>1, <4>2 DEF AllKept, Kept
    <3>3. \A tm \in timers' : OldTimer(tm) \/ RxTimer(n, s, tm)
      BY <1>1, <1>3, <1>7, <1>9, <2>2 DEF RxTimer
    <3>4. \A q \in air' \ air : q = AckPkt(m, task.acked) /\ task.acked \in SUBSET Seg(m) /\ Kept(m, got')
      BY <1>1, <2>1, <2>2, <3>1 DEF Kept
    <3>5. t \in s.active /\ s.task[t].msg = m /\ s.task[t].acked = Seg(m)
      BY <1>3, <1>4, <1>7, <2>1
    <3>6. Delivers(n, s)
      BY <2>2, <3>5 DEF Delivers
    <3> QED
      BY <1>6, <1>8, <1>9, <2>2, <3>1, <3>2, <3>3, <3>4, <3>6 DEF RxStep
  <2>3. CASE /\ RplRejects /\ air' = Received(p) \cup {AckPkt(m, {})}
             /\ rx' = [rx EXCEPT ![n] = RxRelease(IF Script[m].last = 0 THEN r ELSE s, t)]
             /\ timers' = tms \ Unowned(n, t) /\ got' = got
    <3> DEFINE q == IF Script[m].last = 0 THEN r ELSE s
               y == RxRelease(q, t)
    <3>1. RxInv(n, q) /\ \A u \in RxSlot : rx[n].task[u].msg # NONE => q.task[u].msg # NONE
      BY <1>8, <1>9
    <3> HIDE DEF q
    <3>2. RxInv(n, y) /\ y.task = q.task /\ y \in RxState
      BY <1>1, <3>1, RxReleaseTask DEF RxInv
    <3>3. rx' = [rx EXCEPT ![n] = y]
      BY <2>3 DEF q
    <3> HIDE DEF y
    <3>4. AllKept(y, got')
      BY <2>3 DEF AllKept, Kept
    <3>5. {} \in SUBSET Seg(m) /\ {} # Seg(m)
      BY <1>1
    <3>6. \A a \in air' \ air : a = AckPkt(m, {})
      BY <1>1, <2>3
    <3>7. /\ \A u \in RxSlot : rx[n].task[u].msg # NONE => y.task[u].msg # NONE
          /\ \A tm \in timers' : OldTimer(tm)
      BY <1>9, <2>3, <3>1, <3>2
    <3> QED
      BY <2>3, <3>2, <3>3, <3>4, <3>5, <3>6, <3>7 DEF RxStep
  <2> QED
    BY <1>13, <2>2, <2>3 DEF TakeSegment, Acknowledge, task, s
<1>14. \/ old.missing = {} \/ (old.missing # {} /\ p.seg \notin old.missing)
       \/ (p.seg \in old.missing /\ task.missing # {}) \/ (p.seg \in old.missing /\ task.missing = {})
  OBVIOUS
<1> QED
  BY <1>10, <1>11, <1>12, <1>13, <1>14

\* A segment that no task takes is answered with an acknowledgement of none.
LEMMA RefuseStep ==
  ASSUME setting \in Settings, rx \in [Node -> RxState], got \in GotType,
         NEW n \in Node, NEW r, RxInv(n, r), AllKept(r, got),
         \A u \in RxSlot : rx[n].task[u].msg # NONE => r.task[u].msg # NONE,
         \A tm \in timers : OldTimer(tm),
         NEW tms, \A tm \in tms : OldTimer(tm),
         NEW p \in air, p.msg \in Msg, Refuse(n, p, r, tms)
  PROVE  RxStep(n)
<1>1. /\ rx' = [rx EXCEPT ![n] = r] /\ timers' = tms /\ got' = got /\ r \in RxState
      /\ air' = Received(p) \cup {AckPkt(p.msg, {})} /\ Received(p) \subseteq air
  BY DEF Refuse, Acknowledge, Received, RxInv
<1>2. {} \in SUBSET Seg(p.msg) /\ {} # Seg(p.msg)
  BY ScriptTyped
<1> QED
  BY <1>1, <1>2 DEF RxStep

\* A segment of a new message, which gets a task if one is idle.
LEMMA NewTaskStep ==
  ASSUME setting \in Settings, rx \in [Node -> RxState], got \in GotType,
         NEW n \in Node, NEW r, RxInv(n, r), AllKept(r, got),
         \A u \in RxSlot : rx[n].task[u].msg # NONE => r.task[u].msg # NONE,
         \A tm \in timers : OldTimer(tm),
         NEW p \in air, p.kind = "segment", p.msg \in Msg, p.seg \in Seg(p.msg), Script[p.msg].dst = n,
         NewTask(n, r, p)
  PROVE  RxStep(n)
<1>1. CASE r.idle = <<>>
  BY <1>1, RefuseStep DEF NewTask
<1>2. CASE r.idle # <<>>
  <2> DEFINE t == Head(r.idle)
             s == [r EXCEPT !.idle = Tail(@), !.active = @ \cup {t}, !.task[t] = Start(@, p.msg)]
             q == [r EXCEPT !.idle = Append(Tail(@), t)]
             lost == [q EXCEPT !.task[t].dead = TRUE]
  <2>1. Begun(n, r, p.msg, got, t, s)
    BY <1>2, RxStart
  <2>2. \/ TakeSegment(n, s, t, p, Disowned(Unowned(n, t)))
        \/ Refuse(n, p, q, timers)
        \/ \E gone \in {{Own(n, "ack", t)}, Unowned(n, t)} : Refuse(n, p, lost, Disowned(gone))
    BY <1>2 DEF NewTask
  <2>3. /\ r \in RxState /\ r.idle \in Seq(RxSlot) /\ IsInjective(r.idle)
    BY DEF RxInv, RxState
  <2>4. /\ Tail(r.idle) \in Seq(RxSlot) /\ IsInjective(Tail(r.idle)) /\ t \in RxSlot /\ t \in ToSet(r.idle)
        /\ ToSet(Tail(r.idle)) = ToSet(r.idle) \ {t}
    BY <1>2, <2>3, TakeHead
  <2>5. q.idle = Append(Tail(r.idle), t) /\ q.active = r.active /\ q.task = r.task
    BY <2>3 DEF RxState
  <2>6. q = [r EXCEPT !.idle = Append(Tail(r.idle), t)]
    OBVIOUS
  <2>7. /\ lost.idle = q.idle /\ lost.active = q.active
        /\ lost = [q EXCEPT !.task = [q.task EXCEPT ![t] = [q.task[t] EXCEPT !.dead = TRUE]]]
        /\ lost.task = [q.task EXCEPT ![t] = [q.task[t] EXCEPT !.dead = TRUE]]
    BY <2>3 DEF RxState
  <2>8. {Own(n, "ack", t)} \subseteq Unowned(n, t)
    BY DEF Unowned
  <2> HIDE DEF t, s, q, lost
  <2>9. ASSUME NEW gone, gone \subseteq Unowned(n, t)
         PROVE  \A tm \in Disowned(gone) : OldTimer(tm)
    <3> SUFFICES ASSUME NEW old \in timers PROVE OldTimer([old EXCEPT !.own = @ /\ old \notin gone])
      BY DEF Disowned
    <3> DEFINE own == old.own /\ old \notin gone
    <3>1. old.kind = "retry" => old \notin gone
      BY <2>9 DEF Unowned, Own, Timer
    <3>2. own \in BOOLEAN /\ (old.kind = "retry" => (own <=> old.own))
      BY <3>1
    <3>3. [old EXCEPT !.own = @ /\ old \notin gone] = [old EXCEPT !.own = own]
      OBVIOUS
    <3> QED
      BY <3>2, <3>3 DEF OldTimer
  <2>10. CASE TakeSegment(n, s, t, p, Disowned(Unowned(n, t)))
    <3>1. \A tm \in Disowned(Unowned(n, t)) : OldTimer(tm)
      BY <2>9
    <3>2. /\ RxInv(n, s) /\ AllKept(s, got) /\ t \in s.active /\ s.task[t].msg = p.msg
          /\ \A u \in RxSlot : rx[n].task[u].msg # NONE => s.task[u].msg # NONE
      BY <2>1 DEF Begun
    <3> QED
      BY <2>10, <3>1, <3>2, TakeSegmentStep
  <2>11. RxInv(n, q) /\ AllKept(q, got) /\ q \in RxState
    <3>1. q.idle \in Seq(RxSlot) /\ IsInjective(q.idle) /\ ToSet(q.idle) = ToSet(r.idle)
      <4> DEFINE i == Tail(r.idle)
      <4>1. i \in Seq(RxSlot) /\ IsInjective(i) /\ t \in RxSlot /\ t \notin ToSet(i) /\ ToSet(r.idle) = ToSet(i) \cup {t}
        BY <2>4
      <4>2. q.idle = Append(i, t)
        BY <2>5
      <4> HIDE DEF i
      <4> QED
        BY <4>1, <4>2, AppendNew
    <3>2. q \in RxState
      BY <2>3, <2>6, <2>5, <3>1 DEF RxState
    <3>3. RxInv(n, q) /\ AllKept(q, got)
      BY <2>5, <3>1, <3>2 DEF RxInv, AllKept
    <3> QED
      BY <3>2, <3>3
  <2>12. CASE Refuse(n, p, q, timers)
    BY <2>5, <2>11, <2>12, RefuseStep
  <2>13. RxInv(n, lost) /\ AllKept(lost, got) /\ \A u \in RxSlot : lost.task[u].msg = q.task[u].msg
    <3> DEFINE k == [q.task[t] EXCEPT !.dead = TRUE]
    <3>1. q.task \in [RxSlot -> RxTask] /\ t \in RxSlot
      BY <2>4, <2>11 DEF RxState
    <3>2. /\ k \in RxTask /\ k.msg = q.task[t].msg
          /\ k.missing = q.task[t].missing /\ k.acked = q.task[t].acked
      BY <3>1 DEF RxTask
    <3>3. lost = [q EXCEPT !.task = [q.task EXCEPT ![t] = k]] /\ lost.task = [q.task EXCEPT ![t] = k]
      BY <2>7
    <3> HIDE DEF k
    <3>4. lost.task \in [RxSlot -> RxTask]
      BY <3>1, <3>2, <3>3
    <3>5. lost \in RxState
      BY <2>11, <3>3, <3>4 DEF RxState
    <3>6. \A u \in RxSlot : /\ lost.task[u].msg = q.task[u].msg
                            /\ lost.task[u].missing = q.task[u].missing /\ lost.task[u].acked = q.task[u].acked
      BY <3>1, <3>2, <3>3
    <3> QED
      BY <2>11, <2>7, <3>5, <3>6, RxActive DEF RxInv, AllKept
  <2>14. ASSUME NEW gone \in {{Own(n, "ack", t)}, Unowned(n, t)}, Refuse(n, p, lost, Disowned(gone))
         PROVE  RxStep(n)
    BY <2>5, <2>8, <2>9, <2>13, <2>14, RefuseStep
  <2> QED
    BY <2>2, <2>10, <2>12, <2>14
<1> QED
  BY <1>1, <1>2

\* A segment arrives.
LEMMA RecvSegmentStep ==
  ASSUME setting \in Settings, rx \in [Node -> RxState], got \in GotType,
         NEW n \in Node, RxInv(n, rx[n]), AllKept(rx[n], got),
         \A tm \in timers : OldTimer(tm),
         NEW p \in air, p.msg \in Msg, p.seg \in Seg(p.msg),
         RecvSegment(n, p)
  PROVE  RxStep(n)
<1> DEFINE r == rx[n]
<1>1. /\ Script[p.msg].dst = n /\ p.kind = "segment"
      /\ \/ NewTask(n, r, p)
         \/ \E t \in Active(r, Script[p.msg].src) :
              CASE r.task[t].msg > p.msg -> Refuse(n, p, r, timers)
                [] r.task[t].msg = p.msg -> TakeSegment(n, r, t, p, timers)
                [] r.task[t].msg < p.msg -> NewTask(n, RxRelease(r, t), p)
  BY DEF RecvSegment
<1>2. CASE NewTask(n, r, p)
  BY <1>1, <1>2, NewTaskStep
<1>3. ASSUME NEW t \in Active(r, Script[p.msg].src),
             CASE r.task[t].msg > p.msg -> Refuse(n, p, r, timers)
               [] r.task[t].msg = p.msg -> TakeSegment(n, r, t, p, timers)
               [] r.task[t].msg < p.msg -> NewTask(n, RxRelease(r, t), p)
      PROVE  RxStep(n)
  <2>1. t \in r.active /\ t \in RxSlot
    BY RxActive DEF Active
  <2>2. r.task[t].msg \in Nat /\ p.msg \in Nat
    BY <2>1, ScriptTyped DEF RxState, RxTask, NONE
  <2>3. CASE r.task[t].msg > p.msg
    <3>1. ~(r.task[t].msg = p.msg) /\ ~(r.task[t].msg < p.msg)
      BY <2>2, <2>3
    <3>2. Refuse(n, p, r, timers)
      BY <1>3, <2>3, <3>1
    <3> QED
      BY <3>2, RefuseStep
  <2>4. CASE r.task[t].msg = p.msg
    <3>1. ~(r.task[t].msg > p.msg) /\ ~(r.task[t].msg < p.msg)
      BY <2>2, <2>4
    <3>2. TakeSegment(n, r, t, p, timers)
      BY <1>3, <2>4, <3>1
    <3> QED
      BY <1>1, <2>1, <2>4, <3>2, TakeSegmentStep
  <2>5. CASE r.task[t].msg < p.msg
    <3> DEFINE q == RxRelease(r, t)
    <3>1. NewTask(n, q, p)
      BY <1>3, <2>2, <2>5
    <3>2. RxInv(n, q) /\ q.task = r.task
      BY <2>1, RxReleaseTask
    <3> HIDE DEF q
    <3>3. AllKept(q, got)
      BY <3>2 DEF AllKept
    <3> QED
      BY <1>1, <3>1, <3>2, <3>3, NewTaskStep
  <2> QED
    BY <2>2, <2>3, <2>4, <2>5
<1> QED
  BY <1>1, <1>2, <1>3

\* The timers of a receive task: acknowledge again, or give it up.
LEMMA RxTimeoutStep ==
  ASSUME setting \in Settings, rx \in [Node -> RxState], got \in GotType,
         NEW n \in Node, RxInv(n, rx[n]), AllKept(rx[n], got),
         NEW t \in RxSlot, rx[n].task[t].msg # NONE,
         NEW running, \A tm \in running : OldTimer(tm),
         AckTimeout(n, t, running) \/ IncompleteTimeout(n, t, running)
  PROVE  RxStep(n)
<1> DEFINE k == rx[n].task[t]
<1>1. CASE AckTimeout(n, t, running)
  <2>1. /\ rx' = [rx EXCEPT ![n] = rx[n]] /\ timers' = running /\ got' = got
        /\ air' = air \cup {AckPkt(k.msg, k.acked)}
    BY <1>1 DEF AckTimeout, Acknowledge
  <2>2. k.msg \in Msg /\ k.acked \in SUBSET Seg(k.msg) /\ (k.acked = Seg(k.msg) => Kept(k.msg, got))
    BY DEF RxInv, AllKept, RxState, RxTask
  <2> QED
    BY <2>1, <2>2 DEF RxStep
<1>2. CASE IncompleteTimeout(n, t, running)
  <2> DEFINE q == IF k.dead THEN rx[n] ELSE RxRelease(rx[n], t)
  <2>1. rx' = [rx EXCEPT ![n] = q] /\ timers' \subseteq running /\ got' = got /\ air' = air
    BY <1>2 DEF IncompleteTimeout
  <2>2. RxInv(n, q) /\ q.task = rx[n].task
    BY RxReleaseTask
  <2> HIDE DEF q
  <2>3. AllKept(q, got) /\ q \in RxState
    BY <2>2 DEF AllKept, RxInv
  <2> QED
    BY <2>1, <2>2, <2>3 DEF RxStep
<1> QED
  BY <1>1, <1>2

-----------------------------------------------------------------------------
(* The invariant *)

Typed ==
  /\ setting \in Settings /\ tx \in [Node -> TxState] /\ rx \in [Node -> RxState]
  /\ outcome \in OutcomeType /\ got \in GotType /\ fault \in FaultType

Sending == \A n \in Node : TxInv(n, tx[n]) /\ Counted(tx[n]) /\ (Up(n) => Full(tx[n]) /\ Waits(tx[n]))

Receiving == \A n \in Node : RxInv(n, rx[n]) /\ AllKept(rx[n], got)

\* An acknowledgement on its way speaks of segments that came.
InAir ==
  \A p \in air :
    \/ \E m \in Msg : \E i \in Seg(m) : p = SegmentPkt(m, i)
    \/ \E m \in Msg : \E bits \in SUBSET Seg(m) : p = AckPkt(m, bits) /\ (bits = Seg(m) => Kept(m, got))

\* The task of a timer has had a message.
Used(n, kind, t) ==
  \/ kind = "retry" /\ t \in TxSlot /\ tx[n].task[t].msg # NONE
  \/ kind \in {"ack", "incomplete"} /\ t \in RxSlot /\ rx[n].task[t].msg # NONE
Timing ==
  /\ \A tm \in timers : tm = Timer(tm.node, tm.kind, tm.slot, tm.own)
       /\ tm.node \in Node /\ tm.own \in BOOLEAN /\ Used(tm.node, tm.kind, tm.slot)
  /\ \A n \in Node : Running(n, tx[n], timers)
  /\ posted # {} => StaleTimeouts
  /\ \A to \in posted : to = <<to[1], to[2], to[3]>> /\ to[1] \in Node /\ Used(to[1], to[2], to[3])

Honest == \A m \in Msg : outcome[m] = "acked" => Kept(m, got)

Inv == Typed /\ Sending /\ Receiving /\ InAir /\ Timing /\ Honest

\* Initially every task is idle and nothing is in the air.
LEMMA InitInv == Init => Inv
<1> SUFFICES ASSUME Init PROVE Inv
  OBVIOUS
<1> DEFINE idleTx == [i \in TxSlot |-> i]
           idleRx == [i \in RxSlot |-> i]
           kt == [msg |-> NONE, acked |-> {}, tries |-> 0, stored |-> FALSE]
           kr == [msg |-> NONE, missing |-> {}, acked |-> {}, len |-> 0, dead |-> FALSE]
           tx0 == [idle |-> idleTx, active |-> {}, pending |-> <<>>, task |-> [t \in TxSlot |-> kt]]
           rx0 == [idle |-> idleRx, active |-> {}, task |-> [t \in RxSlot |-> kr]]
<1>1. /\ setting \in Settings /\ tx = [n \in Node |-> tx0] /\ rx = [n \in Node |-> rx0]
      /\ air = {} /\ timers = {} /\ posted = {} /\ outcome = [m \in Msg |-> "new"]
      /\ got = [m \in Msg |-> {}] /\ fault = [n \in Node |-> "none"]
  BY DEF Init
<1>2. TxSlots \in Nat /\ RxSlots \in Nat /\ Retries \in Nat /\ MaxLen \in Nat
  BY LowerTransAssumption
<1>3. idleTx \in Seq(TxSlot) /\ idleRx \in Seq(RxSlot) /\ DOMAIN idleTx = TxSlot /\ DOMAIN idleRx = RxSlot
  BY <1>2 DEF TxSlot, RxSlot
<1>4. IsInjective(idleTx) /\ ToSet(idleTx) = TxSlot /\ IsInjective(idleRx) /\ ToSet(idleRx) = RxSlot
  BY DEF IsInjective, ToSet
<1>5. kt \in TxTask /\ kr \in RxTask
  BY <1>2 DEF TxTask, RxTask
<1> HIDE DEF idleTx, idleRx, kt, kr
<1>6. tx0 \in TxState /\ rx0 \in RxState
  BY <1>3, <1>5 DEF TxState, RxState
<1>7. ToSet(<<>>) = {} /\ IsInjective(<<>>)
  BY DEF ToSet, IsInjective
<1>8. \A n \in Node : TxInv(n, tx0) /\ Counted(tx0) /\ Full(tx0) /\ Waits(tx0)
  BY <1>4, <1>6, <1>7 DEF TxInv, Counted, Full, Waits, kt
<1>9. \A n \in Node : RxInv(n, rx0) /\ AllKept(rx0, got)
  BY <1>4, <1>6 DEF RxInv, AllKept, kr
<1> HIDE DEF tx0, rx0
<1>11. Typed
  BY <1>1, <1>6 DEF Typed, OutcomeType, GotType, FaultType
<1>12. Sending /\ Receiving
  BY <1>1, <1>8, <1>9 DEF Sending, Receiving
<1>13. InAir /\ Timing /\ Honest
  BY <1>1 DEF InAir, Timing, Honest, Running
<1> QED
  BY <1>11, <1>12, <1>13 DEF Inv

\* A timer that runs is one that ran before.
LEMMA ParkedTimers ==
  ASSUME Timing
  PROVE  \A tm \in timers : OldTimer(tm)
<1> SUFFICES ASSUME NEW tm \in timers PROVE OldTimer(tm)
  OBVIOUS
<1>1. tm = [tm EXCEPT !.own = tm.own] /\ tm.own \in BOOLEAN
  BY DEF Timing, Timer
<1> QED
  BY <1>1 DEF OldTimer

\* The parts of the invariant about records of tasks speak of the script,
\* which no step changes.
LEMMA TxPrimed ==
  ASSUME setting' = setting, NEW n \in Node, TxInv(n, tx'[n])
  PROVE  /\ TxInv(n, tx[n])'
         /\ (Counted(tx'[n]) => Counted(tx[n])') /\ (Full(tx'[n]) => Full(tx[n])') /\ (Waits(tx'[n]) => Waits(tx[n])')
<1>1. Script' = Script
  BY DEF Script
<1>2. TxState' = TxState
  BY <1>1 DEF TxState, TxTask, Segs, Seg, Msg
<1>3. TxInv(n, tx[n])'
  BY <1>1, <1>2 DEF TxInv, Dst
<1>4. (Counted(tx'[n]) => Counted(tx[n])') /\ (Full(tx'[n]) => Full(tx[n])')
  BY DEF Counted, Full
<1>5. Waits(tx'[n]) => Waits(tx[n])'
  BY <1>1 DEF Waits, Blocked, Dst
<1> QED
  BY <1>3, <1>4, <1>5

LEMMA RxPrimed ==
  ASSUME setting' = setting, NEW n \in Node, RxInv(n, rx'[n])
  PROVE  RxInv(n, rx[n])' /\ (AllKept(rx'[n], got') => AllKept(rx[n], got)')
<1>1. Script' = Script /\ RplRejects' = RplRejects
  BY DEF Script, RplRejects
<1>2. /\ RxState' = RxState /\ SegsTo(n)' = SegsTo(n) /\ \A m : Seg(m)' = Seg(m)
  BY <1>1 DEF RxState, RxTask, SegsTo, Segs, Seg, Msg
<1>3. RxInv(n, rx[n])'
  BY <1>1, <1>2 DEF RxInv
<1>4. \A m : Kept(m, got') <=> Kept(m, got)'
  BY <1>1 DEF Kept, Shrinks, Msg
<1>5. AllKept(rx'[n], got') => AllKept(rx[n], got)'
  BY <1>2, <1>4 DEF AllKept
<1> QED
  BY <1>3, <1>5

LEMMA ScriptPrimed ==
  ASSUME setting' = setting
  PROVE  /\ Msg' = Msg /\ (\A m \in Msg : Seg(m)' = Seg(m) /\ Kept(m, got)' = Kept(m, got'))
         /\ TxState' = TxState /\ RxState' = RxState /\ OutcomeType' = OutcomeType /\ GotType' = GotType
BY DEF Kept, Shrinks, RplRejects, TxState, TxTask, RxState, RxTask, OutcomeType, GotType, Segs, Seg, Msg, Script

\* Every step is one of three kinds: a node moves its transmit tasks, or its
\* receive tasks, or timers run out without anyone having noticed.
Sends(n) ==
  /\ \E won : TxStep(n, won) /\ \A m \in Msg : m \in won => Kept(m, got)
  /\ setting' = setting /\ rx' = rx /\ got' = got /\ posted' \subseteq posted
Receives(n) ==
  /\ RxStep(n)
  /\ setting' = setting /\ tx' = tx /\ outcome' = outcome /\ posted' \subseteq posted
  /\ fault' \in FaultType /\ \A k \in Node : fault'[k] = "none" => fault[k] = "none"
Posts ==
  /\ UNCHANGED <<setting, tx, rx, air, outcome, got, fault>> /\ timers' \subseteq timers
  /\ \A to \in posted' \ posted :
       StaleTimeouts /\ \E tm \in timers : to = <<tm.node, tm.kind, tm.slot>>

\* A step of a transmitter leaves what the receivers and the other
\* transmitters know as it was.
LEMMA SendsInv ==
  ASSUME Inv, NEW n \in Node, Sends(n)
  PROVE  Inv'
<1>a. PICK won : TxStep(n, won) /\ \A m \in Msg : m \in won => Kept(m, got)
  BY DEF Sends
<1>b. setting' = setting /\ rx' = rx /\ got' = got /\ posted' \subseteq posted
  BY DEF Sends
<1> USE DEF Inv
<1> USE <1>a, <1>b
<1>1. PICK x \in TxState : /\ tx' = [tx EXCEPT ![n] = x] /\ TxInv(n, x) /\ Counted(x)
                           /\ \A t \in TxSlot : tx[n].task[t].msg # NONE => x.task[t].msg # NONE
                           /\ fault'[n] = "none" => Full(x) /\ Waits(x)
                           /\ Running(n, x, timers')
  BY <1>a DEF TxStep
<1>2. /\ fault' \in FaultType /\ \A k \in Node : fault'[k] = "none" => fault[k] = "none"
      /\ \A tm \in timers' \ timers : \E t \in TxSlot : tm = Own(n, "retry", t) /\ tx'[n].task[t].msg # NONE
      /\ \A p \in air' \ air : \E m \in Msg : \E i \in Seg(m) : p = SegmentPkt(m, i)
      /\ outcome' \in OutcomeType
      /\ \A m \in Msg : outcome'[m] = "acked" => outcome[m] = "acked" \/ m \in won
  BY <1>a DEF TxStep, Sent
<1>3. tx'[n] = x /\ \A k \in Node \ {n} : tx'[k] = tx[k]
  BY <1>1 DEF Typed
<1>4. /\ Msg' = Msg /\ (\A m \in Msg : Seg(m)' = Seg(m) /\ Kept(m, got)' = Kept(m, got))
      /\ TxState' = TxState /\ RxState' = RxState /\ OutcomeType' = OutcomeType /\ GotType' = GotType
  BY ScriptPrimed
<1>5. Typed'
  BY <1>1, <1>2, <1>4 DEF Typed, FaultType
<1>6. Sending'
  <2> SUFFICES ASSUME NEW k \in Node PROVE (TxInv(k, tx[k]) /\ Counted(tx[k]) /\ (Up(k) => Full(tx[k]) /\ Waits(tx[k])))'
    BY DEF Sending
  <2>1. TxInv(k, tx'[k]) /\ Counted(tx'[k]) /\ (Up(k)' => Full(tx'[k]) /\ Waits(tx'[k]))
    BY <1>1, <1>2, <1>3 DEF Sending, Up
  <2> QED
    BY <2>1, TxPrimed
<1>7. Receiving'
  <2> SUFFICES ASSUME NEW k \in Node PROVE (RxInv(k, rx[k]) /\ AllKept(rx[k], got))'
    BY DEF Receiving
  <2>1. RxInv(k, rx'[k]) /\ AllKept(rx'[k], got')
    BY DEF Receiving
  <2> QED
    BY <2>1, RxPrimed
<1>8. InAir'
  BY <1>2, <1>4 DEF InAir, AckPkt, SegmentPkt
<1>9. \A k \in Node : \A kind, t : Used(k, kind, t) => Used(k, kind, t)'
  BY <1>1, <1>3 DEF Used
<1>10. Timing'
  <2>1. ASSUME NEW tm \in timers'
        PROVE  /\ tm = Timer(tm.node, tm.kind, tm.slot, tm.own)
               /\ tm.node \in Node /\ tm.own \in BOOLEAN /\ Used(tm.node, tm.kind, tm.slot)'
    <3>1. CASE tm \in timers
      BY <1>9, <3>1 DEF Timing
    <3>2. CASE tm \notin timers
      <4>1. PICK t \in TxSlot : tm = Own(n, "retry", t) /\ tx'[n].task[t].msg # NONE
        BY <1>2, <3>2
      <4> QED
        BY <4>1 DEF Own, Timer, Used
    <3> QED
      BY <3>1, <3>2
  <2>2. \A to \in posted' : to = <<to[1], to[2], to[3]>> /\ to[1] \in Node /\ Used(to[1], to[2], to[3])'
    BY <1>9 DEF Timing
  <2>3. \A k \in Node : Running(k, tx'[k], timers')
    <3> SUFFICES ASSUME NEW k \in Node, k # n PROVE Running(k, tx[k], timers')
      BY <1>1, <1>3
    <3>1. Running(k, tx[k], timers)
      BY DEF Timing
    <3>2. \A tm \in timers' \ timers : tm.node = n
      BY <1>2 DEF Own, Timer
    <3> QED
      BY <3>1, <3>2 DEF Running
  <2>4. (\A k \in Node : Running(k, tx[k], timers)') /\ (posted # {} => StaleTimeouts)'
    BY <2>3 DEF Running, Own, Timer, Timing, StaleTimeouts
  <2> QED
    BY <2>1, <2>2, <2>4 DEF Timing, Timer
<1>11. Honest'
  BY <1>2, <1>4 DEF Honest
<1> QED
  BY <1>5, <1>6, <1>7, <1>8, <1>10, <1>11

\* A step of a receiver.
LEMMA ReceivesInv ==
  ASSUME Inv, NEW n \in Node, Receives(n)
  PROVE  Inv'
<1> USE DEF Inv
<1>a. /\ RxStep(n) /\ setting' = setting /\ tx' = tx /\ outcome' = outcome /\ posted' \subseteq posted
      /\ fault' \in FaultType /\ \A k \in Node : fault'[k] = "none" => fault[k] = "none"
  BY DEF Receives
<1> USE <1>a
<1>1. PICK r \in RxState : /\ rx' = [rx EXCEPT ![n] = r] /\ RxInv(n, r) /\ AllKept(r, got')
                           /\ \A t \in RxSlot : rx[n].task[t].msg # NONE => r.task[t].msg # NONE
                           /\ \A tm \in timers' : OldTimer(tm) \/ RxTimer(n, r, tm)
  BY <1>a DEF RxStep
<1>2. /\ got' \in GotType /\ \A m \in Msg : got[m] \subseteq got'[m]
      /\ \A p \in air' \ air : \E m \in Msg : \E bits \in SUBSET Seg(m) :
           p = AckPkt(m, bits) /\ (bits = Seg(m) => Kept(m, got'))
  BY <1>a DEF RxStep
<1>3. rx'[n] = r /\ \A k \in Node \ {n} : rx'[k] = rx[k]
  BY <1>1 DEF Typed
<1>4. /\ Msg' = Msg /\ (\A m \in Msg : Seg(m)' = Seg(m) /\ Kept(m, got)' = Kept(m, got'))
      /\ TxState' = TxState /\ RxState' = RxState /\ OutcomeType' = OutcomeType /\ GotType' = GotType
  BY ScriptPrimed
<1>5. \A m \in Msg : Kept(m, got) => Kept(m, got')
  BY <1>2 DEF Kept
<1>6. Typed'
  BY <1>1, <1>2, <1>4 DEF Typed, FaultType
<1>7. Sending'
  <2> SUFFICES ASSUME NEW k \in Node PROVE (TxInv(k, tx[k]) /\ Counted(tx[k]) /\ (Up(k) => Full(tx[k]) /\ Waits(tx[k])))'
    BY DEF Sending
  <2>1. TxInv(k, tx'[k]) /\ Counted(tx'[k]) /\ (Up(k)' => Full(tx'[k]) /\ Waits(tx'[k]))
    BY DEF Sending, Up
  <2> QED
    BY <2>1, TxPrimed
<1>8. Receiving'
  <2> SUFFICES ASSUME NEW k \in Node PROVE (RxInv(k, rx[k]) /\ AllKept(rx[k], got))'
    BY DEF Receiving
  <2>1. \A t \in RxSlot : rx[k].task[t].msg \in Msg \cup {NONE}
    BY DEF Typed, RxState, RxTask
  <2>2. RxInv(k, rx'[k]) /\ AllKept(rx'[k], got')
    BY <1>1, <1>3, <1>5, <2>1 DEF Receiving, AllKept
  <2> QED
    BY <2>2, RxPrimed
<1>9. InAir'
  <2> SUFFICES ASSUME NEW p \in air'
               PROVE  \/ \E m \in Msg : \E i \in Seg(m) : p = SegmentPkt(m, i)
                      \/ \E m \in Msg : \E bits \in SUBSET Seg(m) : p = AckPkt(m, bits) /\ (bits = Seg(m) => Kept(m, got'))
    BY <1>4 DEF InAir, AckPkt, SegmentPkt
  <2> QED
    BY <1>2, <1>5 DEF InAir
<1>10. \A k \in Node : \A kind, t : Used(k, kind, t) => Used(k, kind, t)'
  BY <1>1, <1>3 DEF Used
<1>11. Timing'
  <2>1. ASSUME NEW tm \in timers'
        PROVE  /\ tm = Timer(tm.node, tm.kind, tm.slot, tm.own)
               /\ tm.node \in Node /\ tm.own \in BOOLEAN /\ Used(tm.node, tm.kind, tm.slot)'
    <3>1. CASE OldTimer(tm)
      <4>1. PICK old \in timers, own \in BOOLEAN : tm = [old EXCEPT !.own = own]
        BY <3>1 DEF OldTimer
      <4>2. old = Timer(old.node, old.kind, old.slot, old.own) /\ old.node \in Node /\ Used(old.node, old.kind, old.slot)
        BY DEF Timing
      <4>3. tm = Timer(old.node, old.kind, old.slot, own)
        BY <4>1, <4>2 DEF Timer
      <4> QED
        BY <1>10, <4>2, <4>3 DEF Timer
    <3>2. CASE RxTimer(n, r, tm)
      BY <1>3, <3>2 DEF RxTimer, Own, Timer, Used
    <3> QED
      BY <1>1, <3>1, <3>2
  <2>2. \A to \in posted' : to = <<to[1], to[2], to[3]>> /\ to[1] \in Node /\ Used(to[1], to[2], to[3])'
    BY <1>10 DEF Timing
  <2>3. \A k \in Node : Running(k, tx[k], timers')
    <3> SUFFICES ASSUME NEW k \in Node, NEW tm \in timers', tm.kind = "retry", tm.node = k
                 PROVE  tm = Own(k, "retry", tm.slot) /\ tm.slot \in tx[k].active
      BY DEF Running
    <3>1. PICK old \in timers, own \in BOOLEAN : tm = [old EXCEPT !.own = own] /\ (old.kind = "retry" => (own <=> old.own))
      BY <1>1 DEF RxTimer, Own, Timer, OldTimer
    <3>2. old = Timer(old.node, old.kind, old.slot, old.own) /\ old.own \in BOOLEAN
      BY DEF Timing
    <3>3. tm = Timer(old.node, old.kind, old.slot, own)
      BY <3>1, <3>2 DEF Timer
    <3>4. old.kind = "retry" /\ old.node = k /\ old.slot = tm.slot
      BY <3>3 DEF Timer
    <3>5. old = Own(k, "retry", old.slot) /\ old.slot \in tx[k].active
      BY <3>4 DEF Timing, Running
    <3>6. own = TRUE
      BY <3>1, <3>4, <3>5 DEF Own, Timer
    <3> QED
      BY <3>3, <3>4, <3>5, <3>6 DEF Own
  <2>4. (\A k \in Node : Running(k, tx[k], timers)') /\ (posted # {} => StaleTimeouts)'
    BY <2>3 DEF Running, Own, Timer, Timing, StaleTimeouts
  <2> QED
    BY <2>1, <2>2, <2>4 DEF Timing, Timer
<1>12. Honest'
  BY <1>4, <1>5 DEF Honest
<1> QED
  BY <1>6, <1>7, <1>8, <1>9, <1>11, <1>12

\* A timeout is posted, or nothing happens.
LEMMA PostsInv ==
  ASSUME Inv, Posts
  PROVE  Inv'
<1>1. /\ UNCHANGED <<setting, tx, rx, air, outcome, got, fault>> /\ timers' \subseteq timers
      /\ \A to \in posted' \ posted :
           StaleTimeouts /\ \E tm \in timers : to = <<tm.node, tm.kind, tm.slot>>
  BY DEF Posts
<1>2. /\ Msg' = Msg /\ (\A m \in Msg : Seg(m)' = Seg(m) /\ Kept(m, got)' = Kept(m, got'))
      /\ TxState' = TxState /\ RxState' = RxState /\ OutcomeType' = OutcomeType /\ GotType' = GotType
  BY <1>1, ScriptPrimed
<1>3. Typed' /\ InAir' /\ Honest'
  BY <1>1, <1>2 DEF Inv, Typed, FaultType, InAir, SegmentPkt, AckPkt, Honest
<1>4. Sending'
  BY <1>1, TxPrimed DEF Inv, Sending, Up
<1>5. Receiving'
  BY <1>1, RxPrimed DEF Inv, Receiving
<1>6. \A n, kind, t : Used(n, kind, t) => Used(n, kind, t)'
  BY <1>1 DEF Used
<1>7. Timing'
  <2>1. \A n \in Node : Running(n, tx[n], timers)'
    BY <1>1 DEF Inv, Timing, Running, Own, Timer
  <2>2. (posted # {} => StaleTimeouts)'
    BY <1>1 DEF Inv, Timing, StaleTimeouts
  <2> QED
    BY <1>1, <1>6, <2>1, <2>2 DEF Inv, Timing, Timer
<1> QED
  BY <1>3, <1>4, <1>5, <1>7 DEF Inv

\* The handlers of the timers.
LEMMA HandleKind ==
  ASSUME Inv, setting' = setting, NEW n \in Node, Up(n), NEW kind, NEW t, Used(n, kind, t),
         kind = "retry" => t \in tx[n].active \/ StaleTimeouts,
         NEW running, running \subseteq timers, posted' \subseteq posted,
         Handle(n, kind, t, running)
  PROVE  Sends(n) \/ Receives(n)
<1>1. /\ setting \in Settings /\ tx \in [Node -> TxState] /\ rx \in [Node -> RxState]
      /\ fault \in FaultType /\ outcome \in OutcomeType /\ got \in GotType
      /\ TxInv(n, tx[n]) /\ Counted(tx[n]) /\ Full(tx[n]) /\ Waits(tx[n])
      /\ Running(n, tx[n], timers) /\ RxInv(n, rx[n]) /\ AllKept(rx[n], got)
  BY DEF Inv, Typed, Sending, Receiving, Timing
<1>2. \A tm \in running : OldTimer(tm)
  BY ParkedTimers DEF Inv
<1>3. CASE kind = "retry" /\ RetryTimeout(n, t)
  <2>1. t \in TxSlot /\ tx[n].task[t].msg # NONE
    BY <1>3 DEF Used
  <2>2. Again(n, tx[n], t) /\ rx' = rx /\ got' = got
    BY <1>3 DEF RetryTimeout
  <2>3. TxStep(n, {})
    BY <1>1, <1>3, <2>1, <2>2, RetryStep
  <2> QED
    BY <2>2, <2>3 DEF Sends
<1>4. CASE \/ kind = "ack" /\ AckTimeout(n, t, running)
           \/ kind = "incomplete" /\ IncompleteTimeout(n, t, running)
  <2>1. t \in RxSlot /\ rx[n].task[t].msg # NONE
    BY <1>4 DEF Used
  <2>2. RxStep(n)
    BY <1>1, <1>2, <1>4, <2>1, RxTimeoutStep
  <2>3. tx' = tx /\ outcome' = outcome
    BY <1>4 DEF AckTimeout, IncompleteTimeout
  <2>4. fault' = fault \/ fault' = [fault EXCEPT ![n] = "freed"]
    BY <1>4 DEF AckTimeout, IncompleteTimeout
  <2>5. fault' \in FaultType /\ \A k \in Node : fault'[k] = "none" => fault[k] = "none"
    BY <1>1, <2>4 DEF FaultType
  <2> QED
    BY <2>2, <2>3, <2>5 DEF Receives
<1> QED
  BY <1>3, <1>4 DEF Handle

\* Each action is a step of one transmitter, of one receiver, or a post.
LEMMA StepKinds ==
  ASSUME Inv, [Next]_vars
  PROVE  (\E n \in Node : Sends(n) \/ Receives(n)) \/ Posts
<1>1. /\ setting \in Settings /\ tx \in [Node -> TxState] /\ rx \in [Node -> RxState]
      /\ fault \in FaultType /\ outcome \in OutcomeType /\ got \in GotType
  BY DEF Inv, Typed
<1>2. ASSUME NEW n \in Node, NEW m \in Msg, Send(n, m)
      PROVE  Sends(n)
  <2>1. TxStep(n, {})
    BY <1>1, <1>2, SendStep DEF Inv, Sending, Timing
  <2> QED
    BY <1>2, <2>1 DEF Send, Sends
<1>3. ASSUME NEW n \in Node, NEW p \in air, RecvSegment(n, p)
      PROVE  Receives(n)
  <2>1. p.msg \in Msg /\ p.seg \in Seg(p.msg)
    BY <1>3 DEF Inv, InAir, RecvSegment, SegmentPkt, AckPkt
  <2>2. RxStep(n)
    BY <1>1, <1>3, <2>1, RecvSegmentStep, ParkedTimers DEF Inv, Receiving
  <2> QED
    BY <1>1, <1>3, <2>2 DEF RecvSegment, Receives
<1>4. ASSUME NEW n \in Node, NEW p \in air, RecvAck(n, p)
      PROVE  Sends(n)
  <2>1. p.msg \in Msg /\ p.bits \subseteq Seg(p.msg) /\ (p.bits = Seg(p.msg) => Kept(p.msg, got))
    BY <1>4 DEF Inv, InAir, RecvAck, SegmentPkt, AckPkt
  <2>2. p.bits \subseteq Segs
    BY <2>1 DEF Segs
  <2> DEFINE won == IF p.bits = Seg(p.msg) THEN {p.msg} ELSE {}
  <2>3. TxStep(n, won)
    BY <1>1, <1>4, <2>1, <2>2, RecvAckStep DEF Inv, Sending, Timing
  <2>4. \A m \in Msg : m \in won => Kept(m, got)
    BY <2>1
  <2> QED
    BY <1>4, <2>3, <2>4 DEF RecvAck, Sends
<1>5. ASSUME NEW tm \in timers, Expire(tm)
      PROVE  \E n \in Node : Sends(n) \/ Receives(n)
  <2>1. tm.node \in Node /\ Used(tm.node, tm.kind, tm.slot)
    BY DEF Inv, Timing
  <2>2. tm.kind = "retry" => tm.slot \in tx[tm.node].active
    BY <2>1 DEF Inv, Timing, Running
  <2> QED
    BY <1>5, <2>1, <2>2, HandleKind DEF Expire
<1>6. ASSUME NEW n, NEW kind, NEW t, <<n, kind, t>> \in posted, Timeout(n, kind, t)
      PROVE  \E k \in Node : Sends(k) \/ Receives(k)
  <2>1. n \in Node /\ Used(n, kind, t) /\ StaleTimeouts
    BY <1>6 DEF Inv, Timing
  <2>2. posted' \subseteq posted /\ Up(n) /\ setting' = setting /\ Handle(n, kind, t, timers)
    BY <1>6 DEF Timeout
  <2> QED
    BY <2>1, <2>2, HandleKind
<1>7. ASSUME NEW tm \in timers, Post(tm)
      PROVE  Posts
  BY <1>7 DEF Post, Posts
<1>8. CASE UNCHANGED vars
  BY <1>8 DEF vars, Posts
<1>9. CASE \E to \in posted : Timeout(to[1], to[2], to[3])
  BY <1>6, <1>9 DEF Timeout
<1> QED
  BY <1>2, <1>3, <1>4, <1>5, <1>7, <1>8, <1>9 DEF Next

\* The invariant is inductive ...
LEMMA NextInv == Inv /\ [Next]_vars => Inv'
BY StepKinds, SendsInv, ReceivesInv, PostsInv

-----------------------------------------------------------------------------
(* Theorems *)

\* ... and holds in every behaviour.
LEMMA SpecInv == Spec => []Inv
<1>1. Init => Inv
  BY InitInv
<1>2. Inv /\ [Next]_vars => Inv'
  BY NextInv
<1> QED
  BY <1>1, <1>2, PTL DEF Spec

\* Type correctness: every list holds tasks of its node, every timer and
\* every timeout is one of a task there is, and the packets in the air are
\* segments and acknowledgements of messages of the script.
THEOREM TypeCorrect == Spec => []TypeOK
<1>1. ASSUME Inv PROVE TypeOK
  <2>1. /\ setting \in Settings /\ tx \in [Node -> TxState] /\ rx \in [Node -> RxState]
        /\ outcome \in [Msg -> {"new", "refused", "waiting", "sending", "acked", "ended"}]
        /\ got \in [Msg -> SUBSET (0 .. MaxLen)] /\ fault \in [Node -> {"none", "assert", "null", "freed"}]
    BY <1>1 DEF Inv, Typed, OutcomeType, GotType, FaultType
  <2>2. \A m \in Msg : Seg(m) \subseteq Segs /\ 0 \in Seg(m)
    BY <2>1, ScriptTyped DEF Segs, Seg
  <2>3. air \subseteq [kind : {"segment", "ack"}, msg : Msg, seg : Segs, bits : SUBSET Segs]
    <3> SUFFICES ASSUME NEW p \in air
                 PROVE  p \in [kind : {"segment", "ack"}, msg : Msg, seg : Segs, bits : SUBSET Segs]
      OBVIOUS
    <3>1. \/ \E m \in Msg : \E i \in Seg(m) : p = SegmentPkt(m, i)
          \/ \E m \in Msg : \E bits \in SUBSET Seg(m) : p = AckPkt(m, bits)
      BY <1>1 DEF Inv, InAir
    <3>2. CASE \E m \in Msg : \E i \in Seg(m) : p = SegmentPkt(m, i)
      BY <2>2, <3>2 DEF SegmentPkt
    <3>3. CASE \E m \in Msg : \E bits \in SUBSET Seg(m) : p = AckPkt(m, bits)
      BY <2>2, <3>3 DEF AckPkt
    <3> QED
      BY <3>1, <3>2, <3>3
  <2>4. \A n, kind, t : Used(n, kind, t) => kind \in {"retry", "ack", "incomplete"} /\ t \in Slot(kind)
    BY DEF Used, Slot
  <2>5. /\ \A tm \in timers : \E n \in Node, kind \in {"retry", "ack", "incomplete"}, own \in BOOLEAN :
             \E t \in Slot(kind) : tm = Timer(n, kind, t, own)
        /\ \A to \in posted : \E n \in Node, kind \in {"retry", "ack", "incomplete"} :
             \E t \in Slot(kind) : to = <<n, kind, t>>
    BY <1>1, <2>4 DEF Inv, Timing
  <2> QED
    BY <2>1, <2>3, <2>5 DEF TypeOK
<1> QED
  BY <1>1, SpecInv, PTL

\* While a node is up each of its tasks is in one list, once: a timeout or an
\* acknowledgement that meets a task in another list than it expects moves the
\* task or leaves it, and never loses or doubles it.
THEOREM Conserved == Spec => []TasksConserved
<1>1. ASSUME Inv PROVE TasksConserved
  <2> SUFFICES ASSUME NEW n \in Node, Up(n)
               PROVE  /\ \A t \in TxSlot : InSeq(tx[n].idle, t) + InSeq(tx[n].pending, t) + OneIf(t \in tx[n].active) = 1
                      /\ \A t \in RxSlot : InSeq(rx[n].idle, t) + OneIf(t \in rx[n].active) = 1
    BY DEF TasksConserved
  <2>1. TxInv(n, tx[n]) /\ Full(tx[n]) /\ RxInv(n, rx[n])
    BY <1>1 DEF Inv, Sending, Receiving
  <2>2. ASSUME NEW t \in TxSlot
        PROVE  InSeq(tx[n].idle, t) + InSeq(tx[n].pending, t) + OneIf(t \in tx[n].active) = 1
    <3>1. /\ tx[n].idle \in Seq(TxSlot) /\ IsInjective(tx[n].idle)
          /\ tx[n].pending \in Seq(TxSlot) /\ IsInjective(tx[n].pending)
      BY <2>1 DEF TxInv, TxState
    <3>2. /\ InSeq(tx[n].idle, t) = OneIf(t \in ToSet(tx[n].idle))
          /\ InSeq(tx[n].pending, t) = OneIf(t \in ToSet(tx[n].pending))
      BY <3>1, InSeqIs DEF OneIf
    <3> QED
      BY <2>1, <3>2 DEF TxInv, Full, OneIf
  <2>3. ASSUME NEW t \in RxSlot
        PROVE  InSeq(rx[n].idle, t) + OneIf(t \in rx[n].active) = 1
    <3>1. rx[n].idle \in Seq(RxSlot) /\ IsInjective(rx[n].idle)
      BY <2>1 DEF RxInv, RxState
    <3>2. InSeq(rx[n].idle, t) = OneIf(t \in ToSet(rx[n].idle))
      BY <3>1, InSeqIs DEF OneIf
    <3> QED
      BY <2>1, <3>2 DEF RxInv, OneIf
  <2> QED
    BY <2>2, <2>3
<1> QED
  BY <1>1, SpecInv, PTL

\* A message that waits has one under way to its destination, whose end looks
\* for it: the search that ends a task finds every message it has set free.
THEOREM WaitBehind == Spec => []WaitsForSome
<1>1. ASSUME Inv PROVE WaitsForSome
  BY <1>1 DEF Inv, Sending, Waits, WaitsForSome, ToSet
<1> QED
  BY <1>1, SpecInv, PTL

\* A message the sender takes for received was delivered, unless a longer one
\* goes to its destination or the replay list may refuse it: an acknowledgement
\* of all segments leaves a receive task only when it has handed the message up,
\* also when the task is used again and the timers of its former use still run.
THEOREM AcksHonest == Spec => []AckHonest
<1>1. ASSUME Inv PROVE AckHonest
  BY <1>1 DEF Inv, Honest, Kept, AckHonest
<1> QED
  BY <1>1, SpecInv, PTL

\* Nothing is handed up in part: a message is delivered by a receive task that
\* is active for it and has all of its segments acknowledged, whatever the task
\* held before and whatever segments are repeated.
THEOREM DeliveredWhole == Spec => Complete
<1>1. ASSUME Inv, [Next]_vars
      PROVE  \A m \in Msg : got'[m] # got[m] =>
               \E t \in rx'[Script[m].dst].active :
                 rx'[Script[m].dst].task[t].msg = m /\ rx'[Script[m].dst].task[t].acked = Seg(m)
  <2>1. CASE \E n \in Node : Sends(n)
    BY <2>1 DEF Sends
  <2>2. CASE \E n \in Node : Receives(n)
    <3>1. PICK n \in Node : RxStep(n)
      BY <2>2 DEF Receives
    <3>2. PICK r : rx' = [rx EXCEPT ![n] = r] /\ (got' = got \/ Delivers(n, r))
      BY <3>1 DEF RxStep
    <3>3. rx'[n] = r /\ got \in GotType
      BY <1>1, <3>2 DEF Inv, Typed
    <3> QED
      BY <3>2, <3>3 DEF Delivers, GotType
  <2>3. CASE Posts
    BY <2>3 DEF Posts
  <2> QED
    BY <1>1, <2>1, <2>2, <2>3, StepKinds
<1> QED
  BY <1>1, SpecInv, PTL DEF Spec, Complete

\* No two messages are under way to one destination: what is sent or sent
\* again is of an active task, if no timeout is stale, and active tasks have
\* different destinations.
THEOREM Alone == Spec => OneAtATime
<1>1. ASSUME Inv, [Next]_vars,
             NEW p \in air' \ air, p.kind = "segment", ~StaleTimeouts,
             NEW t \in tx'[Script[p.msg].src].active,
             Dst(tx'[Script[p.msg].src], t) = Script[p.msg].dst
      PROVE  tx'[Script[p.msg].src].task[t].msg = p.msg
  <2>1. CASE \E n \in Node : Sends(n)
    <3>a. PICK n \in Node : Sends(n)
      BY <2>1
    <3>1. PICK won : TxStep(n, won)
      BY <3>a DEF Sends
    <3>2. PICK x \in TxState : tx' = [tx EXCEPT ![n] = x] /\ TxInv(n, x)
      BY <3>1 DEF TxStep
    <3>3. tx'[n] = x
      BY <1>1, <3>2 DEF Inv, Typed
    <3>4. PICK u \in x.active : x.task[u].msg = p.msg /\ p.msg \in Msg
      <4>1. Sent(n, p)
        BY <1>1, <3>1 DEF TxStep
      <4>2. PICK m \in Msg : \E i \in Seg(m) :
              p = SegmentPkt(m, i) /\ (StaleTimeouts \/ \E v \in tx'[n].active : tx'[n].task[v].msg = m)
        BY <4>1 DEF Sent
      <4>3. p.msg = m
        BY <4>2 DEF SegmentPkt
      <4> QED
        BY <1>1, <3>3, <4>2, <4>3
    <3>5. u \in TxSlot /\ p.msg # NONE
      BY <1>1, <3>2, <3>4, PendingSlots, ScriptTyped DEF Inv, Typed
    <3>6. Script[p.msg].src = n
      BY <3>2, <3>4, <3>5 DEF TxInv
    <3>7. Dst(x, t) = Dst(x, u)
      BY <1>1, <3>3, <3>4, <3>6 DEF Dst
    <3>8. t = u
      BY <1>1, <3>2, <3>3, <3>6, <3>7 DEF TxInv
    <3> QED
      BY <3>3, <3>4, <3>6, <3>8
  <2>2. CASE \E n \in Node : Receives(n)
    BY <1>1, <2>2 DEF Receives, RxStep, AckPkt
  <2>3. CASE Posts
    BY <1>1, <2>3 DEF Posts
  <2> QED
    BY <1>1, <2>1, <2>2, <2>3, StepKinds
<1>2. Inv /\ [Next]_vars =>
        \A p \in air' \ air : p.kind = "segment" /\ ~StaleTimeouts =>
          LET n == Script[p.msg].src IN
          \A t \in tx'[n].active : Dst(tx'[n], t) = Script[p.msg].dst => tx'[n].task[t].msg = p.msg
  BY <1>1
<1> QED
  BY <1>2, SpecInv, PTL DEF Spec, OneAtATime

-----------------------------------------------------------------------------
(* The promise.  As long as no timeout is stale and no timer fails, what is *)
(* said of a message is where its task is, a list of waiting tasks is in    *)
(* the order of their messages, and what is in the air has been begun.      *)

Known(n, x, out) ==
  /\ \A t \in x.active : out[x.task[t].msg] = "sending"
  /\ \A t \in ToSet(x.pending) : out[x.task[t].msg] = "waiting"
  /\ \A i, j \in DOMAIN x.pending : i < j => x.task[x.pending[i]].msg < x.task[x.pending[j]].msg
  /\ \A m \in Msg : Script[m].src = n =>
       /\ out[m] = "sending" => \E t \in x.active : x.task[t].msg = m
       /\ out[m] = "waiting" => \E t \in ToSet(x.pending) : x.task[t].msg = m

InOrder(out) == \A m, k \in Msg : out[m] = "new" /\ m < k => out[k] = "new"

Told ==
  Calm => /\ \A n \in Node : Known(n, tx[n], outcome)
          /\ InOrder(outcome)
          /\ \A p \in air : p.kind = "segment" => outcome[p.msg] \in {"sending", "acked", "ended"}

\* A message under way is of a task in use.
LEMMA InUse ==
  ASSUME Inv, NEW n \in Node, NEW t \in tx[n].active \cup ToSet(tx[n].pending)
  PROVE  /\ t \in TxSlot /\ tx[n].task[t].msg \in Msg /\ Script[tx[n].task[t].msg].src = n
         /\ Dst(tx[n], t) = Script[tx[n].task[t].msg].dst
<1>1. TxInv(n, tx[n]) /\ tx[n].task \in [TxSlot -> TxTask]
  BY DEF Inv, Typed, Sending, TxState
<1>2. t \in TxSlot
  BY <1>1, PendingSlots
<1> QED
  BY <1>1, <1>2 DEF TxInv, TxTask, Dst

\* A message that is the next to be handed over has no task.
LEMMA FreshIs ==
  ASSUME Inv, NEW n \in Node, Known(n, tx[n], outcome), InOrder(outcome), NEW m \in Msg, Fresh(n, m)
  PROVE  /\ \A t \in tx[n].active \cup ToSet(tx[n].pending) : tx[n].task[t].msg # m /\ tx[n].task[t].msg < m
         /\ \A k \in Msg : k < m => outcome[k] # "new"
         /\ \A k \in Msg : k > m => outcome[k] = "new"
<1>1. Msg = 1 .. Len(Script) /\ Len(Script) \in Nat
  BY ScriptTyped DEF Inv, Typed, Msg
<1>2. /\ \A k \in Msg : k < m => outcome[k] # "new"
      /\ \A k \in Msg : k > m => outcome[k] = "new"
  BY <1>1 DEF Fresh, InOrder
<1>3. ASSUME NEW t \in tx[n].active \cup ToSet(tx[n].pending)
      PROVE  tx[n].task[t].msg # m /\ tx[n].task[t].msg < m
  <2>1. tx[n].task[t].msg \in Msg /\ outcome[tx[n].task[t].msg] \in {"sending", "waiting"}
    BY InUse DEF Known
  <2> QED
    BY <1>1, <1>2, <2>1 DEF Fresh
<1> QED
  BY <1>2, <1>3

\* A message that gets a task.
LEMMA TakenKnown ==
  ASSUME Inv, NEW n \in Node, Known(n, tx[n], outcome), InOrder(outcome),
         NEW m \in Msg, NEW t \in TxSlot, NEW x \in TxState, Taken(n, x, m, t)
  PROVE  Known(n, x, outcome') /\ InOrder(outcome') /\ \A k \in Msg \ {m} : outcome'[k] = outcome[k]
<1> DEFINE a == tx[n]
<1>1. /\ Fresh(n, m) /\ t \notin a.active \cup ToSet(a.pending) /\ x.task[t].msg = m
      /\ \A u \in TxSlot \ {t} : x.task[u].msg = a.task[u].msg
      /\ outcome \in OutcomeType /\ Msg = 1 .. Len(Script) /\ Len(Script) \in Nat
  BY ScriptTyped DEF Taken, SameMessages, Inv, Typed, Msg
<1>2. /\ \A u \in a.active \cup ToSet(a.pending) :
           u # t /\ u \in TxSlot /\ x.task[u].msg = a.task[u].msg /\ a.task[u].msg \in Msg
           /\ a.task[u].msg # m /\ a.task[u].msg < m
      /\ \A k \in Msg : k < m => outcome[k] # "new"
      /\ \A k \in Msg : k > m => outcome[k] = "new"
  BY <1>1, InUse, FreshIs
<1>3. a.pending \in Seq(TxSlot) /\ IsInjective(a.pending)
  BY DEF Inv, Sending, TxInv, TxState
<1>4. /\ outcome'[m] \in {"waiting", "sending"} /\ \A k \in Msg \ {m} : outcome'[k] = outcome[k]
      /\ outcome[m] = "new" /\ Script[m].src = n
  BY <1>1 DEF Taken, OutcomeType, Fresh
<1>5. InOrder(outcome')
  BY <1>1, <1>2, <1>4 DEF InOrder
<1>6. CASE /\ x.active = a.active /\ x.pending = Append(a.pending, t)
           /\ outcome' = [outcome EXCEPT ![m] = "waiting"]
  <2> DEFINE q == x.pending
             l == Len(a.pending)
  <2>1. /\ ToSet(q) = ToSet(a.pending) \cup {t} /\ DOMAIN q = 1 .. l + 1
        /\ \A j \in 1 .. l + 1 : q[j] = IF j <= l THEN a.pending[j] ELSE t
    BY <1>1, <1>3, <1>6, AppendNew
  <2>2. l \in Nat /\ DOMAIN a.pending = 1 .. l /\ \A j \in 1 .. l : a.pending[j] \in ToSet(a.pending)
    BY <1>3 DEF ToSet
  <2>3. outcome'[m] = "waiting"
    BY <1>1, <1>6 DEF OutcomeType
  <2>4. \A u \in x.active : outcome'[x.task[u].msg] = "sending"
    BY <1>2, <1>4, <1>6 DEF Known
  <2>5. \A u \in ToSet(q) : outcome'[x.task[u].msg] = "waiting"
    BY <1>1, <1>2, <1>4, <2>1, <2>3 DEF Known
  <2>6. \A i, j \in DOMAIN q : i < j => x.task[q[i]].msg < x.task[q[j]].msg
    <3> SUFFICES ASSUME NEW i \in 1 .. l + 1, NEW j \in 1 .. l + 1, i < j
                 PROVE  x.task[q[i]].msg < x.task[q[j]].msg
      BY <2>1
    <3>1. i \in 1 .. l /\ q[i] = a.pending[i] /\ q[i] \in ToSet(a.pending)
      BY <2>1, <2>2
    <3>2. CASE j = l + 1
      <4>1. q[j] = t
        BY <2>1, <2>2, <3>2
      <4>2. x.task[q[i]].msg < m
        BY <1>2, <3>1
      <4> QED
        BY <1>1, <4>1, <4>2
    <3>3. CASE j # l + 1
      <4>1. j \in 1 .. l
        BY <2>1, <3>3
      <4>2. q[j] = a.pending[j] /\ q[j] \in ToSet(a.pending)
        BY <2>1, <2>2, <4>1
      <4>3. a.task[a.pending[i]].msg < a.task[a.pending[j]].msg
        BY <2>2, <3>1, <4>1 DEF Known
      <4> QED
        BY <1>2, <3>1, <4>2, <4>3
    <3> QED
      BY <3>2, <3>3
  <2>7. \A k \in Msg : Script[k].src = n =>
          /\ outcome'[k] = "sending" => \E u \in x.active : x.task[u].msg = k
          /\ outcome'[k] = "waiting" => \E u \in ToSet(q) : x.task[u].msg = k
    BY <1>1, <1>2, <1>4, <1>6, <2>1, <2>3 DEF Known
  <2> QED
    BY <1>4, <1>5, <2>4, <2>5, <2>6, <2>7 DEF Known
<1>7. CASE /\ x.active = a.active \cup {t} /\ x.pending = a.pending
           /\ outcome' = [outcome EXCEPT ![m] = "sending"]
  <2>1. outcome'[m] = "sending"
    BY <1>1, <1>7 DEF OutcomeType
  <2>2. \A u \in x.active : outcome'[x.task[u].msg] = "sending"
    BY <1>1, <1>2, <1>4, <1>7, <2>1 DEF Known
  <2>3. \A u \in ToSet(x.pending) : outcome'[x.task[u].msg] = "waiting"
    BY <1>2, <1>4, <1>7 DEF Known
  <2>4. \A i, j \in DOMAIN x.pending : i < j => x.task[x.pending[i]].msg < x.task[x.pending[j]].msg
    BY <1>2, <1>7 DEF Known, ToSet
  <2>5. \A k \in Msg : Script[k].src = n =>
          /\ outcome'[k] = "sending" => \E u \in x.active : x.task[u].msg = k
          /\ outcome'[k] = "waiting" => \E u \in ToSet(x.pending) : x.task[u].msg = k
    BY <1>1, <1>2, <1>4, <1>7, <2>1 DEF Known
  <2> QED
    BY <1>4, <1>5, <2>2, <2>3, <2>4, <2>5 DEF Known
<1> QED
  BY <1>6, <1>7 DEF Taken

\* What the end of message m of task t makes of the tasks and the outcomes, if
\* nothing waits for its destination, or the i-th task that waits does.
NoneFollows(n, x, t, how, m) ==
  /\ Waiting(n, t) = {} /\ x.active = tx[n].active \ {t} /\ x.pending = tx[n].pending
  /\ \A k \in Msg : outcome'[k] = IF k = m THEN how ELSE outcome[k]
OneFollows(n, x, t, how, m, i) ==
  LET v == tx[n].pending[i]
      w == tx[n].task[v].msg IN
  /\ \A j \in Waiting(n, t) : i <= j
  /\ x.active = (tx[n].active \ {t}) \cup {v} /\ x.pending = RemoveFirst(tx[n].pending, v)
  /\ w \in Msg /\ w # m /\ outcome[w] = "waiting" /\ Script[w].src = n /\ Script[w].dst = Script[m].dst
  /\ \A k \in Msg : outcome'[k] = IF k = m THEN how ELSE IF k = w THEN "sending" ELSE outcome[k]

\* The end of a message is one of the two.
LEMMA EndedIs ==
  ASSUME Inv, NEW n \in Node, Known(n, tx[n], outcome), NEW t \in tx[n].active,
         NEW how \in {"acked", "ended"}, NEW x, Ended(n, x, t, how), NEW m, m = tx[n].task[t].msg
  PROVE  /\ m \in Msg /\ Script[m].src = n /\ outcome[m] = "sending"
         /\ NoneFollows(n, x, t, how, m) \/ \E i \in Waiting(n, t) : OneFollows(n, x, t, how, m, i)
<1>1. /\ m \in Msg /\ Script[m].src = n /\ outcome[m] = "sending" /\ Dst(tx[n], t) = Script[m].dst
      /\ outcome \in OutcomeType
  BY InUse DEF Known, Inv, Typed
<1>2. Over(m, how) = [outcome EXCEPT ![m] = how]
  BY <1>1 DEF Over
<1>3. CASE /\ Waiting(n, t) = {} /\ x.active = tx[n].active \ {t} /\ x.pending = tx[n].pending
           /\ outcome' = Over(m, how)
  BY <1>1, <1>2, <1>3 DEF OutcomeType, NoneFollows
<1>4. CASE \E i \in Waiting(n, t) : Follows(n, x, t, i, Over(m, how))
  <2>1. PICK i \in Waiting(n, t) : Follows(n, x, t, i, Over(m, how))
    BY <1>4
  <2> DEFINE v == tx[n].pending[i]
             w == tx[n].task[v].msg
  <2>2. v \in ToSet(tx[n].pending) /\ Dst(tx[n], v) = Dst(tx[n], t)
    BY DEF Waiting, ToSet
  <2>a. w \in Msg /\ Script[w].src = n /\ Dst(tx[n], v) = Script[w].dst
    BY <2>2, InUse DEF Dst
  <2>b. outcome[w] = "waiting"
    BY <2>2 DEF Known
  <2>3. w \in Msg /\ Script[w].src = n /\ Script[w].dst = Script[m].dst /\ outcome[w] = "waiting" /\ w # m
    BY <1>1, <2>2, <2>a, <2>b
  <2>4. \A k \in Msg : outcome'[k] = IF k = m THEN how ELSE IF k = w THEN "sending" ELSE outcome[k]
    BY <1>1, <1>2, <2>1, <2>3 DEF Follows, OutcomeType
  <2> QED
    BY <1>1, <2>1, <2>3, <2>4 DEF Follows, OneFollows
<1> QED
  BY <1>3, <1>4, <1>1 DEF Ended

\* A message that ends, and the one that is started for it.
LEMMA EndedKnown ==
  ASSUME Inv, NEW n \in Node, Known(n, tx[n], outcome), InOrder(outcome), NEW t \in tx[n].active,
         NEW how \in {"acked", "ended"}, NEW x \in TxState, Ended(n, x, t, how)
  PROVE  /\ Known(n, x, outcome') /\ InOrder(outcome')
         /\ \A k \in Msg : Script[k].src # n => outcome'[k] = outcome[k]
         /\ \A k \in Msg : outcome[k] \in {"sending", "acked", "ended"} => outcome'[k] \in {"sending", "acked", "ended"}
<1> DEFINE a == tx[n]
           m == a.task[t].msg
<1>1. /\ \A u \in a.active \cup ToSet(a.pending) :
           u \in TxSlot /\ x.task[u].msg = a.task[u].msg /\ a.task[u].msg \in Msg
      /\ \A u \in a.active : u # t => a.task[u].msg # m
  <2>1. SameMessages(n, x, TxSlot) /\ TxInv(n, a)
    BY DEF Ended, Inv, Sending
  <2>2. \A u \in a.active : a.task[u].msg = m => Dst(a, u) = Dst(a, t)
    BY DEF Dst
  <2> QED
    BY <2>1, <2>2, InUse DEF SameMessages, TxInv
<1>2. a.pending \in Seq(TxSlot) /\ IsInjective(a.pending)
  BY DEF Inv, Sending, TxInv, TxState
<1>3. Msg \subseteq Nat
  BY ScriptTyped DEF Inv, Typed
<1>4. m \in Msg /\ Script[m].src = n /\ outcome[m] = "sending"
  BY EndedIs
<1>7. NoneFollows(n, x, t, how, m) \/ \E i \in Waiting(n, t) : OneFollows(n, x, t, how, m, i)
  BY EndedIs
<1> HIDE DEF m
<1>5. CASE NoneFollows(n, x, t, how, m)
  <2>0. /\ x.active = a.active \ {t} /\ x.pending = a.pending
        /\ \A k \in Msg : outcome'[k] = IF k = m THEN how ELSE outcome[k]
    BY <1>5 DEF NoneFollows
  <2>1. \A u \in x.active : outcome'[x.task[u].msg] = "sending"
    BY <1>1, <2>0 DEF Known
  <2>2. \A u \in ToSet(x.pending) : outcome'[x.task[u].msg] = "waiting"
    BY <1>1, <1>4, <2>0 DEF Known
  <2>3. \A i, j \in DOMAIN x.pending : i < j => x.task[x.pending[i]].msg < x.task[x.pending[j]].msg
    BY <1>1, <2>0 DEF Known, ToSet
  <2>4. \A k \in Msg : Script[k].src = n =>
          /\ outcome'[k] = "sending" => \E u \in x.active : x.task[u].msg = k
          /\ outcome'[k] = "waiting" => \E u \in ToSet(x.pending) : x.task[u].msg = k
    <3> SUFFICES ASSUME NEW k \in Msg, Script[k].src = n
                 PROVE  /\ outcome'[k] = "sending" => \E u \in x.active : x.task[u].msg = k
                        /\ outcome'[k] = "waiting" => \E u \in ToSet(x.pending) : x.task[u].msg = k
      OBVIOUS
    <3>1. CASE k = m
      BY <2>0, <3>1
    <3>2. CASE k # m
      BY <1>1, <2>0, <3>2 DEF Known, m
    <3> QED
      BY <3>1, <3>2
  <2>5. InOrder(outcome')
    BY <1>4, <2>0 DEF InOrder
  <2> QED
    BY <1>4, <2>0, <2>1, <2>2, <2>3, <2>4, <2>5 DEF Known
<1>6. CASE \E i \in Waiting(n, t) : OneFollows(n, x, t, how, m, i)
  <2>1. PICK i \in Waiting(n, t) : OneFollows(n, x, t, how, m, i)
    BY <1>6
  <2> DEFINE v == a.pending[i]
             w == a.task[v].msg
             r == x.pending
  <2>2. /\ x.active = (a.active \ {t}) \cup {v} /\ r = RemoveFirst(a.pending, v)
        /\ w \in Msg /\ w # m /\ outcome[w] = "waiting" /\ Script[w].src = n
        /\ \A k \in Msg : outcome'[k] = IF k = m THEN how ELSE IF k = w THEN "sending" ELSE outcome[k]
    BY <2>1 DEF OneFollows
  <2>3. i \in DOMAIN a.pending /\ v \in ToSet(a.pending) /\ v \in TxSlot
    BY <1>1 DEF Waiting, ToSet
  <2>4. /\ ToSet(r) = ToSet(a.pending) \ {v}
        /\ \A c, d \in DOMAIN r : c < d => \E k, l \in DOMAIN a.pending : k < l /\ r[c] = a.pending[k] /\ r[d] = a.pending[l]
    <3>1. r = RemoveFirst(a.pending, v)
      BY <2>2
    <3> HIDE DEF v, r
    <3> QED
      BY <1>2, <3>1, RemoveFirstList
  <2>5. \A u \in ToSet(a.pending) : u # v => a.task[u].msg # w
    <3> SUFFICES ASSUME NEW j \in DOMAIN a.pending, a.pending[j] # v
                 PROVE  a.task[a.pending[j]].msg # w
      BY DEF ToSet
    <3>1. i \in Nat /\ j \in Nat /\ i # j
      BY <1>2, <2>3
    <3>2. a.task[a.pending[j]].msg \in Msg
      BY <1>1 DEF ToSet
    <3>3. i < j \/ j < i
      BY <3>1
    <3> DEFINE c == a.task[a.pending[j]].msg
    <3>4. (i < j => w < c) /\ (j < i => c < w)
      BY <2>3 DEF Known
    <3>5. c \in Nat /\ w \in Nat
      BY <1>3, <2>2, <3>2
    <3> HIDE DEF c, w
    <3>6. c # w
      BY <3>3, <3>4, <3>5
    <3> QED
      BY <3>6 DEF c
  <2>6. x.task[v].msg = w
    BY <1>1, <2>3
  <2> HIDE DEF v, w, r
  <2>7. \A u \in x.active : outcome'[x.task[u].msg] = "sending"
    <3> SUFFICES ASSUME NEW u \in x.active, u # v PROVE outcome'[x.task[u].msg] = "sending"
      BY <2>2, <2>6
    <3>1. u \in a.active /\ u # t
      BY <2>2
    <3> QED
      BY <1>1, <2>2, <3>1 DEF Known
  <2>8. \A u \in ToSet(r) : outcome'[x.task[u].msg] = "waiting"
    BY <1>1, <1>4, <2>2, <2>4, <2>5 DEF Known
  <2>9. \A c, d \in DOMAIN r : c < d => x.task[r[c]].msg < x.task[r[d]].msg
    <3>1. \A k \in DOMAIN a.pending : x.task[a.pending[k]].msg = a.task[a.pending[k]].msg
      BY <1>1 DEF ToSet
    <3> QED
      BY <2>4, <3>1 DEF Known
  <2>10. \A k \in Msg : Script[k].src = n =>
          /\ outcome'[k] = "sending" => \E u \in x.active : x.task[u].msg = k
          /\ outcome'[k] = "waiting" => \E u \in ToSet(r) : x.task[u].msg = k
    <3> SUFFICES ASSUME NEW k \in Msg, Script[k].src = n
                 PROVE  /\ outcome'[k] = "sending" => \E u \in x.active : x.task[u].msg = k
                        /\ outcome'[k] = "waiting" => \E u \in ToSet(r) : x.task[u].msg = k
      OBVIOUS
    <3>1. CASE k = m
      BY <2>2, <3>1
    <3>2. CASE k = w
      BY <2>2, <2>6, <3>2
    <3>3. CASE k # m /\ k # w
      BY <1>1, <2>2, <2>3, <2>4, <3>3 DEF Known, m, w
    <3> QED
      BY <3>1, <3>2, <3>3
  <2>11. InOrder(outcome')
    BY <1>4, <2>2 DEF InOrder
  <2>12. Known(n, x, outcome')
    <3>1. r = x.pending
      BY DEF r
    <3> QED
      BY <2>7, <2>8, <2>9, <2>10, <3>1 DEF Known
  <2>13. \A k \in Msg : outcome[k] \in {"sending", "acked", "ended"} => outcome'[k] \in {"sending", "acked", "ended"}
    BY <2>2
  <2>14. \A k \in Msg : Script[k].src # n => outcome'[k] = outcome[k]
    BY <1>4, <2>2
  <2> QED
    BY <2>11, <2>12, <2>13, <2>14
<1> QED
  BY <1>5, <1>6, <1>7

\* What a node knows of its messages stays true.
LEMMA MovedKnown ==
  ASSUME Inv, NEW n \in Node, Known(n, tx[n], outcome), InOrder(outcome),
         NEW x \in TxState, NEW won, Moved(n, x, won)
  PROVE  /\ Known(n, x, outcome') /\ InOrder(outcome')
         /\ \A k \in Msg : Script[k].src # n => outcome'[k] = outcome[k]
         /\ \A k \in Msg : outcome[k] \in {"sending", "acked", "ended"} => outcome'[k] \in {"sending", "acked", "ended"}
<1>1. outcome \in OutcomeType
  BY DEF Inv, Typed
<1>2. ASSUME x.active = tx[n].active, x.pending = tx[n].pending, SameMessages(n, x, TxSlot)
      PROVE  /\ Known(n, x, outcome)
             /\ \A u \in x.active \cup ToSet(x.pending) : x.task[u].msg = tx[n].task[u].msg
  <2>1. \A u \in x.active \cup ToSet(x.pending) : x.task[u].msg = tx[n].task[u].msg
    BY <1>2, InUse DEF SameMessages
  <2>2. \A i \in DOMAIN x.pending : x.pending[i] \in ToSet(x.pending)
    BY DEF ToSet
  <2> QED
    BY <1>2, <2>1, <2>2 DEF Known
<1>3. CASE /\ x.active = tx[n].active /\ x.pending = tx[n].pending /\ SameMessages(n, x, TxSlot)
           /\ outcome' = outcome \/ \E m \in Msg : Fresh(n, m) /\ outcome' = [outcome EXCEPT ![m] = "refused"]
  <2>1. CASE outcome' = outcome
    BY <1>2, <1>3, <2>1
  <2>2. ASSUME NEW m \in Msg, Fresh(n, m), outcome' = [outcome EXCEPT ![m] = "refused"]
        PROVE  /\ Known(n, x, outcome') /\ InOrder(outcome')
               /\ \A k \in Msg : Script[k].src # n => outcome'[k] = outcome[k]
               /\ \A k \in Msg : outcome[k] \in {"sending", "acked", "ended"} => outcome'[k] \in {"sending", "acked", "ended"}
    <3>1. /\ \A u \in tx[n].active \cup ToSet(tx[n].pending) : tx[n].task[u].msg # m /\ tx[n].task[u].msg \in Msg
          /\ \A k \in Msg : k < m => outcome[k] # "new"
      BY <2>2, FreshIs, InUse
    <3>2. /\ outcome'[m] = "refused" /\ \A k \in Msg \ {m} : outcome'[k] = outcome[k]
          /\ outcome[m] = "new" /\ Script[m].src = n
      BY <1>1, <2>2 DEF OutcomeType, Fresh
    <3>3. InOrder(outcome')
      BY <3>1, <3>2 DEF InOrder
    <3>4. Known(n, x, outcome')
      BY <1>2, <1>3, <3>1, <3>2 DEF Known
    <3> QED
      BY <3>2, <3>3, <3>4
  <2> QED
    BY <1>3, <2>1, <2>2
<1>4. ASSUME NEW m \in Msg, NEW t \in TxSlot, Taken(n, x, m, t)
      PROVE  /\ Known(n, x, outcome') /\ InOrder(outcome')
             /\ \A k \in Msg : Script[k].src # n => outcome'[k] = outcome[k]
             /\ \A k \in Msg : outcome[k] \in {"sending", "acked", "ended"} => outcome'[k] \in {"sending", "acked", "ended"}
  BY <1>4, TakenKnown, ZenonT(30) DEF Taken, Fresh
<1>5. ASSUME NEW t \in tx[n].active, NEW how \in {"acked", "ended"}, Ended(n, x, t, how)
      PROVE  /\ Known(n, x, outcome') /\ InOrder(outcome')
             /\ \A k \in Msg : Script[k].src # n => outcome'[k] = outcome[k]
             /\ \A k \in Msg : outcome[k] \in {"sending", "acked", "ended"} => outcome'[k] \in {"sending", "acked", "ended"}
  BY <1>5, EndedKnown
<1> QED
  BY <1>3, <1>4, <1>5 DEF Moved

LEMMA ToldInit == Init => Told
<1> SUFFICES ASSUME Init PROVE Told
  OBVIOUS
<1>1. /\ \A n \in Node : tx[n].active = {} /\ tx[n].pending = <<>>
      /\ outcome = [m \in Msg |-> "new"] /\ air = {}
  BY DEF Init
<1> QED
  BY <1>1 DEF Told, Known, InOrder, ToSet

\* Told is preserved, given Inv.
LEMMA ToldNext ==
  ASSUME Inv, Told, [Next]_vars
  PROVE  Told'
<1> SUFFICES ASSUME Calm'
             PROVE  (/\ \A n \in Node : Known(n, tx[n], outcome)
                     /\ InOrder(outcome)
                     /\ \A p \in air : p.kind = "segment" => outcome[p.msg] \in {"sending", "acked", "ended"})'
  BY DEF Told
<1>1. setting' = setting
  BY StepKinds DEF Sends, Receives, Posts
<1>2. /\ Msg' = Msg /\ Script' = Script /\ Calm
  BY <1>1, ScriptPrimed DEF Script, Calm, StaleTimeouts, TimerFails
<1>3. /\ \A n \in Node : Known(n, tx[n], outcome)
      /\ InOrder(outcome)
      /\ \A p \in air : p.kind = "segment" => outcome[p.msg] \in {"sending", "acked", "ended"}
  BY <1>2 DEF Told
<1>4. SUFFICES /\ \A n \in Node : Known(n, tx'[n], outcome')
               /\ InOrder(outcome')
               /\ \A p \in air' : p.kind = "segment" => outcome'[p.msg] \in {"sending", "acked", "ended"}
  BY <1>2 DEF Known, InOrder
<1>5. \A p \in air : p.kind = "segment" => p.msg \in Msg
  BY DEF Inv, InAir, SegmentPkt, AckPkt
<1>6. ASSUME NEW n \in Node, Sends(n)
      PROVE  /\ \A k \in Node : Known(k, tx'[k], outcome')
             /\ InOrder(outcome')
             /\ \A p \in air' : p.kind = "segment" => outcome'[p.msg] \in {"sending", "acked", "ended"}
  <2>1. PICK won : TxStep(n, won)
    BY <1>6 DEF Sends
  <2>2. PICK x \in TxState : tx' = [tx EXCEPT ![n] = x] /\ TxInv(n, x) /\ Moved(n, x, won)
    BY <1>2, <2>1 DEF TxStep
  <2>3. tx'[n] = x /\ \A k \in Node \ {n} : tx'[k] = tx[k]
    BY <2>2 DEF Inv, Typed
  <2>4. /\ Known(n, x, outcome') /\ InOrder(outcome')
        /\ \A k \in Msg : Script[k].src # n => outcome'[k] = outcome[k]
        /\ \A k \in Msg : outcome[k] \in {"sending", "acked", "ended"} => outcome'[k] \in {"sending", "acked", "ended"}
    BY <1>3, <2>2, MovedKnown
  <2>5. ASSUME NEW k \in Node, k # n
        PROVE  Known(k, tx[k], outcome')
    <3>1. \A t \in tx[k].active \cup ToSet(tx[k].pending) : outcome'[tx[k].task[t].msg] = outcome[tx[k].task[t].msg]
      BY <2>4, <2>5, InUse
    <3> QED
      BY <1>3, <2>4, <2>5, <3>1 DEF Known
  <2>6. ASSUME NEW p \in air', p.kind = "segment"
        PROVE  outcome'[p.msg] \in {"sending", "acked", "ended"}
    <3>1. CASE p \in air
      BY <1>3, <1>5, <2>4, <2>6, <3>1
    <3>2. CASE p \notin air
      <4>1. Sent(n, p)
        BY <2>1, <3>2 DEF TxStep
      <4>2. PICK m \in Msg : \E i \in Seg(m) :
              p = SegmentPkt(m, i) /\ (StaleTimeouts \/ \E v \in tx'[n].active : tx'[n].task[v].msg = m)
        BY <4>1 DEF Sent
      <4>3. p.msg = m
        BY <4>2 DEF SegmentPkt
      <4>4. \E v \in x.active : x.task[v].msg = m
        BY <1>2, <2>3, <4>2 DEF Calm
      <4> QED
        BY <2>4, <4>3, <4>4 DEF Known
    <3> QED
      BY <3>1, <3>2
  <2> QED
    BY <2>3, <2>4, <2>5, <2>6
<1>7. ASSUME NEW n \in Node, Receives(n)
      PROVE  /\ \A k \in Node : Known(k, tx'[k], outcome')
             /\ InOrder(outcome')
             /\ \A p \in air' : p.kind = "segment" => outcome'[p.msg] \in {"sending", "acked", "ended"}
  <2>1. tx' = tx /\ outcome' = outcome
    BY <1>7 DEF Receives
  <2>2. \A p \in air' \ air : p.kind = "ack"
    BY <1>7 DEF Receives, RxStep, AckPkt
  <2> QED
    BY <1>3, <2>1, <2>2
<1>8. ASSUME Posts
      PROVE  /\ \A k \in Node : Known(k, tx'[k], outcome')
             /\ InOrder(outcome')
             /\ \A p \in air' : p.kind = "segment" => outcome'[p.msg] \in {"sending", "acked", "ended"}
  BY <1>3, <1>8 DEF Posts
<1> QED
  BY <1>6, <1>7, <1>8, StepKinds

\* The steps of the promise, as steps of the code.
LEMMA PromisedIs ==
  ASSUME Promised # {}
  PROVE  Promised = Msg /\ Calm /\ ~RplRejects /\ \A m \in Msg : ~Shrinks(m)
BY DEF Promised, Calm

LEMMA RivalsIs ==
  ASSUME Promised = Msg, NEW m \in Msg
  PROVE  /\ Promise!Msg = Msg
         /\ Promise!Rivals(m) = {k \in Msg \ {m} : Script[k].src = Script[m].src /\ Script[k].dst = Script[m].dst}
BY DEF Promise!Msg, Promise!Rivals

LEMMA PromiseTake ==
  ASSUME Promised = Msg, Promised' = Promised, outcome \in OutcomeType,
         NEW m \in Msg, outcome[m] = "new", NEW how, outcome' = [outcome EXCEPT ![m] = how], got' = got
  PROVE  Promise!Take(m, how)
BY DEF Promise!Take, OutcomeType

\* A message that gets a task is one the promise takes.
LEMMA TakenPromise ==
  ASSUME Inv, Promised = Msg, Promised' = Promised,
         NEW n \in Node, Waits(tx[n]), Known(n, tx[n], outcome), InOrder(outcome),
         NEW m \in Msg, NEW t, NEW x, Taken(n, x, m, t), got' = got
  PROVE  Promise!Wait(m) \/ Promise!Begin(m)
<1>1. /\ Fresh(n, m) /\ Script[m].src = n /\ outcome[m] = "new" /\ outcome \in OutcomeType
      /\ \A u \in tx[n].active \cup ToSet(tx[n].pending) : tx[n].task[u].msg # m
  BY FreshIs DEF Taken, Fresh, Inv, Typed
<1>2. \A k \in Msg : k \in Promise!Rivals(m) <=> k # m /\ Script[k].src = n /\ Script[k].dst = Script[m].dst
  BY <1>1, RivalsIs
<1>3. Promise!Rivals(m) \subseteq Msg
  BY RivalsIs
<1>4. CASE /\ \E u \in tx[n].active : Dst(tx[n], u) = Script[m].dst
           /\ outcome' = [outcome EXCEPT ![m] = "waiting"]
  <2>1. PICK u \in tx[n].active : Dst(tx[n], u) = Script[m].dst
    BY <1>4
  <2>2. tx[n].task[u].msg \in Promise!Rivals(m) /\ outcome[tx[n].task[u].msg] = "sending"
    BY <1>1, <1>2, <2>1, InUse DEF Known
  <2>3. ~Promise!Free(m)
    BY <1>3, <2>2 DEF Promise!Free
  <2> QED
    BY <1>1, <1>4, <2>3, PromiseTake DEF Promise!Wait
<1>5. CASE /\ \A u \in tx[n].active : Dst(tx[n], u) # Script[m].dst
           /\ outcome' = [outcome EXCEPT ![m] = "sending"]
  <2>1. ASSUME NEW k \in Promise!Rivals(m)
        PROVE  outcome[k] # "sending" /\ outcome[k] # "waiting"
    <3>1. k \in Msg /\ Script[k].src = n /\ Script[k].dst = Script[m].dst
      BY <1>2, <1>3
    <3>2. ASSUME outcome[k] = "sending" PROVE FALSE
      <4>1. PICK u \in tx[n].active : tx[n].task[u].msg = k
        BY <3>1, <3>2 DEF Known
      <4> QED
        BY <1>5, <3>1, <4>1, InUse
    <3>3. ASSUME outcome[k] = "waiting" PROVE FALSE
      <4>1. PICK u \in ToSet(tx[n].pending) : tx[n].task[u].msg = k
        BY <3>1, <3>3 DEF Known
      <4>2. PICK v \in tx[n].active : Dst(tx[n], v) = Dst(tx[n], u)
        BY DEF Waits, Blocked
      <4> QED
        BY <1>5, <3>1, <4>1, <4>2, InUse
    <3> QED
      BY <3>2, <3>3
  <2>2. Promise!Free(m) /\ \A k \in Promise!Rivals(m) : [j \in Promised |-> outcome[j]][k] # "waiting"
    BY <1>3, <2>1 DEF Promise!Free
  <2> QED
    BY <1>1, <1>5, <2>2, PromiseTake DEF Promise!Begin
<1> QED
  BY <1>4, <1>5 DEF Taken

\* The first message that waits for the destination of m is the one the code
\* takes, which searches its list from the front.
LEMMA EndedPromise ==
  ASSUME Inv, Promised = Msg, Promised' = Promised,
         NEW n \in Node, Known(n, tx[n], outcome),
         NEW t \in tx[n].active, NEW how \in {"acked", "ended"}, NEW x, Ended(n, x, t, how), got' = got,
         how = "acked" => got[tx[n].task[t].msg] # {}
  PROVE  \E m \in Msg : Promise!End(m, how)
<1> DEFINE a == tx[n]
           m == a.task[t].msg
           O == [k \in Promised |-> outcome[k]]
           N == {k \in Promise!Rivals(m) : Promise!First(k)}
<1>1. /\ m \in Msg /\ Script[m].src = n /\ outcome[m] = "sending"
      /\ Dst(a, t) = Script[m].dst /\ outcome \in OutcomeType
  BY EndedIs, InUse DEF Inv, Typed
<1>2. \A k \in Msg : k \in Promise!Rivals(m) <=> k # m /\ Script[k].src = n /\ Script[k].dst = Script[m].dst
  BY <1>1, RivalsIs
<1>3. Promise!Rivals(m) \subseteq Msg /\ \A k \in Msg : Promise!Rivals(k) \subseteq Msg
  BY <1>1, RivalsIs
<1>4. /\ \A k \in Promise!Rivals(m) : Promise!First(k) => outcome[k] = "waiting"
      /\ \A k \in Promise!Rivals(m) : \A l \in Promise!Rivals(k) : Promise!First(k) /\ outcome[l] = "waiting" => k < l
  BY <1>3 DEF Promise!First
<1>5. ASSUME NEW k \in Promise!Rivals(m), outcome[k] = "waiting"
      PROVE  \E j \in Waiting(n, t) : a.task[a.pending[j]].msg = k
  <2>1. k \in Msg /\ Script[k].src = n /\ Script[k].dst = Script[m].dst
    BY <1>2, <1>3
  <2>2. PICK u \in ToSet(a.pending) : a.task[u].msg = k
    BY <1>5, <2>1 DEF Known
  <2>3. Dst(a, u) = Dst(a, t)
    BY <1>1, <2>1, <2>2, InUse, SMTT(20)
  <2>4. PICK j \in DOMAIN a.pending : a.pending[j] = u
    BY DEF ToSet
  <2> QED
    BY <2>2, <2>3, <2>4 DEF Waiting
<1>6. O[m] = "sending" /\ (how = "acked" => m \in {k \in Promised : got[k] # {}})
  BY <1>1
<1>11. NoneFollows(n, x, t, how, m) \/ \E i \in Waiting(n, t) : OneFollows(n, x, t, how, m, i)
  BY EndedIs
<1> HIDE DEF m, N
<1>7. ASSUME [k \in Promised |-> outcome[k]]' = [k \in Promise!Msg |-> IF k = m THEN how ELSE IF k \in N THEN "sending" ELSE O[k]]
      PROVE  Promise!End(m, how)
  <2>1. {k \in Promised : got[k] # {}}' = {k \in Promised : got[k] # {}}
    OBVIOUS
  <2> QED
    BY <1>6, <1>7, <2>1 DEF Promise!End, N
<1>8. Promise!Msg = Msg
  BY <1>1, RivalsIs
<1>9. CASE NoneFollows(n, x, t, how, m)
  <2>1. Waiting(n, t) = {} /\ \A k \in Msg : outcome'[k] = IF k = m THEN how ELSE outcome[k]
    BY <1>9 DEF NoneFollows
  <2>2. N = {}
    BY <1>4, <1>5, <2>1 DEF N
  <2> QED
    BY <1>1, <1>7, <1>8, <2>1, <2>2
<1>10. CASE \E i \in Waiting(n, t) : OneFollows(n, x, t, how, m, i)
  <2>1. PICK i \in Waiting(n, t) : OneFollows(n, x, t, how, m, i)
    BY <1>10
  <2> DEFINE w == a.task[a.pending[i]].msg
  <2>2. /\ \A j \in Waiting(n, t) : i <= j
        /\ w \in Msg /\ w # m /\ outcome[w] = "waiting" /\ Script[w].src = n /\ Script[w].dst = Script[m].dst
        /\ \A k \in Msg : outcome'[k] = IF k = m THEN how ELSE IF k = w THEN "sending" ELSE outcome[k]
    BY <2>1 DEF OneFollows
  <2>3. w \in Promise!Rivals(m)
    BY <1>2, <2>2
  <2>4. Waiting(n, t) \subseteq DOMAIN a.pending /\ Waiting(n, t) \subseteq Nat
    <3>1. a.pending \in Seq(TxSlot)
      BY DEF Inv, Sending, TxInv, TxState
    <3> QED
      BY <3>1 DEF Waiting
  <2>5. \A k \in Promise!Rivals(m) : outcome[k] = "waiting" /\ k # w => w < k
    <3> SUFFICES ASSUME NEW k \in Promise!Rivals(m), outcome[k] = "waiting", k # w PROVE w < k
      OBVIOUS
    <3>1. PICK j \in Waiting(n, t) : a.task[a.pending[j]].msg = k
      BY <1>5
    <3>2. i # j
      BY <3>1
    <3>3. i <= j /\ i \in Nat /\ j \in Nat
      BY <2>2, <2>4, <3>1
    <3>4. i < j
      BY <3>2, <3>3
    <3> QED
      BY <2>4, <3>1, <3>4 DEF Known
  <2> HIDE DEF w
  <2>6. \A k \in Msg : k \in Promise!Rivals(w) => k \in Promise!Rivals(m) \/ k = m
    BY <1>1, <1>2, <2>2, RivalsIs
  <2>7. Promise!First(w)
    <3>1. \A k \in Promise!Rivals(w) : O[k] = "waiting" => w < k
      <4> SUFFICES ASSUME NEW k \in Promise!Rivals(w), O[k] = "waiting" PROVE w < k
        OBVIOUS
      <4>1. k \in Msg /\ k # w /\ outcome[k] = "waiting"
        BY <2>2, RivalsIs
      <4> QED
        BY <1>1, <2>5, <2>6, <4>1
    <3> QED
      BY <2>2, <3>1 DEF Promise!First
  <2>8. ASSUME NEW k \in N PROVE k = w
    <3>1. k \in Promise!Rivals(m) /\ Promise!First(k) /\ k \in Msg
      BY <1>3 DEF N
    <3>2. outcome[k] = "waiting"
      BY <1>4, <3>1
    <3>3. CASE k # w
      <4>1. w \in Promise!Rivals(k)
        BY <1>2, <2>2, <3>1, <3>3, RivalsIs
      <4>2. w < k /\ k < w
        BY <1>4, <2>2, <2>5, <3>1, <3>2, <3>3, <4>1
      <4>3. w \in Nat /\ k \in Nat
        BY <2>2, <3>1, ScriptTyped DEF Inv, Typed
      <4> QED
        BY <4>2, <4>3
    <3> QED
      BY <3>3
  <2>9. N = {w}
    BY <2>3, <2>7, <2>8 DEF N
  <2> QED
    BY <1>1, <1>7, <1>8, <2>2, <2>9
<1> QED
  BY <1>9, <1>10, <1>11

\* Every step is one of the promise, or leaves the outcomes alone.
LEMMA PromiseStep ==
  ASSUME Inv, Told, [Next]_vars
  PROVE  [Promise!Next /\ UNCHANGED [m \in Promised |-> <<Script[m].src, Script[m].dst>>]]_
           <<[m \in Promised |-> <<Script[m].src, Script[m].dst>>],
             [m \in Promised |-> outcome[m]], {m \in Promised : got[m] # {}}>>
<1> DEFINE D == [m \in Promised |-> <<Script[m].src, Script[m].dst>>]
           O == [m \in Promised |-> outcome[m]]
           G == {m \in Promised : got[m] # {}}
<1>1. setting' = setting
  BY StepKinds DEF Sends, Receives, Posts
<1>2. Promised' = Promised /\ D' = D
  BY <1>1 DEF Promised, StaleTimeouts, TimerFails, RplRejects, Shrinks, Msg, Script
<1>3. SUFFICES ASSUME Promised # {} PROVE Promise!Next \/ UNCHANGED <<O, G>>
  BY <1>2
<1>4. Promised = Msg /\ Calm /\ ~RplRejects /\ \A m \in Msg : ~Shrinks(m)
  BY <1>3, PromisedIs
<1>5. /\ \A n \in Node : Known(n, tx[n], outcome)
      /\ InOrder(outcome)
      /\ \A p \in air : p.kind = "segment" => outcome[p.msg] \in {"sending", "acked", "ended"}
  BY <1>4 DEF Told
<1>6. Promise!Msg = Msg
  BY <1>4 DEF Promise!Msg
<1>7. outcome \in OutcomeType /\ got \in GotType
  BY DEF Inv, Typed
<1>8. ASSUME NEW n \in Node, Sends(n)
      PROVE  Promise!Next \/ UNCHANGED <<O, G>>
  <2>1. PICK won : TxStep(n, won) /\ \A m \in Msg : m \in won => Kept(m, got)
    BY <1>8 DEF Sends
  <2>2. PICK x \in TxState : Moved(n, x, won)
    BY <1>4, <2>1 DEF TxStep
  <2>3. got' = got /\ Waits(tx[n]) /\ \A m \in Msg : m \in won => got[m] # {}
    BY <1>4, <1>8, <2>1 DEF Sends, TxStep, Inv, Sending, Kept
  <2>4. CASE outcome' = outcome
    BY <1>2, <2>3, <2>4
  <2>5. ASSUME NEW m \in Msg, Fresh(n, m), outcome' = [outcome EXCEPT ![m] = "refused"]
        PROVE  Promise!Next
    <3>1. Promise!Take(m, "refused")
      BY <1>2, <1>4, <1>7, <2>3, <2>5, PromiseTake DEF Fresh
    <3> QED
      BY <1>6, <3>1 DEF Promise!Next, Promise!Refuse
  <2>6. ASSUME NEW m \in Msg, NEW t, Taken(n, x, m, t)
        PROVE  Promise!Next
    <3>1. Promise!Wait(m) \/ Promise!Begin(m)
      BY <1>2, <1>4, <1>5, <2>3, <2>6, TakenPromise
    <3> QED
      BY <1>6, <3>1 DEF Promise!Next
  <2>7. ASSUME NEW t \in tx[n].active, NEW how \in {"acked", "ended"}, Ended(n, x, t, how),
               how = "acked" => tx[n].task[t].msg \in won
        PROVE  Promise!Next
    <3>1. how = "acked" => got[tx[n].task[t].msg] # {}
      BY <2>3, <2>7, InUse
    <3>2. \E m \in Msg : Promise!End(m, how)
      BY <1>2, <1>4, <1>5, <2>3, <2>7, <3>1, EndedPromise
    <3> QED
      BY <1>6, <3>2 DEF Promise!Next
  <2> QED
    BY <2>2, <2>4, <2>5, <2>6, <2>7 DEF Moved
<1>9. ASSUME NEW n \in Node, Receives(n)
      PROVE  Promise!Next \/ UNCHANGED <<O, G>>
  <2>1. outcome' = outcome
    BY <1>9 DEF Receives
  <2>2. PICK r : got' = got \/ Delivers(n, r)
    BY <1>9 DEF Receives, RxStep
  <2>3. CASE got' = got
    BY <1>2, <2>1, <2>3
  <2>4. CASE Delivers(n, r)
    <3>1. PICK p \in air : p.kind = "segment" /\ p.msg \in Msg /\ \E len : got' = [got EXCEPT ![p.msg] = @ \cup {len}]
      BY <2>4 DEF Delivers
    <3>2. got'[p.msg] # {} /\ \A m \in Msg \ {p.msg} : got'[m] = got[m]
      BY <1>7, <3>1 DEF GotType
    <3>3. G' = G \cup {p.msg}
      BY <1>2, <1>4, <3>1, <3>2
    <3>4. Promise!Deliver(p.msg)
      BY <1>2, <1>4, <1>5, <2>1, <3>1, <3>3 DEF Promise!Deliver
    <3> QED
      BY <1>6, <3>1, <3>4 DEF Promise!Next
  <2> QED
    BY <2>2, <2>3, <2>4
<1>10. ASSUME Posts
       PROVE  Promise!Next \/ UNCHANGED <<O, G>>
  BY <1>2, <1>10 DEF Posts
<1> QED
  BY <1>8, <1>9, <1>10, StepKinds

\* The transport keeps its promise for every script, number of nodes and number
\* of tasks, whatever packets are lost, repeated or late: messages to one
\* destination go out one at a time and in order, each of the ones that wait is
\* begun when the one before it is over, and a message that is taken for
\* received was delivered.
THEOREM KeepsPromise == Spec => Transfer
<1>1. Init => Promise!Init
  <2> SUFFICES ASSUME Init PROVE Promise!Init
    OBVIOUS
  <2>1. outcome = [m \in Msg |-> "new"] /\ got = [m \in Msg |-> {}] /\ Promised \subseteq Msg
    BY DEF Init, Promised
  <2> QED
    BY <2>1 DEF Promise!Init, Promise!Msg
<1>2. Init => Told
  BY ToldInit
<1>3. Inv /\ Told /\ [Next]_vars => Told'
  BY ToldNext
<1>4. Inv /\ Told /\ [Next]_vars =>
        [Promise!Next /\ UNCHANGED [m \in Promised |-> <<Script[m].src, Script[m].dst>>]]_
          <<[m \in Promised |-> <<Script[m].src, Script[m].dst>>],
            [m \in Promised |-> outcome[m]], {m \in Promised : got[m] # {}}>>
  BY PromiseStep
<1> QED
  BY <1>1, <1>2, <1>3, <1>4, SpecInv, PTL DEF Spec, Transfer, Promise!Spec
=============================================================================
