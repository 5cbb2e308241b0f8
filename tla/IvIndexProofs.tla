--------------------------- MODULE IvIndexProofs ---------------------------
(***************************************************************************)
(* Proofs about IvIndex for every value of its constants: the transmitted  *)
(* index never goes back, and as long as the sequence numbers do not run   *)
(* out no two network PDUs share a nonce.                                  *)
(***************************************************************************)
EXTENDS IvIndex, FiniteSetTheorems, TLAPS

USE IvAssumption, IvIndexAssumption DEF IvAssumption, IvIndexAssumption

-----------------------------------------------------------------------------
(* The operators of IvUpdate. *)

\* An index from which 1 is taken is not 0.
Sound(v) == v \in IvState /\ (v.updating => v.index >= 1)

LEMMA TxIndexType ==
  ASSUME NEW v, Sound(v)
  PROVE  TxIndex(v) \in Nat
BY DEF Sound, IvState, TxIndex

\* What the steps do to the two fields that make the index for sending.
LEMMA NormalFields ==
  ASSUME NEW v \in IvState, NEW busy \in BOOLEAN
  PROVE  /\ NormalUnlessBusy(v, busy) \in IvState
         /\ NormalUnlessBusy(v, busy).index = v.index
         /\ busy => NormalUnlessBusy(v, busy).updating = v.updating
         /\ ~busy => NormalUnlessBusy(v, busy).updating = FALSE
<1>1. CASE busy
  BY <1>1 DEF NormalUnlessBusy, IvState
<1>2. CASE ~busy
  <2>1. NormalUnlessBusy(v, busy) = [v EXCEPT !.updating = FALSE, !.tick = 0]
    BY <1>2 DEF NormalUnlessBusy, ReturnToNormal
  <2>2. FALSE \in BOOLEAN /\ 0 \in 0 .. TickMax
    OBVIOUS
  <2> QED
    BY <1>2, <2>1, <2>2 DEF IvState
<1> QED
  BY <1>1, <1>2

LEMMA TickedFields ==
  ASSUME NEW v \in IvState
  PROVE  Ticked(v) \in IvState /\ Ticked(v).index = v.index /\ Ticked(v).updating = v.updating
<1>1. CASE v.tick < TickMax
  BY <1>1 DEF Ticked, IvState
<1>2. CASE ~(v.tick < TickMax)
  BY <1>2 DEF Ticked, IvState
<1> QED
  BY <1>1, <1>2

\* A tick changes the index for sending in one way only: a return to normal.
LEMMA TickStep ==
  ASSUME NEW v, Sound(v), NEW busy \in BOOLEAN
  PROVE  /\ Sound(IvTick(v, busy))
         /\ TxIndex(IvTick(v, busy)) >= TxIndex(v)
         /\ TickClears(v, busy) => ~busy /\ TxIndex(IvTick(v, busy)) > TxIndex(v)
<1>1. v \in IvState /\ v.index \in Nat /\ v.updating \in BOOLEAN /\ (v.updating => v.index >= 1)
  BY DEF Sound, IvState
<1> DEFINE w == Ticked(v)
<1>2. w \in IvState /\ w.index = v.index /\ w.updating = v.updating
  BY <1>1, TickedFields
<1>3. CASE UpdateExpires(v)
  <2>1. v.updating
    BY <1>3 DEF UpdateExpires
  <2>2. IvTick(v, busy) = NormalUnlessBusy(w, busy)
    BY <1>3 DEF IvTick
  <2> HIDE DEF w
  <2>3. /\ NormalUnlessBusy(w, busy).index = v.index /\ NormalUnlessBusy(w, busy) \in IvState
        /\ busy => NormalUnlessBusy(w, busy).updating = v.updating
        /\ ~busy => NormalUnlessBusy(w, busy).updating = FALSE
    BY <1>2, NormalFields
  <2>4. CASE busy
    <3>1. ~TickClears(v, busy)
      BY <2>4 DEF TickClears
    <3>2. Sound(NormalUnlessBusy(w, busy)) /\ TxIndex(NormalUnlessBusy(w, busy)) = TxIndex(v)
      BY <1>1, <2>1, <2>3, <2>4 DEF Sound, TxIndex
    <3>3. TxIndex(v) \in Nat
      BY TxIndexType
    <3> QED
      BY <2>2, <3>1, <3>2, <3>3
  <2>5. CASE ~busy
    BY <1>1, <2>1, <2>2, <2>3, <2>5 DEF Sound, TxIndex, TickClears
  <2> QED
    BY <2>4, <2>5
<1>4. CASE ~UpdateExpires(v)
  <2>1. IvTick(v, busy) = w
    BY <1>4 DEF IvTick
  <2> HIDE DEF w
  <2> QED
    BY <1>1, <1>2, <1>4, <2>1 DEF Sound, TxIndex, TickClears
<1> QED
  BY <1>3, <1>4

LEMMA FinishedStep ==
  ASSUME NEW v, Sound(v)
  PROVE  Sound(IvTaskFinished(v)) /\ TxIndex(IvTaskFinished(v)) >= TxIndex(v)
<1>1. CASE v.pending
  <2> DEFINE w == [v EXCEPT !.updating = FALSE]
  <2>1. w \in IvState /\ w.index = v.index /\ w.updating = FALSE /\ IvTaskFinished(v) = w
    BY <1>1 DEF Sound, IvState, IvTaskFinished
  <2>2. v.index \in Nat
    BY DEF Sound, IvState
  <2> HIDE DEF w
  <2> QED
    BY <2>1, <2>2 DEF Sound, TxIndex
<1>2. CASE ~v.pending
  BY <1>2, TxIndexType DEF IvTaskFinished
<1> QED
  BY <1>1, <1>2

\* A beacon that applies is later than the state of the node by at least
\* half an index; one that clears the numbers leads to a later index.
LEMMA BeaconStep ==
  ASSUME NEW v, Sound(v), NEW i \in Nat, NEW u \in BOOLEAN, NEW busy \in BOOLEAN
  PROVE  /\ Sound(IvUpdated(v, i, u, busy))
         /\ TxIndex(IvUpdated(v, i, u, busy)) >= TxIndex(v)
         /\ UpdateClears(v, i, u, busy) =>
              /\ TxIndex(IvUpdated(v, i, u, busy)) > TxIndex(v)
              /\ busy => Distance(v, i, u) > 1
<1>1. CASE ~UpdateApplies(v, i, u)
  BY <1>1, TxIndexType DEF IvUpdated, UpdateClears
<1>2. CASE UpdateApplies(v, i, u)
  <2> DEFINE w == [v EXCEPT !.index = i]
             r == IvUpdated(v, i, u, busy)
  <2>1. /\ v \in IvState /\ v.index \in Nat /\ v.updating \in BOOLEAN /\ (v.updating => v.index >= 1)
        /\ w \in IvState /\ w.index = i /\ w.updating = v.updating
    BY DEF Sound, IvState
  <2>2. v.index <= i /\ Distance(v, i, u) \in Nat \ {0}
    BY <1>2, <2>1 DEF UpdateApplies, Distance, Phase
  <2>3. CASE Distance(v, i, u) = 1 /\ u
    <3>1. r = [w EXCEPT !.updating = TRUE]
      BY <1>2, <2>3 DEF IvUpdated
    <3> HIDE DEF w, r
    <3>2. r \in IvState /\ r.index = i /\ r.updating = TRUE
      BY <2>1, <3>1 DEF IvState
    <3>3. ~UpdateClears(v, i, u, busy)
      BY <2>3 DEF UpdateClears
    <3>4. i >= 1 /\ i - 1 >= TxIndex(v)
      BY <2>1, <2>2, <2>3 DEF TxIndex, Distance, Phase
    <3>5. TxIndex(r) = i - 1 /\ Sound(r)
      BY <3>2, <3>4 DEF TxIndex, Sound
    <3> QED
      BY <3>3, <3>4, <3>5 DEF r
  <2>4. CASE Distance(v, i, u) = 1 /\ ~u
    <3>1. r = NormalUnlessBusy(w, busy)
      BY <1>2, <2>4 DEF IvUpdated
    <3>2. v.updating /\ i = v.index
      BY <2>1, <2>2, <2>4 DEF Distance, Phase
    <3> HIDE DEF w, r
    <3>3. /\ r \in IvState /\ r.index = i
          /\ busy => r.updating = v.updating
          /\ ~busy => r.updating = FALSE
      BY <2>1, <3>1, <3>2, NormalFields
    <3>4. UpdateClears(v, i, u, busy) => ~busy
      BY <2>4 DEF UpdateClears
    <3>5. Sound(r) /\ TxIndex(r) >= TxIndex(v) /\ (~busy => TxIndex(r) > TxIndex(v))
      BY <2>1, <3>2, <3>3 DEF Sound, TxIndex
    <3> QED
      BY <3>4, <3>5 DEF r
  <2>5. CASE Distance(v, i, u) # 1
    <3>1. r = [w EXCEPT !.updating = u, !.tick = Tick96]
      BY <1>2, <2>5 DEF IvUpdated
    <3> HIDE DEF w, r
    <3>2. Tick96 \in 0 .. TickMax
      OBVIOUS
    <3>3. r \in IvState /\ r.index = i /\ r.updating = u
      BY <2>1, <3>1, <3>2 DEF IvState
    <3>4. Distance(v, i, u) > 1
      BY <2>2, <2>5
    <3>5. CASE u
      <4>1. i >= 1 /\ i - 1 > TxIndex(v)
        BY <2>1, <3>4, <3>5 DEF TxIndex, Distance, Phase
      <4>2. Sound(r) /\ TxIndex(r) = i - 1
        BY <3>3, <3>5, <4>1 DEF Sound, TxIndex
      <4> QED
        BY <3>4, <4>1, <4>2, TxIndexType DEF r
    <3>6. CASE ~u
      <4>1. i > TxIndex(v)
        BY <2>1, <2>2, <3>4, <3>6 DEF TxIndex, Distance, Phase
      <4>2. Sound(r) /\ TxIndex(r) = i
        BY <3>3, <3>6 DEF Sound, TxIndex
      <4> QED
        BY <3>4, <4>1, <4>2, TxIndexType DEF r
    <3> QED
      BY <3>5, <3>6
  <2> QED
    BY <2>3, <2>4, <2>5
<1> QED
  BY <1>1, <1>2

-----------------------------------------------------------------------------
(* The sequence numbers of the segments of one call. *)

LEMMA SegFinite == 
  ASSUME NEW S \in SUBSET Seg
  PROVE  IsFiniteSet(S) /\ Cardinality(S) \in 0 .. SegMax + 1
<1>1. IsFiniteSet(Seg) /\ Cardinality(Seg) = SegMax + 1
  BY FS_Interval DEF Seg
<1> QED
  BY <1>1, FS_Subset, FS_CardinalityType

LEMMA RankBounds ==
  ASSUME NEW S \in SUBSET Seg, NEW i \in S
  PROVE  Rank(S, i) \in 1 .. Cardinality(S)
<1> DEFINE T == {j \in S : j <= i}
<1>1. IsFiniteSet(S) /\ Cardinality(S) \in Nat
  BY SegFinite
<1>2. T \in SUBSET S
  OBVIOUS
<1> HIDE DEF T
<1>3. IsFiniteSet(T) /\ Cardinality(T) \in Nat /\ Cardinality(T) <= Cardinality(S)
  BY <1>1, <1>2, FS_Subset, FS_CardinalityType
<1>4. T # {}
  BY DEF Seg, T
<1>5. Cardinality(T) # 0
  BY <1>3, <1>4, FS_EmptySet
<1>6. Rank(S, i) = Cardinality(T)
  BY DEF Rank, T
<1> QED
  BY <1>1, <1>3, <1>5, <1>6

LEMMA RankGrows ==
  ASSUME NEW S \in SUBSET Seg, NEW i \in S, NEW k \in S, i < k
  PROVE  Rank(S, i) < Rank(S, k)
<1> DEFINE T(n) == {j \in S : j <= n}
<1>1. IsFiniteSet(T(k))
  BY SegFinite, FS_Subset
<1>2. S \subseteq Nat /\ i \in Nat /\ k \in Nat
  BY DEF Seg
<1>3. T(i) \in SUBSET T(k) /\ T(i) # T(k)
  <2>1. \A j \in T(i) : j \in T(k)
    BY <1>2
  <2>2. k \in T(k) /\ k \notin T(i)
    BY <1>2
  <2> HIDE DEF T
  <2> QED
    BY <2>1, <2>2
<1>4. Cardinality(T(i)) <= Cardinality(T(k)) /\ Cardinality(T(i)) # Cardinality(T(k))
  <2> HIDE DEF T
  <2> QED
    BY <1>1, <1>3, FS_Subset
<1>5. Cardinality(T(i)) = Rank(S, i) /\ Cardinality(T(k)) = Rank(S, k)
  BY DEF Rank
<1>6. Rank(S, i) \in Nat /\ Rank(S, k) \in Nat
  BY RankBounds, SegFinite
<1> QED
  BY <1>4, <1>5, <1>6

LEMMA RankInjective ==
  ASSUME NEW S \in SUBSET Seg, NEW i \in S, NEW k \in S, Rank(S, i) = Rank(S, k)
  PROVE  i = k
<1>1. i \in Nat /\ k \in Nat /\ Rank(S, i) \in Nat /\ Rank(S, k) \in Nat
  BY RankBounds, SegFinite DEF Seg
<1> QED
  BY <1>1, RankGrows

LEMMA SentType ==
  ASSUME NEW S \in SUBSET Seg, NEW index \in Nat, NEW s \in 0 .. SeqMax, NEW m \in Nat
  PROVE  Sent(S, index, s, m) \subseteq Pdu
<1> SUFFICES ASSUME NEW i \in S PROVE NthSeq(s, Rank(S, i)) \in 0 .. SeqMax
  BY DEF Sent, Pdu
<1>1. Rank(S, i) \in Nat \ {0}
  BY RankBounds, SegFinite
<1> QED
  BY <1>1 DEF NthSeq, SeqAfter

\* The PDUs of one call have numbers of their own from s on, while the numbers
\* last.
LEMMA SentFresh ==
  ASSUME NEW S \in SUBSET Seg, NEW index \in Nat, NEW s \in Nat, NEW m \in Nat,
         s + Cardinality(S) <= SeqMax
  PROVE  /\ \A p \in Sent(S, index, s, m) : p.iv = index /\ s <= p.seq /\ p.seq < s + Cardinality(S)
         /\ \A p, r \in Sent(S, index, s, m) : p.seq = r.seq => p = r
<1>1. \A i \in S : NthSeq(s, Rank(S, i)) = s + Rank(S, i) - 1
  <2> SUFFICES ASSUME NEW i \in S PROVE NthSeq(s, Rank(S, i)) = s + Rank(S, i) - 1
    OBVIOUS
  <2>1. Rank(S, i) \in 1 .. Cardinality(S) /\ Cardinality(S) \in Nat
    BY RankBounds, SegFinite
  <2> QED
    BY <2>1 DEF NthSeq, SeqAfter
<1>2. ASSUME NEW p \in Sent(S, index, s, m)
      PROVE  p.iv = index /\ s <= p.seq /\ p.seq < s + Cardinality(S)
  <2>1. PICK i \in S : p = [iv |-> index, seq |-> NthSeq(s, Rank(S, i)), msg |-> m, seg |-> i]
    BY DEF Sent
  <2>2. Rank(S, i) \in 1 .. Cardinality(S) /\ Cardinality(S) \in Nat
    BY RankBounds, SegFinite
  <2>3. p.iv = index /\ p.seq = s + Rank(S, i) - 1
    BY <1>1, <2>1
  <2> QED
    BY <2>2, <2>3
<1>3. ASSUME NEW p \in Sent(S, index, s, m), NEW r \in Sent(S, index, s, m), p.seq = r.seq
      PROVE  p = r
  <2>1. PICK i \in S : p = [iv |-> index, seq |-> NthSeq(s, Rank(S, i)), msg |-> m, seg |-> i]
    BY DEF Sent
  <2>2. PICK k \in S : r = [iv |-> index, seq |-> NthSeq(s, Rank(S, k)), msg |-> m, seg |-> k]
    BY DEF Sent
  <2>3. Rank(S, i) \in Nat /\ Rank(S, k) \in Nat
    BY RankBounds, SegFinite
  <2>4. s + Rank(S, i) - 1 = s + Rank(S, k) - 1
    BY <1>1, <1>3, <2>1, <2>2
  <2>5. i = k
    BY <2>3, <2>4, RankInjective
  <2> QED
    BY <2>1, <2>2, <2>5
<1> QED
  BY <1>2, <1>3

-----------------------------------------------------------------------------
(* Types, and the index for sending. *)

TypeInv == TypeOK /\ Sound(iv)

LEMMA FinishedType ==
  ASSUME TypeInv, NEW t \in Task, Finished(t)
  PROVE  /\ Sound(iv') /\ iv' \in IvState /\ since' \in 0 .. TickMax
         /\ TxIndex(iv') >= TxIndex(iv)
         /\ DOMAIN tasks' = Active \ {t} /\ \A u \in Active \ {t} : tasks'[u] = tasks[u]
<1>1. iv' = IvTaskFinished(iv)
  BY DEF Finished
<1>2. Sound(iv') /\ TxIndex(iv') >= TxIndex(iv)
  BY <1>1, FinishedStep DEF TypeInv
<1> QED
  BY <1>2 DEF Finished, Sound, TypeInv, TypeOK

LEMMA TypeInit == Init => TypeInv
BY DEF Init, TypeInv, TypeOK, Active, Sound, IvInit, IvState

LEMMA TypeStep ==
  ASSUME TypeInv, [Next]_vars
  PROVE  TypeInv' /\ TxIndex(iv') >= TxIndex(iv)
<1> USE DEF Active
<1>1. /\ iv \in IvState /\ Sound(iv) /\ TxIndex(iv) \in Nat
      /\ seq \in 0 .. SeqMax /\ msgs \in 0 .. MaxMsgs /\ since \in 0 .. TickMax
      /\ Active \subseteq Task /\ tasks \in [Active -> TaskState] /\ used \subseteq Pdu
      /\ lead \in [index : 0 .. MaxIndex, updating : BOOLEAN]
  BY TxIndexType DEF TypeInv, TypeOK
<1>2. \A s \in 0 .. SeqMax, k \in Nat : SeqAfter(s, k) \in 0 .. SeqMax
  BY DEF SeqAfter
<1>3. {0} \in SUBSET Seg /\ Seg \in SUBSET Seg
  BY DEF Seg
<1>4. CASE SendUnsegmented
  <2>1. msgs' \in 0 .. MaxMsgs /\ msgs' \in Nat
    BY <1>1, <1>4 DEF SendUnsegmented
  <2>2. Sent({0}, TxIndex(iv), seq, msgs') \subseteq Pdu
    BY <1>1, <1>3, <2>1, SentType
  <2> QED
    BY <1>1, <1>2, <1>4, <2>1, <2>2 DEF SendUnsegmented, TypeInv, TypeOK
<1>5. ASSUME NEW t \in Task, SendSegmented(t)
      PROVE  TypeInv' /\ iv' = iv
  <2>1. msgs' \in 0 .. MaxMsgs /\ msgs' \in Nat
    BY <1>1, <1>5 DEF SendSegmented
  <2>2. SeqAfter(seq, 1) \in 0 .. SeqMax /\ seq' \in 0 .. SeqMax
    BY <1>1, <1>2, <1>5 DEF SendSegmented
  <2>3. Sent(Seg, TxIndex(iv), SeqAfter(seq, 1), msgs') \subseteq Pdu
    BY <1>1, <1>3, <2>1, <2>2, SentType
  <2>4. [iv |-> TxIndex(iv), auth |-> seq, msg |-> msgs', tries |-> 0] \in TaskState
    BY <1>1, <2>1 DEF TaskState
  <2>5. DOMAIN tasks' = Active \cup {t} /\ tasks' \in [Active \cup {t} -> TaskState]
    BY <1>1, <1>5, <2>4 DEF SendSegmented
  <2> QED
    BY <1>1, <1>5, <2>1, <2>2, <2>3, <2>5 DEF SendSegmented, TypeInv, TypeOK
<1>6. ASSUME NEW t \in Task, Retry(t)
      PROVE  TypeInv' /\ TxIndex(iv') >= TxIndex(iv)
  <2>1. PICK S \in SUBSET Seg \ {{}} :
          IF seq >= tasks[t].auth
          THEN /\ used' = used \cup Sent(S, tasks[t].iv, seq, tasks[t].msg)
               /\ seq' = SeqAfter(seq, Cardinality(S))
               /\ tasks' = [tasks EXCEPT ![t].tries = @ + 1]
               /\ UNCHANGED <<iv, since>>
          ELSE /\ seq' = SeqAfter(seq, 1)
               /\ Finished(t)
               /\ UNCHANGED used
    BY <1>6 DEF Retry
  <2>2. t \in Active /\ tasks[t] \in TaskState /\ tasks[t].tries < Retries /\ UNCHANGED <<msgs, lead>>
    BY <1>1, <1>6 DEF Retry
  <2>3. CASE seq >= tasks[t].auth
    <3>1. Cardinality(S) \in Nat
      BY SegFinite
    <3>2. tasks[t].iv \in Nat /\ tasks[t].msg \in Nat
      BY <2>2 DEF TaskState
    <3>3. Sent(S, tasks[t].iv, seq, tasks[t].msg) \subseteq Pdu
      BY <1>1, <3>2, SentType
    <3>4. tasks' = [tasks EXCEPT ![t].tries = @ + 1] /\ DOMAIN tasks' = Active
      BY <1>1, <2>1, <2>3
    <3>5. [tasks[t] EXCEPT !.tries = @ + 1] \in TaskState
      BY <2>2 DEF TaskState
    <3>6. tasks' \in [Active -> TaskState]
      BY <1>1, <3>4, <3>5
    <3> QED
      BY <1>1, <1>2, <2>1, <2>2, <2>3, <3>1, <3>3, <3>4, <3>6 DEF TypeInv, TypeOK
  <2>4. CASE ~(seq >= tasks[t].auth)
    <3>1. Finished(t) /\ seq' = SeqAfter(seq, 1) /\ used' = used
      BY <2>1, <2>4
    <3> QED
      BY <1>1, <1>2, <2>2, <3>1, FinishedType DEF TypeInv, TypeOK, Finished
  <2> QED
    BY <2>3, <2>4
<1>7. ASSUME NEW t \in Task, Finish(t)
      PROVE  TypeInv' /\ TxIndex(iv') >= TxIndex(iv)
  BY <1>1, <1>7, FinishedType DEF Finish, Finished, TypeInv, TypeOK
<1>8. \A k \in Nat : Elapsed(k) \in 0 .. TickMax
  BY <1>1 DEF Elapsed
<1>9. \A clears \in BOOLEAN : Cleared(seq, clears) \in 0 .. SeqMax
  BY <1>1 DEF Cleared
<1>10. CASE Tick
  <2>1. Sound(iv') /\ TxIndex(iv') >= TxIndex(iv)
    BY <1>1, <1>10, TickStep DEF Tick, Busy
  <2> QED
    BY <1>1, <1>8, <1>9, <1>10, <2>1 DEF Tick, TypeInv, TypeOK, Sound, TickClears
<1>11. ASSUME NEW i \in 0 .. MaxIndex, NEW u \in BOOLEAN, Hear(i, u)
       PROVE  TypeInv' /\ TxIndex(iv') >= TxIndex(iv)
  <2>1. Sound(iv') /\ TxIndex(iv') >= TxIndex(iv)
    <3>1. iv' = IvUpdated(iv, i, u, Busy) /\ Busy \in BOOLEAN /\ i \in Nat
      BY <1>11 DEF Hear, Busy
    <3> QED
      BY <1>1, <3>1, BeaconStep
  <2> QED
    BY <1>1, <1>8, <1>9, <1>11, <2>1 DEF Hear, TypeInv, TypeOK, Sound, UpdateClears
<1>12. CASE Lead
  <2>1. lead' \in [index : 0 .. MaxIndex, updating : BOOLEAN]
    <3>1. CASE lead.updating
      BY <1>1, <1>12, <3>1 DEF Lead
    <3>2. CASE ~lead.updating
      BY <1>1, <1>12, <3>2 DEF Lead
    <3> QED
      BY <3>1, <3>2
  <2> QED
    BY <1>1, <1>12, <2>1 DEF Lead, TypeInv, TypeOK
<1>13. CASE UNCHANGED vars
  BY <1>1, <1>13 DEF vars, TypeInv, TypeOK
<1> QED
  BY <1>1, <1>4, <1>5, <1>6, <1>7, <1>10, <1>11, <1>12, <1>13 DEF Next

\* A node's variables keep their types: the sequence number stops at its
\* maximum and no task outlives its retries (meshx_seq_use, the retry counter
\* of meshx_lower_trans_tx_task_run).
THEOREM TypeCorrectIv == Spec => []TypeOK
<1>1. TypeInv /\ [Next]_vars => TypeInv'
  BY TypeStep
<1>2. TypeInv => TypeOK
  BY DEF TypeInv
<1> QED
  BY TypeInit, <1>1, <1>2, PTL DEF Spec

\* The index used for sending never goes back, whatever order beacons, clock
\* ticks and the ends of segmented messages come in (meshx_iv_index_update,
\* meshx_iv_index_async_handle_timeout, meshx_lower_trans_tx_task_finish).
THEOREM TxNeverBack == Spec => TxMonotone
<1>1. TypeInv /\ [Next]_vars => TypeInv'
  BY TypeStep
<1>2. TypeInv /\ [Next]_vars => [TxIndex(iv') >= TxIndex(iv)]_vars
  BY TypeStep
<1> QED
  BY TypeInit, <1>1, <1>2, PTL DEF Spec, TxMonotone

-----------------------------------------------------------------------------
(* Nonces. *)

\* The numbers do not run out in the next step: meshx_seq_use hands the last
\* one out for ever.
NumbersLeft == seq + SegMax + 2 <= SeqMax

\* An index under which the node may still send: its own for sending, and
\* those of the messages under way.
Live(i) == i = TxIndex(iv) \/ \E t \in Active : tasks[t].iv = i

Behind ==
  /\ \A t \in Active : tasks[t].iv <= TxIndex(iv)
  /\ \A p \in used : p.iv <= TxIndex(iv) /\ (Live(p.iv) => p.seq < seq)

NonceInv == TypeInv /\ Behind /\ NonceUnique

\* Segments sent under a live index have nonces of their own.
LEMMA SentUnique ==
  ASSUME NonceInv, NEW S \in SUBSET Seg, NEW index \in Nat, Live(index),
         NEW s \in Nat, s >= seq, s + Cardinality(S) <= SeqMax, NEW m \in Nat,
         used' = used \cup Sent(S, index, s, m)
  PROVE  NonceUnique'
<1>1. \A p \in Sent(S, index, s, m) : p.iv = index /\ s <= p.seq
  BY SentFresh
<1>2. \A p, r \in Sent(S, index, s, m) : p.seq = r.seq => p = r
  BY SentFresh
<1>3. \A p \in used : p.seq \in Nat /\ (p.iv = index => p.seq < seq)
  BY DEF NonceInv, Behind, TypeInv, TypeOK, Pdu
<1>4. seq \in Nat
  BY DEF NonceInv, TypeInv, TypeOK
<1>5. \A p \in Sent(S, index, s, m) : p.seq \in Nat
  <2>1. \A p \in Sent(S, index, s, m) : p \in Pdu
    BY <1>4, SentType, SegFinite
  <2> QED
    BY <2>1 DEF Pdu
<1>6. ASSUME NEW p \in used, NEW r \in Sent(S, index, s, m), p.iv = r.iv
      PROVE  p.seq # r.seq
  BY <1>1, <1>3, <1>4, <1>5, <1>6
<1>7. \A p, r \in used : p.iv = r.iv /\ p.seq = r.seq => p = r
  BY DEF NonceInv, NonceUnique
<1> QED
  BY <1>1, <1>2, <1>6, <1>7 DEF NonceUnique

\* ... and leave every live number behind them.
LEMMA SentBehind ==
  ASSUME NonceInv, NEW S \in SUBSET Seg, NEW index \in Nat, Live(index),
         NEW s \in Nat, s >= seq, s + Cardinality(S) <= SeqMax, NEW m \in Nat,
         used' = used \cup Sent(S, index, s, m), iv' = iv, seq' = s + Cardinality(S),
         \A t \in Active' : tasks'[t].iv = TxIndex(iv) \/ (t \in Active /\ tasks'[t].iv = tasks[t].iv)
  PROVE  Behind'
<1>1. /\ TxIndex(iv) \in Nat /\ seq \in Nat /\ Cardinality(S) \in Nat
      /\ \A p \in used : p.seq \in Nat /\ p.iv \in Nat
      /\ \A t \in Active : tasks[t].iv \in Nat /\ tasks[t].iv <= TxIndex(iv)
  BY TxIndexType, SegFinite DEF NonceInv, Behind, TypeInv, TypeOK, Pdu, TaskState, Active
<1>2. index <= TxIndex(iv)
  BY <1>1 DEF Live
<1>3. TxIndex(iv') = TxIndex(iv)
  OBVIOUS
<1>4. \A i : Live(i)' => Live(i)
  BY <1>3 DEF Live
<1>5. ASSUME NEW p \in used
      PROVE  p.iv <= TxIndex(iv') /\ (Live(p.iv)' => p.seq < seq')
  BY <1>1, <1>3, <1>4 DEF NonceInv, Behind
<1>6. ASSUME NEW p \in Sent(S, index, s, m)
      PROVE  p.iv <= TxIndex(iv') /\ p.seq < seq'
  BY <1>2, <1>3, SentFresh
<1>7. \A t \in Active' : tasks'[t].iv <= TxIndex(iv')
  BY <1>1, <1>3
<1> QED
  BY <1>5, <1>6, <1>7 DEF Behind

\* A step that sends nothing: numbers restart only under a later index, and
\* only when no message is under way.
LEMMA SilentStep ==
  ASSUME NonceInv, used' = used, seq' \in Nat, Sound(iv'), TxIndex(iv') >= TxIndex(iv),
         seq' >= seq \/ (Active = {} /\ TxIndex(iv') > TxIndex(iv)),
         \A t \in Active' : t \in Active /\ tasks'[t].iv = tasks[t].iv
  PROVE  Behind' /\ NonceUnique'
<1>1. /\ TxIndex(iv) \in Nat /\ TxIndex(iv') \in Nat /\ seq \in Nat
      /\ \A p \in used : p.seq \in Nat /\ p.iv \in Nat /\ p.iv <= TxIndex(iv)
      /\ \A t \in Active : tasks[t].iv \in Nat /\ tasks[t].iv <= TxIndex(iv)
  BY TxIndexType, SMTT(30) DEF NonceInv, Behind, TypeInv, TypeOK, Pdu, TaskState, Active
<1>2. NonceUnique'
  BY DEF NonceInv, NonceUnique
<1>3. \A t \in Active' : tasks'[t].iv <= TxIndex(iv')
  BY <1>1
<1>4. ASSUME NEW p \in used, Live(p.iv)'
      PROVE  Live(p.iv) /\ seq' >= seq
  <2>1. CASE p.iv = TxIndex(iv')
    <3>1. TxIndex(iv') = TxIndex(iv)
      BY <1>1, <2>1
    <3> QED
      BY <1>1, <2>1, <3>1 DEF Live
  <2>2. CASE \E t \in Active' : tasks'[t].iv = p.iv
    BY <2>2 DEF Live
  <2> QED
    BY <1>4, <2>1, <2>2 DEF Live
<1>5. ASSUME NEW p \in used
      PROVE  p.iv <= TxIndex(iv') /\ (Live(p.iv)' => p.seq < seq')
  BY <1>1, <1>4 DEF NonceInv, Behind
<1> QED
  BY <1>2, <1>3, <1>5 DEF Behind

LEMMA NonceStep ==
  ASSUME ~BusyRecovery, NonceInv, NumbersLeft, [Next]_vars
  PROVE  NonceInv'
<1>1. /\ TypeInv' /\ TxIndex(iv') >= TxIndex(iv) /\ Sound(iv')
      /\ Sound(iv) /\ TxIndex(iv) \in Nat /\ Live(TxIndex(iv))
      /\ seq \in Nat /\ seq' \in Nat /\ msgs' \in Nat
  BY TypeStep, TxIndexType DEF NonceInv, TypeInv, TypeOK, Live
<1>2. SUFFICES Behind' /\ NonceUnique'
  BY <1>1 DEF NonceInv
<1>3. \A k \in 0 .. SegMax + 2 : SeqAfter(seq, k) = seq + k
  <2> SUFFICES ASSUME NEW k \in 0 .. SegMax + 2 PROVE SeqAfter(seq, k) = seq + k
    OBVIOUS
  <2>1. seq + k <= SeqMax
    BY <1>1 DEF NumbersLeft
  <2> QED
    BY <1>1, <2>1 DEF SeqAfter
<1>4. {0} \in SUBSET Seg /\ Cardinality({0}) = 1
  <2>1. Cardinality({0}) = 1
    BY FS_Singleton
  <2> QED
    BY <2>1 DEF Seg
<1>5. Seg \in SUBSET Seg /\ Cardinality(Seg) = SegMax + 1
  BY FS_Interval DEF Seg
<1>6. CASE SendUnsegmented
  <2>1. /\ used' = used \cup Sent({0}, TxIndex(iv), seq, msgs')
        /\ seq' = seq + 1 /\ iv' = iv /\ tasks' = tasks
    BY <1>3, <1>6 DEF SendUnsegmented
  <2>2. seq + Cardinality({0}) <= SeqMax /\ seq' = seq + Cardinality({0})
    BY <1>1, <1>4, <2>1 DEF NumbersLeft
  <2>3. \A t \in Active' : t \in Active /\ tasks'[t].iv = tasks[t].iv
    BY <2>1 DEF Active
  <2>4. NonceUnique'
    BY <1>1, <1>4, <2>1, <2>2, SentUnique
  <2>5. Behind'
    BY <1>1, <1>4, <2>1, <2>2, <2>3, SentBehind
  <2> QED
    BY <2>4, <2>5
<1>7. ASSUME NEW t \in Task, SendSegmented(t)
      PROVE  Behind' /\ NonceUnique'
  <2>1. /\ used' = used \cup Sent(Seg, TxIndex(iv), seq + 1, msgs')
        /\ seq' = seq + 1 + Cardinality(Seg) /\ iv' = iv
        /\ tasks' = [u \in Active \cup {t} |->
             IF u = t THEN [iv |-> TxIndex(iv), auth |-> seq, msg |-> msgs', tries |-> 0] ELSE tasks[u]]
    BY <1>1, <1>3, <1>5, <1>7 DEF SendSegmented
  <2>2. seq + 1 + Cardinality(Seg) <= SeqMax /\ seq + 1 \in Nat /\ seq + 1 >= seq
    BY <1>1, <1>5 DEF NumbersLeft
  <2>3. \A u \in Active' : tasks'[u].iv = TxIndex(iv) \/ (u \in Active /\ tasks'[u].iv = tasks[u].iv)
    BY <2>1 DEF Active
  <2>4. NonceUnique'
    BY <1>1, <1>5, <2>1, <2>2, SentUnique
  <2>5. Behind'
    BY <1>1, <1>5, <2>1, <2>2, <2>3, SentBehind
  <2> QED
    BY <2>4, <2>5
<1>8. ASSUME NEW t \in Task, Finished(t), used' = used, seq' >= seq
      PROVE  Behind' /\ NonceUnique'
  <2>1. \A u \in Active' : u \in Active /\ tasks'[u].iv = tasks[u].iv
    BY <1>8 DEF Finished, Active
  <2> QED
    BY <1>1, <1>8, <2>1, SilentStep
<1>9. ASSUME NEW t \in Task, Retry(t)
      PROVE  Behind' /\ NonceUnique'
  <2>1. PICK S \in SUBSET Seg \ {{}} :
          IF seq >= tasks[t].auth
          THEN /\ used' = used \cup Sent(S, tasks[t].iv, seq, tasks[t].msg)
               /\ seq' = SeqAfter(seq, Cardinality(S))
               /\ tasks' = [tasks EXCEPT ![t].tries = @ + 1]
               /\ UNCHANGED <<iv, since>>
          ELSE /\ seq' = SeqAfter(seq, 1)
               /\ Finished(t)
               /\ UNCHANGED used
    BY <1>9 DEF Retry
  <2>2. CASE seq >= tasks[t].auth
    <3>1. t \in Active /\ tasks[t] \in TaskState /\ Live(tasks[t].iv)
      BY <1>9 DEF Retry, NonceInv, TypeInv, TypeOK, Live
    <3>2. tasks[t].iv \in Nat /\ tasks[t].msg \in Nat
      BY <3>1 DEF TaskState
    <3>3. Cardinality(S) \in 0 .. SegMax + 1
      BY SegFinite
    <3>4. seq' = seq + Cardinality(S) /\ seq + Cardinality(S) <= SeqMax
      BY <1>1, <1>3, <2>1, <2>2, <3>3 DEF NumbersLeft
    <3>5. \A u \in Active' : u \in Active /\ tasks'[u].iv = tasks[u].iv
      <4>1. tasks' = [tasks EXCEPT ![t].tries = @ + 1]
        BY <2>1, <2>2
      <4>2. \A u \in Active : tasks[u] \in TaskState
        BY DEF NonceInv, TypeInv, TypeOK
      <4> QED
        BY <4>1, <4>2 DEF Active, TaskState
    <3>6. used' = used \cup Sent(S, tasks[t].iv, seq, tasks[t].msg) /\ iv' = iv
      BY <2>1, <2>2
    <3>7. NonceUnique'
      BY <1>1, <3>1, <3>2, <3>4, <3>6, SentUnique
    <3>8. Behind'
      BY <1>1, <3>1, <3>2, <3>4, <3>5, <3>6, SentBehind
    <3> QED
      BY <3>7, <3>8
  <2>3. CASE ~(seq >= tasks[t].auth)
    <3>1. Finished(t) /\ used' = used /\ seq' = seq + 1
      BY <1>3, <2>1, <2>3
    <3> QED
      BY <1>1, <1>8, <3>1
  <2> QED
    BY <2>2, <2>3
<1>10. ASSUME NEW t \in Task, Finish(t)
       PROVE  Behind' /\ NonceUnique'
  BY <1>1, <1>8, <1>10 DEF Finish
<1>11. CASE Tick
  <2>1. iv' = IvTick(iv, Busy) /\ used' = used /\ tasks' = tasks /\ Busy \in BOOLEAN
    BY <1>11 DEF Tick, Busy
  <2>2. seq' = seq \/ TickClears(iv, Busy)
    BY <1>11 DEF Tick, Cleared
  <2>3. seq' >= seq \/ (Active = {} /\ TxIndex(iv') > TxIndex(iv))
    <3>1. CASE TickClears(iv, Busy)
      BY <1>1, <2>1, <3>1, TickStep DEF Busy
    <3> QED
      BY <1>1, <2>2, <3>1
  <2>4. \A t \in Active' : t \in Active /\ tasks'[t].iv = tasks[t].iv
    BY <2>1 DEF Active
  <2> QED
    BY <1>1, <2>1, <2>3, <2>4, SilentStep
<1>12. ASSUME NEW i \in 0 .. MaxIndex, NEW u \in BOOLEAN, Hear(i, u)
       PROVE  Behind' /\ NonceUnique'
  <2>1. /\ iv' = IvUpdated(iv, i, u, Busy) /\ used' = used /\ tasks' = tasks
        /\ Busy \in BOOLEAN /\ i \in Nat /\ (~Busy \/ Distance(iv, i, u) <= 1)
    BY <1>12 DEF Hear, Busy
  <2>2. seq' = seq \/ UpdateClears(iv, i, u, Busy)
    BY <1>12 DEF Hear, Cleared
  <2>3. Distance(iv, i, u) \in Int
    BY <1>1, <2>1 DEF Distance, Phase, Sound, IvState
  <2>4. seq' >= seq \/ (Active = {} /\ TxIndex(iv') > TxIndex(iv))
    <3>1. CASE UpdateClears(iv, i, u, Busy)
      <4>1. TxIndex(iv') > TxIndex(iv) /\ (Busy => Distance(iv, i, u) > 1)
        BY <1>1, <2>1, <3>1, BeaconStep
      <4> QED
        BY <2>1, <2>3, <4>1 DEF Busy
    <3> QED
      BY <1>1, <2>2, <3>1
  <2>5. \A t \in Active' : t \in Active /\ tasks'[t].iv = tasks[t].iv
    BY <2>1 DEF Active
  <2> QED
    BY <1>1, <2>1, <2>4, <2>5, SilentStep
<1>13. CASE Lead \/ UNCHANGED vars
  <2>1. used' = used /\ seq' = seq /\ tasks' = tasks
    BY <1>13 DEF Lead, vars
  <2>2. \A t \in Active' : t \in Active /\ tasks'[t].iv = tasks[t].iv
    BY <2>1 DEF Active
  <2> QED
    BY <1>1, <2>1, <2>2, SilentStep
<1> QED
  BY <1>6, <1>7, <1>9, <1>10, <1>11, <1>12, <1>13 DEF Next

\* Two different network PDUs never go out under the same nonce, as long as
\* numbers are left (meshx_seq_use does not refuse) and no recovery of the
\* index comes while segmented messages are under way (meshx_iv_index_update
\* does not look for them then).
THEOREM NoncesUnique ==
  ASSUME ~BusyRecovery
  PROVE  Spec /\ []NumbersLeft => []NonceUnique
<1>1. Init => NonceInv
  BY TypeInit DEF Init, NonceInv, Behind, NonceUnique, Active
<1>2. NonceInv /\ NumbersLeft /\ [Next]_vars => NonceInv'
  BY NonceStep
<1>3. NonceInv => NonceUnique
  BY DEF NonceInv
<1> QED
  BY <1>1, <1>2, <1>3, PTL DEF Spec
=============================================================================
