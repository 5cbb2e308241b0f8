---------------------------- MODULE ReplayProofs ----------------------------
(***************************************************************************)
(* Proofs about Replay for any number of sources, any sizes of the two     *)
(* lists and any number of messages: the lists keep to their sizes, and    *)
(* what the replay list holds of a source keeps its older messages out.    *)
(***************************************************************************)
EXTENDS Replay, TLAPS

USE IvAssumption, SeenAssumption, ReplayAssumption
    DEF IvAssumption, SeenAssumption, ReplayAssumption

-----------------------------------------------------------------------------
(* Types *)

\* An index from which 1 is taken is not 0.
Sound(v) == v \in IvState /\ v.index <= MaxIndex /\ (v.updating => v.index >= 1)
EntryType == [src : Source, seq : Nat]
TypeInv == TypeOK /\ \A n \in Source \cup {Rx} : Sound(iv[n])

LEMMA BeaconType ==
  ASSUME NEW v, Sound(v), NEW i \in 0 .. MaxIndex, NEW u \in BOOLEAN, Distance(v, i, u) = 1
  PROVE  Sound(IvUpdated(v, i, u, FALSE))
<1>1. v \in IvState /\ v.index \in Nat /\ v.updating \in BOOLEAN /\ v.tick \in 0 .. TickMax /\ v.pending \in BOOLEAN
  BY DEF Sound, IvState
<1>2. CASE ~UpdateApplies(v, i, u)
  BY <1>2 DEF IvUpdated
<1> DEFINE w == [v EXCEPT !.index = i]
<1>3. w \in IvState /\ w.index = i /\ w.updating = v.updating
  BY <1>1 DEF IvState
<1>4. CASE UpdateApplies(v, i, u) /\ u
  <2>1. IvUpdated(v, i, u, FALSE) = [w EXCEPT !.updating = TRUE]
    BY <1>4 DEF IvUpdated
  <2>2. i >= 1
    BY <1>1, <1>4 DEF Distance, Phase
  <2> HIDE DEF w
  <2> DEFINE r == [w EXCEPT !.updating = TRUE]
  <2>3. r \in IvState /\ r.index = i
    BY <1>3 DEF IvState
  <2> HIDE DEF r
  <2>4. IvUpdated(v, i, u, FALSE) = r
    BY <2>1 DEF r
  <2>5. Sound(r)
    BY <2>2, <2>3 DEF Sound
  <2> QED
    BY <2>4, <2>5
<1>5. CASE UpdateApplies(v, i, u) /\ ~u
  <2>1. IvUpdated(v, i, u, FALSE) = NormalUnlessBusy(w, FALSE)
    BY <1>5 DEF IvUpdated
  <2> HIDE DEF w
  <2> DEFINE r == [w EXCEPT !.updating = FALSE, !.tick = 0]
  <2>2. NormalUnlessBusy(w, FALSE) = r
    BY DEF NormalUnlessBusy, ReturnToNormal
  <2>3. r \in IvState /\ r.index = i /\ r.updating = FALSE
    <3>1. FALSE \in BOOLEAN /\ 0 \in 0 .. TickMax
      OBVIOUS
    <3> QED
      BY <1>3, <3>1 DEF IvState
  <2> HIDE DEF r
  <2>4. IvUpdated(v, i, u, FALSE) = r
    BY <2>1, <2>2
  <2>5. Sound(r)
    BY <2>3 DEF Sound
  <2> QED
    BY <2>4, <2>5
<1> QED
  BY <1>2, <1>4, <1>5

\* The cache: a message takes the slot after the one written last.
LEMMA NmcType ==
  ASSUME NEW c, c.slots \in Seq(EntryType), Len(c.slots) <= NmcSize, c.at \in 0 .. NmcSize,
         NEW e \in EntryType
  PROVE  /\ NmcAdd(c, e).slots \in Seq(EntryType) /\ Len(NmcAdd(c, e).slots) <= NmcSize
         /\ NmcAdd(c, e).at \in 0 .. NmcSize
<1> DEFINE i == (IF c.at = NmcSize THEN 0 ELSE c.at) + 1
<1>1. i \in 1 .. NmcSize /\ DOMAIN c.slots = 1 .. Len(c.slots) /\ Len(c.slots) \in Nat
  OBVIOUS
<1>2. NmcAdd(c, e) =
        [slots |-> IF i \in DOMAIN c.slots THEN [c.slots EXCEPT ![i] = e] ELSE Append(c.slots, e),
         at |-> i]
  BY DEF NmcAdd
<1> HIDE DEF i
<1>3. CASE i \in DOMAIN c.slots
  BY <1>1, <1>2, <1>3
<1>4. CASE i \notin DOMAIN c.slots
  <2>1. Append(c.slots, e) \in Seq(EntryType) /\ Len(Append(c.slots, e)) = Len(c.slots) + 1
    OBVIOUS
  <2>2. Len(c.slots) < NmcSize
    BY <1>1, <1>4
  <2> QED
    BY <1>1, <1>2, <1>4, <2>1, <2>2
<1> QED
  BY <1>3, <1>4

LEMMA TypeInit == Init => TypeInv
<1> SUFFICES ASSUME Init PROVE TypeInv
  OBVIOUS
<1>1. IvInit(0) \in IvState /\ Sound(IvInit(0))
  BY DEF IvInit, IvState, Sound
<1>2. nmc.slots = <<>> /\ nmc.at = 0 /\ rpl = <<>> /\ got = <<>> /\ since = 0
  BY DEF Init, NmcInit, RplClear
<1>3. iv \in [Source \cup {Rx} -> IvState] /\ \A n \in Source \cup {Rx} : Sound(iv[n])
  BY <1>1 DEF Init
<1> QED
  BY <1>2, <1>3 DEF Init, TypeInv, TypeOK

LEMMA SendType ==
  ASSUME TypeInv, NEW s \in Source, Send(s)
  PROVE  TypeInv'
<1>1. Sound(iv[s]) /\ seq \in [Source -> 0 .. MaxSeq] /\ air \subseteq Message
  BY DEF TypeInv, TypeOK
<1>2. seq[s] < MaxSeq /\ seq' = [seq EXCEPT ![s] = @ + 1]
  BY DEF Send
<1>3. seq[s] \in 0 .. MaxSeq - 1
  BY <1>1, <1>2
<1>4. TxIndex(iv[s]) \in 0 .. MaxIndex
  BY <1>1 DEF Sound, IvState, TxIndex
<1>5. [src |-> s, seq |-> seq[s], iv |-> TxIndex(iv[s])] \in Message
  BY <1>3, <1>4 DEF Message
<1>6. seq' \in [Source -> 0 .. MaxSeq]
  BY <1>1, <1>2, <1>3
<1>7. air' \subseteq Message
  BY <1>1, <1>5 DEF Send
<1> QED
  BY <1>6, <1>7 DEF Send, TypeInv, TypeOK

LEMMA EntryIsTyped ==
  ASSUME NEW m \in Message
  PROVE  Entry(m) \in EntryType
BY DEF Entry, Message, EntryType

LEMMA RefuseType ==
  ASSUME TypeInv, NEW m, Refuse(m)
  PROVE  TypeInv'
<1>1. m \in Message /\ nmc' = NmcAdd(nmc, Entry(m)) /\ UNCHANGED <<iv, seq, air, rpl, got, since, lead>>
  BY DEF TypeInv, TypeOK, Refuse
<1>2. nmc'.slots \in Seq(EntryType) /\ Len(nmc'.slots) <= NmcSize /\ nmc'.at \in 0 .. NmcSize
  BY <1>1, EntryIsTyped, NmcType DEF TypeInv, TypeOK, EntryType
<1> QED
  BY <1>1, <1>2 DEF TypeInv, TypeOK, EntryType

\* An accepted message goes into the list as long as there is room.
LEMMA AcceptFields ==
  ASSUME TypeInv, NEW m, Accept(m)
  PROVE  /\ m \in Message /\ got' = Append(got, m) /\ RplPasses(rpl, m)
         /\ rpl \in Seq(Message) /\ got \in Seq(Message)
         /\ RplFull(rpl) => rpl' = rpl
         /\ ~RplFull(rpl) => rpl' = Append(rpl, m) /\ Len(rpl) < RplSize
<1>1. m \in Message /\ rpl \in Seq(Message) /\ got \in Seq(Message) /\ Len(rpl) <= RplSize
  BY DEF TypeInv, TypeOK, Accept
<1>2. PICK x \in RplUpdates(rpl, m) : x.ok /\ rpl' = x.rpl
  BY DEF Accept
<1>3. RplFull(rpl) => rpl' = rpl
  BY <1>2 DEF RplUpdates
<1>4. ~RplFull(rpl) => rpl' = Append(rpl, m) /\ Len(rpl) < RplSize
  BY <1>1, <1>2 DEF RplUpdates, RplFull
<1> QED
  BY <1>1, <1>3, <1>4 DEF Accept

LEMMA AcceptType ==
  ASSUME TypeInv, NEW m, Accept(m)
  PROVE  TypeInv'
<1>1. m \in Message /\ nmc' = NmcAdd(nmc, Entry(m)) /\ UNCHANGED <<iv, seq, air, since, lead>>
  BY DEF TypeInv, TypeOK, Accept
<1>2. nmc'.slots \in Seq(EntryType) /\ Len(nmc'.slots) <= NmcSize /\ nmc'.at \in 0 .. NmcSize
  BY <1>1, EntryIsTyped, NmcType DEF TypeInv, TypeOK, EntryType
<1>3. rpl' \in Seq(Message) /\ Len(rpl') <= RplSize
  <2>1. CASE RplFull(rpl)
    BY <2>1, AcceptFields DEF TypeInv, TypeOK
  <2>2. CASE ~RplFull(rpl)
    BY <2>2, AcceptFields, SMTT(30)
  <2> QED
    BY <2>1, <2>2
<1>4. got' \in Seq(Message) /\ since' \in 0 .. Len(got')
  <2>1. got' = Append(got, m) /\ got \in Seq(Message) /\ m \in Message /\ since \in 0 .. Len(got)
    BY AcceptFields DEF TypeInv, TypeOK
  <2>2. Len(got') = Len(got) + 1 /\ Len(got) \in Nat /\ got' \in Seq(Message)
    BY <2>1
  <2> QED
    BY <1>1, <2>1, <2>2
<1> QED
  BY <1>1, <1>2, <1>3, <1>4 DEF TypeInv, TypeOK, EntryType

LEMMA MoveType ==
  ASSUME TypeInv, NEW n \in Source \cup {Rx}, NEW v, Sound(v), NEW clears, Move(n, v, clears)
  PROVE  TypeInv'
<1>1. Sound(v)
  OBVIOUS
<1>2. iv' = [iv EXCEPT ![n] = v]
  BY DEF Move
<1>3. iv' \in [Source \cup {Rx} -> IvState] /\ \A k \in Source \cup {Rx} : Sound(iv'[k])
  <2>1. v \in IvState /\ iv \in [Source \cup {Rx} -> IvState]
    BY <1>1 DEF Sound, TypeInv, TypeOK
  <2>2. \A k \in Source \cup {Rx} : iv'[k] = IF k = n THEN v ELSE iv[k]
    BY <1>2, <2>1
  <2>3. ASSUME NEW k \in Source \cup {Rx} PROVE Sound(iv'[k])
    <3>1. CASE k = n
      BY <1>1, <2>2, <3>1
    <3>2. CASE k # n
      <4>1. iv'[k] = iv[k] /\ Sound(iv[k])
        BY <2>2, <3>2 DEF TypeInv
      <4> QED
        BY <4>1
    <3> QED
      BY <3>1, <3>2
  <2> QED
    BY <1>2, <2>1, <2>3
<1>4. seq' \in [Source -> 0 .. MaxSeq]
  <2>1. seq' = [s \in Source |-> IF s = n /\ clears THEN 0 ELSE seq[s]]
    BY DEF Move
  <2>2. \A s \in Source : seq[s] \in 0 .. MaxSeq /\ 0 \in 0 .. MaxSeq
    BY DEF TypeInv, TypeOK
  <2> QED
    BY <2>1, <2>2
<1>5. UNCHANGED <<air, nmc, got, lead>> /\ (rpl' = rpl \/ rpl' = <<>>) /\ (since' = since \/ since' = Len(got))
  BY DEF Move, RplClear
<1>6. rpl' \in Seq(Message) /\ Len(rpl') <= RplSize /\ since' \in 0 .. Len(got')
  <2>1. rpl \in Seq(Message) /\ Len(rpl) <= RplSize /\ got \in Seq(Message) /\ since \in 0 .. Len(got)
    BY DEF TypeInv, TypeOK
  <2>2. <<>> \in Seq(Message) /\ Len(<<>>) <= RplSize /\ Len(got) \in 0 .. Len(got)
    BY <2>1
  <2> QED
    BY <1>5, <2>1, <2>2
<1> QED
  BY <1>3, <1>4, <1>5, <1>6 DEF TypeInv, TypeOK

LEMMA HearType ==
  ASSUME TypeInv, NEW n \in Source \cup {Rx}, NEW i \in 0 .. MaxIndex, NEW u \in BOOLEAN, Hear(n, i, u)
  PROVE  TypeInv'
BY BeaconType, MoveType DEF TypeInv, Hear

LEMMA ExpireType ==
  ASSUME TypeInv, NEW n \in Source \cup {Rx}, Expire(n)
  PROVE  TypeInv'
<1> DEFINE v == IvTick(iv[n], FALSE)
<1>1. Sound(iv[n]) /\ UpdateExpires(iv[n]) /\ Move(n, v, TickClears(iv[n], FALSE))
  BY DEF TypeInv, Expire
<1>2. v = [Ticked(iv[n]) EXCEPT !.updating = FALSE, !.tick = 0]
  BY <1>1 DEF IvTick, NormalUnlessBusy, ReturnToNormal
<1>3. Ticked(iv[n]) = [iv[n] EXCEPT !.tick = IF @ < TickMax THEN @ + 1 ELSE @]
  BY DEF Ticked
<1> DEFINE w == Ticked(iv[n])
<1>4. w \in IvState /\ w.index = iv[n].index
  BY <1>1, <1>3 DEF Sound, IvState
<1> HIDE DEF v, w
<1>5. FALSE \in BOOLEAN /\ 0 \in 0 .. TickMax
  OBVIOUS
<1>6. v \in IvState /\ v.index = w.index /\ v.updating = FALSE
  BY <1>2, <1>4, <1>5 DEF IvState, w
<1>7. Sound(v)
  BY <1>1, <1>4, <1>6 DEF Sound
<1> QED
  BY <1>1, <1>7, MoveType DEF v

LEMMA LeadType ==
  ASSUME TypeInv, Lead
  PROVE  TypeInv'
<1>1. lead \in [index : 0 .. MaxIndex, updating : BOOLEAN]
  BY DEF TypeInv, TypeOK
<1>2. lead' \in [index : 0 .. MaxIndex, updating : BOOLEAN]
  <2>1. CASE lead.updating
    BY <1>1, <2>1 DEF Lead
  <2>2. CASE ~lead.updating
    <3>1. lead' = [index |-> lead.index + 1, updating |-> TRUE] /\ lead.index + 1 <= MaxIndex
      BY <2>2 DEF Lead
    <3> QED
      BY <1>1, <3>1
  <2> QED
    BY <2>1, <2>2
<1> QED
  BY <1>2 DEF Lead, TypeInv, TypeOK

LEMMA TypeStep ==
  ASSUME TypeInv, [Next]_vars
  PROVE  TypeInv'
<1>1. CASE UNCHANGED vars
  BY <1>1 DEF vars, TypeInv, TypeOK
<1>2. ASSUME NEW m \in air, Ignore(m) PROVE TypeInv'
  BY <1>2 DEF Ignore, vars, TypeInv, TypeOK
<1> QED
  BY <1>1, <1>2, SendType, RefuseType, AcceptType, HearType, ExpireType, LeadType DEF Next

\* The lists of the receiver keep to their sizes, and what is in them and in
\* the air is well formed (meshx_rpl_update, meshx_nmc_add, meshx_seq_use).
THEOREM TypeCorrectReplay == Spec => []TypeOK
<1>1. TypeInv /\ [Next]_vars => TypeInv'
  BY TypeStep
<1>2. TypeInv => TypeOK
  BY DEF TypeInv
<1> QED
  BY TypeInit, <1>1, <1>2, PTL DEF Spec

-----------------------------------------------------------------------------
(* What the list says of the messages that were accepted.                  *)

\* Of the messages accepted since the list was cleared: every source in the
\* list has a first entry, which is the message it was first accepted with; all
\* its others are newer; and a source that was heard while the list had room
\* is in it.
Kept == \A i \in Recent : RplFull(rpl) \/ Listed(got[i])
HasGuard == \A k \in DOMAIN rpl : \E g \in DOMAIN rpl : Guards(rpl, g) /\ rpl[g].src = rpl[k].src
Opened == \A k \in DOMAIN rpl : \E i \in Recent : got[i].src = rpl[k].src /\ First(Recent, i)
Newer(m, n) == m.seq > n.seq /\ m.iv >= n.iv
Guarded ==
  \A k \in DOMAIN rpl, i \in Recent :
    Guards(rpl, k) /\ got[i].src = rpl[k].src =>
      IF First(Recent, i) THEN got[i] = rpl[k] ELSE Newer(got[i], rpl[k])

ListInv == TypeInv /\ Kept /\ HasGuard /\ Opened /\ Guarded

\* A message accepted from a source in the list is not the first of it, and
\* is newer than the first entry.
LEMMA AcceptedLater ==
  ASSUME ListInv, NEW m, Accept(m), NEW k \in DOMAIN rpl, Guards(rpl, k), rpl[k].src = m.src
  PROVE  Newer(m, rpl[k]) /\ \E i \in Recent : got[i].src = m.src
<1>1. RplPasses(rpl, m)
  BY DEF Accept
<1>2. Newer(m, rpl[k])
  BY <1>1 DEF RplPasses, Newer
<1> QED
  BY <1>2 DEF ListInv, Opened

\* The first of its source when a step is over.
FirstThen(i) == \A h \in Recent' : got'[h].src = got'[i].src => i <= h

\* The messages accepted before m keep their places, m is the last.
LEMMA AcceptedLast ==
  ASSUME ListInv, NEW m, Accept(m)
  PROVE  /\ Recent' = Recent \cup {Len(got) + 1} /\ Len(got) + 1 \notin Recent
         /\ \A i \in Recent : got'[i] = got[i] /\ (FirstThen(i) <=> First(Recent, i))
         /\ got'[Len(got) + 1] = m
         /\ (FirstThen(Len(got) + 1) <=> \A i \in Recent : got[i].src # m.src)
<1>1. got \in Seq(Message) /\ m \in Message /\ got' = Append(got, m)
  BY AcceptFields DEF ListInv
<1> DEFINE n == Len(got)
<1>2. n \in Nat /\ Len(got') = n + 1 /\ (\A i \in 1 .. n : got'[i] = got[i]) /\ got'[n + 1] = m
  BY <1>1
<1>3. since \in 0 .. n /\ since' = since
  BY DEF ListInv, TypeInv, TypeOK, Accept
<1> HIDE DEF n
<1>4. Recent = since + 1 .. n /\ Recent' = since + 1 .. n + 1
  BY <1>2, <1>3 DEF Recent, n
<1>5. Recent' = Recent \cup {n + 1} /\ n + 1 \notin Recent /\ Recent \subseteq 1 .. n
  BY <1>2, <1>3, <1>4
<1>6. \A i \in Recent : got'[i] = got[i]
  BY <1>2, <1>5
<1>7. ASSUME NEW i \in Recent PROVE FirstThen(i) <=> First(Recent, i)
  <2>1. FirstThen(i) <=> \A h \in Recent \cup {n + 1} : got'[h].src = got[i].src => i <= h
    BY <1>5, <1>6 DEF FirstThen
  <2>2. i <= n + 1
    BY <1>2, <1>5
  <2> QED
    BY <1>6, <2>1, <2>2 DEF First
<1>8. FirstThen(n + 1) <=> \A i \in Recent : got[i].src # m.src
  <2>0. Recent' = Recent \cup {n + 1} /\ got'[n + 1] = m
    BY <1>2, <1>5
  <2>1. FirstThen(n + 1) <=> \A h \in Recent \cup {n + 1} : got'[h].src = m.src => n + 1 <= h
    BY <2>0, Zenon DEF FirstThen
  <2>2. \A h \in Recent : ~(n + 1 <= h)
    BY <1>2, <1>5
  <2>3. n + 1 <= n + 1
    BY <1>2
  <2> QED
    BY <1>2, <1>5, <1>6, <2>1, <2>2, <2>3
<1> QED
  BY <1>2, <1>5, <1>6, <1>7, <1>8 DEF n

LEMMA AcceptFull ==
  ASSUME ListInv, NEW m, Accept(m), RplFull(rpl)
  PROVE  (Kept /\ HasGuard /\ Opened /\ Guarded)'
<1>1. rpl' = rpl
  BY AcceptFields DEF ListInv
<1>2. Kept'
  BY <1>1 DEF Kept
<1>3. HasGuard'
  BY <1>1 DEF ListInv, HasGuard
<1>4. Opened'
  <2> SUFFICES ASSUME NEW k \in DOMAIN rpl PROVE \E i \in Recent' : got'[i].src = rpl[k].src /\ FirstThen(i)
    BY <1>1 DEF Opened, First, FirstThen
  <2>1. PICK i \in Recent : got[i].src = rpl[k].src /\ First(Recent, i)
    BY DEF ListInv, Opened
  <2> QED
    BY <2>1, AcceptedLast
<1>5. Guarded'
  <2> SUFFICES ASSUME NEW k \in DOMAIN rpl, NEW i \in Recent', Guards(rpl, k), got'[i].src = rpl[k].src
               PROVE  IF FirstThen(i) THEN got'[i] = rpl[k] ELSE Newer(got'[i], rpl[k])
    BY <1>1 DEF Guarded, Newer, First, FirstThen
  <2>1. CASE i \in Recent
    BY <2>1, AcceptedLast DEF ListInv, Guarded
  <2>2. CASE i \notin Recent
    <3>1. i = Len(got) + 1 /\ got'[i] = m
      BY <2>2, AcceptedLast
    <3>2. Newer(m, rpl[k]) /\ \E h \in Recent : got[h].src = m.src
      BY <3>1, AcceptedLater
    <3>3. ~FirstThen(i)
      BY <3>1, <3>2, AcceptedLast
    <3> QED
      BY <3>1, <3>2, <3>3
  <2> QED
    BY <2>1, <2>2
<1> QED
  BY <1>2, <1>3, <1>4, <1>5

LEMMA AcceptRoom ==
  ASSUME ListInv, NEW m, Accept(m), ~RplFull(rpl)
  PROVE  (Kept /\ HasGuard /\ Opened /\ Guarded)'
<1>1. rpl \in Seq(Message) /\ m \in Message /\ rpl' = Append(rpl, m)
  BY AcceptFields DEF ListInv
<1> DEFINE n == Len(rpl)
<1>2. DOMAIN rpl = 1 .. n /\ n \in Nat /\ DOMAIN rpl' = 1 .. n + 1
  BY <1>1
<1>3. (\A k \in 1 .. n : rpl'[k] = rpl[k]) /\ rpl'[n + 1] = m
  BY <1>1
<1> HIDE DEF n
<1>4. \A k \in 1 .. n : Guards(rpl', k) <=> Guards(rpl, k)
  BY <1>2, <1>3 DEF Guards
<1>5. Guards(rpl', n + 1) <=> \A k \in 1 .. n : rpl[k].src # m.src
  <2>1. 1 .. (n + 1) - 1 = 1 .. n
    BY <1>2
  <2> QED
    BY <1>3, <2>1 DEF Guards
<1>6. Kept'
  <2> SUFFICES ASSUME NEW i \in Recent' PROVE \E k \in DOMAIN rpl' : rpl'[k].src = got'[i].src
    BY DEF Kept, Listed
  <2>1. CASE i \in Recent
    <3>1. PICK k \in DOMAIN rpl : rpl[k].src = got[i].src
      BY <2>1 DEF ListInv, Kept, Listed
    <3> QED
      BY <1>2, <1>3, <2>1, <3>1, AcceptedLast
  <2>2. CASE i \notin Recent
    BY <1>2, <1>3, <2>2, AcceptedLast
  <2> QED
    BY <2>1, <2>2
<1>7. HasGuard'
  <2> SUFFICES ASSUME NEW k \in 1 .. n + 1
               PROVE  \E g \in 1 .. n + 1 : Guards(rpl', g) /\ rpl'[g].src = rpl'[k].src
    BY <1>2 DEF HasGuard
  <2>1. \A j \in 1 .. n : \E g \in 1 .. n : Guards(rpl', g) /\ rpl'[g].src = rpl[j].src
    BY <1>2, <1>3, <1>4 DEF ListInv, HasGuard
  <2>2. CASE \E j \in 1 .. n : rpl[j].src = rpl'[k].src
    BY <1>2, <2>1, <2>2
  <2>3. CASE ~\E j \in 1 .. n : rpl[j].src = rpl'[k].src
    <3>1. k = n + 1
      BY <1>2, <1>3, <2>3
    <3> QED
      BY <1>3, <1>5, <2>3, <3>1
  <2> QED
    BY <2>2, <2>3
<1>8. Opened'
  <2> SUFFICES ASSUME NEW k \in 1 .. n + 1
               PROVE  \E i \in Recent' : got'[i].src = rpl'[k].src /\ FirstThen(i)
    BY <1>2 DEF Opened, First, FirstThen
  <2>1. ASSUME NEW j \in 1 .. n PROVE \E i \in Recent' : got'[i].src = rpl[j].src /\ FirstThen(i)
    <3>1. PICK i \in Recent : got[i].src = rpl[j].src /\ First(Recent, i)
      BY <1>2, <2>1 DEF ListInv, Opened
    <3> QED
      BY <3>1, AcceptedLast
  <2>2. CASE \E j \in 1 .. n : rpl[j].src = rpl'[k].src
    BY <2>1, <2>2
  <2>3. CASE ~\E j \in 1 .. n : rpl[j].src = rpl'[k].src
    <3>1. rpl'[k] = m
      BY <1>2, <1>3, <2>3
    <3>2. \A h \in Recent : got[h].src # m.src
      BY <1>2, <2>3, <3>1 DEF ListInv, Kept, Listed
    <3>3. FirstThen(Len(got) + 1) /\ Len(got) + 1 \in Recent' /\ got'[Len(got) + 1] = m
      BY <3>2, AcceptedLast
    <3> QED
      BY <3>1, <3>3
  <2> QED
    BY <2>2, <2>3
<1>9. Guarded'
  <2> SUFFICES ASSUME NEW k \in 1 .. n + 1, NEW i \in Recent', Guards(rpl', k), got'[i].src = rpl'[k].src
               PROVE  IF FirstThen(i) THEN got'[i] = rpl'[k] ELSE Newer(got'[i], rpl'[k])
    BY <1>2 DEF Guarded, Newer, First, FirstThen
  <2>1. CASE k \in 1 .. n
    <3>1. Guards(rpl, k) /\ rpl'[k] = rpl[k] /\ k \in DOMAIN rpl
      BY <1>2, <1>3, <1>4, <2>1
    <3>2. CASE i \in Recent
      BY <3>1, <3>2, AcceptedLast DEF ListInv, Guarded
    <3>3. CASE i \notin Recent
      <4>1. i = Len(got) + 1 /\ got'[i] = m
        BY <3>3, AcceptedLast
      <4>2. Newer(m, rpl[k]) /\ \E h \in Recent : got[h].src = m.src
        BY <3>1, <4>1, AcceptedLater
      <4>3. ~FirstThen(i)
        BY <4>1, <4>2, AcceptedLast
      <4> QED
        BY <3>1, <4>1, <4>2, <4>3
    <3> QED
      BY <3>2, <3>3
  <2>2. CASE k = n + 1
    <3>1. rpl'[k] = m /\ \A j \in DOMAIN rpl : rpl[j].src # m.src
      BY <1>2, <1>3, <1>5, <2>2
    <3>2. \A h \in Recent : got[h].src # m.src
      BY <3>1 DEF ListInv, Kept, Listed
    <3>3. i \notin Recent
      BY <3>1, <3>2, AcceptedLast
    <3>4. i = Len(got) + 1 /\ got'[i] = m /\ FirstThen(i)
      BY <3>2, <3>3, AcceptedLast
    <3> QED
      BY <3>1, <3>4
  <2> QED
    BY <1>2, <2>1, <2>2
<1> QED
  BY <1>6, <1>7, <1>8, <1>9

LEMMA ListInit == Init => ListInv
<1> SUFFICES ASSUME Init PROVE ListInv
  OBVIOUS
<1>1. rpl = <<>> /\ DOMAIN rpl = {} /\ Recent = {}
  BY DEF Init, RplClear, Recent
<1> QED
  BY <1>1, TypeInit DEF ListInv, Kept, HasGuard, Opened, Guarded

\* The list starts empty again when the index moves on, and so does what was
\* accepted since; nothing else touches them.
LEMMA ListStep ==
  ASSUME ListInv, [Next]_vars
  PROVE  ListInv'
<1>1. TypeInv'
  BY TypeStep DEF ListInv
<1>2. CASE UNCHANGED <<rpl, got, since>>
  <2>1. Recent' = Recent
    BY <1>2 DEF Recent
  <2> QED
    BY <1>1, <1>2, <2>1 DEF ListInv, Kept, Listed, HasGuard, Opened, Guarded, First
<1>3. CASE rpl' = <<>> /\ got' = got /\ since' = Len(got)
  <2>1. DOMAIN rpl' = {}
    BY <1>3
  <2>2. Recent' = {}
    <3>1. Len(got) \in Nat /\ Recent' = Len(got) + 1 .. Len(got)
      BY <1>3 DEF Recent, ListInv, TypeInv, TypeOK
    <3> QED
      BY <3>1
  <2> QED
    BY <1>1, <2>1, <2>2 DEF ListInv, Kept, HasGuard, Opened, Guarded
<1>4. ASSUME NEW m \in air, Accept(m) PROVE ListInv'
  BY <1>1, <1>4, AcceptFull, AcceptRoom DEF ListInv
<1>5. ASSUME NEW n, NEW v, NEW clears, Move(n, v, clears)
      PROVE  UNCHANGED <<rpl, got, since>> \/ (rpl' = <<>> /\ got' = got /\ since' = Len(got))
  BY <1>5 DEF Move, RplClear
<1>6. ASSUME NEW n, NEW i, NEW u, Hear(n, i, u) \/ Expire(n) PROVE ListInv'
  BY <1>2, <1>3, <1>5, <1>6 DEF Hear, Expire
<1> QED
  BY <1>2, <1>4, <1>6 DEF Next, vars, Send, Ignore, Refuse, Lead

\* Between two clearings of the replay list, what was accepted first from a
\* source in it is not accepted again, nor anything sent before it, whatever
\* copies come late and whatever beacons come (meshx_rpl_check,
\* meshx_rpl_update).  After a clearing it is: FirstStandsForEver.
THEOREM FirstMessageStands == Spec => []FirstStands
<1>1. ListInv /\ [Next]_vars => ListInv'
  BY ListStep
<1>2. ListInv => FirstStands
  <2> SUFFICES ASSUME ListInv, NEW i \in Recent, NEW j \in Recent,
                      i < j, got[i].src = got[j].src, First(Recent, i), Listed(got[i])
               PROVE  got[i].seq < got[j].seq /\ got[i].iv <= got[j].iv
    BY DEF FirstStands, FirstStandsIn
  <2>1. Recent \subseteq DOMAIN got /\ DOMAIN got \subseteq Int /\ \A h \in DOMAIN got : got[h] \in Message
    BY DEF ListInv, TypeInv, TypeOK, Recent
  <2>2. PICK k \in DOMAIN rpl : Guards(rpl, k) /\ rpl[k].src = got[i].src
    BY DEF Listed, ListInv, HasGuard
  <2>3. ~First(Recent, j)
    BY <2>1 DEF First
  <2>4. got[i] = rpl[k] /\ Newer(got[j], rpl[k])
    BY <2>2, <2>3 DEF ListInv, Guarded
  <2> QED
    BY <2>1, <2>4 DEF Newer, Message
<1> QED
  BY ListInit, <1>1, <1>2, PTL DEF Spec

\* The entry that refuses a message is the first one accepted from its source
\* since the list was cleared, and is not older (meshx_rpl_check).
LEMMA RefusedForOne ==
  ASSUME ListInv, NEW m \in air, Refuse(m), ~RplFull(rpl), ~Restarted(m)
  PROVE  RefusedForOlder(m)
<1>1. ~RplPasses(rpl, m)
  BY DEF Refuse, RplUpdates
<1>2. PICK k \in DOMAIN rpl : rpl[k].src = m.src /\ Guards(rpl, k) /\ ~Newer(m, rpl[k])
  BY <1>1 DEF RplPasses, Newer
<1>3. PICK i \in Recent : got[i].src = rpl[k].src /\ First(Recent, i)
  BY DEF ListInv, Opened
<1>4. got[i] = rpl[k]
  BY <1>2, <1>3 DEF ListInv, Guarded
<1>5. m \in Message /\ rpl[k] \in Message
  BY DEF ListInv, TypeInv, TypeOK
<1>6. m.seq \in Int /\ m.iv \in Int /\ got[i].seq \in Int /\ got[i].iv \in Int
  BY <1>4, <1>5 DEF Message
<1>7. ~(got[i].iv < m.iv /\ got[i].seq >= m.seq)
  BY <1>2, <1>3 DEF Restarted
<1>8. ~Follows(m, got[i])
  BY <1>2, <1>4, <1>6, <1>7 DEF Newer, Follows
<1> QED
  BY <1>2, <1>3, <1>8 DEF RefusedForOlder

\* A message that follows the first one accepted from its source since the
\* list was cleared is let in as long as the list has room, whatever the other
\* sources sent, unless its source has gone on to a new index and its numbers
\* have not come as far as they were (Restarted; FreshByIndex).
THEOREM FreshMessageAccepted == Spec => FreshAccepted
<1>1. ListInv /\ [Next]_vars => ListInv'
  BY ListStep
<1>2. ListInv /\ [Next]_vars =>
        [\A m \in air : Refuse(m) /\ ~RplFull(rpl) /\ ~Restarted(m) => RefusedForOlder(m)]_vars
  BY RefusedForOne
<1> QED
  BY ListInit, <1>1, <1>2, PTL DEF Spec, FreshAccepted
=============================================================================
