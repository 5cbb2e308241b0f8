-------------------------- MODULE KeyCallsProofs --------------------------
(***************************************************************************)
(* Proofs about KeyCalls for any indices, list sizes and values: the lists *)
(* keep their form, an application key is in an update only along with the *)
(* network key it is bound to, and a primary address finds its own key.    *)
(***************************************************************************)
EXTENDS KeyCalls, SequenceTheorems, TLAPS

\* An identifier is a number (a NID or an AID).
LabelType == \A v \in Value : Label(v) \in Nat

\* A key that can be used: what it sends with is a value.
SoundKey == {k \in Key : k.key[0] \in Value /\ (k.state # "normal" => k.key[1] \in Value)}

-----------------------------------------------------------------------------
(* What the operators of KeyStore keep of a key, for any values. *)

\* What storing a value leaves: d is the value an identifier is derived from.
LEMMA WithValueFields ==
  ASSUME LabelType, NEW k \in Key, NEW v \in Value, NEW d \in 0 .. 1, d = 0 => k.key[0] \in Value
  PROVE  LET r == WithValue(k, v, d)
         IN /\ r \in Key /\ r.state = "phase1"
            /\ r.key[0] = k.key[0] /\ r.key[1] = v
            /\ r.label[d] = Label(IF d = 1 THEN v ELSE k.key[0])
            /\ r.label[1 - d] = k.label[1 - d]
<1> DEFINE f == [k.key EXCEPT ![1] = v]
           h == [k.label EXCEPT ![d] = Label(f[d])]
<1>1. k.key \in [0 .. 1 -> Value \cup {Blank}] /\ k.label \in [0 .. 1 -> Nat]
  BY DEF Key
<1>2. f \in [0 .. 1 -> Value \cup {Blank}] /\ f[1] = v /\ f[0] = k.key[0]
  BY <1>1
<1>3. f[d] = (IF d = 1 THEN v ELSE k.key[0]) /\ f[d] \in Value
  BY <1>2
<1>4. h \in [0 .. 1 -> Nat] /\ h[d] = Label(f[d]) /\ h[1 - d] = k.label[1 - d]
  <2>1. Label(f[d]) \in Nat /\ 1 - d # d /\ 1 - d \in 0 .. 1
    BY <1>3 DEF LabelType
  <2> HIDE DEF f
  <2> QED
    BY <1>1, <2>1
<1>5. WithValue(k, v, d) = [state |-> "phase1", key |-> f, label |-> h]
  BY DEF WithValue
<1> HIDE DEF f, h
<1>6. "phase1" \in State
  BY DEF State
<1>7. WithValue(k, v, d) \in Key
  BY <1>2, <1>4, <1>5, <1>6 DEF Key
<1> QED
  BY <1>2, <1>3, <1>4, <1>5, <1>7

LEMMA AddedType ==
  ASSUME LabelType, NEW v \in Value, NEW j \in Nat
  PROVE  Added(v, j) \in SoundKey /\ Added(v, j).state = "normal"
BY DEF LabelType, Added, SoundKey, Key, State

LEMMA NetUpdateType ==
  ASSUME LabelType, NEW k \in SoundKey, NEW v \in Value
  PROVE  /\ NetUpdate(k, v) \in SoundKey
         /\ NetUpdate(k, v).state = IF k.state = "normal" THEN "phase1" ELSE k.state
<1>1. CASE k.state = "normal"
  <2> DEFINE r == WithValue(k, v, 1)
  <2>1. NetUpdate(k, v) = r
    BY <1>1 DEF NetUpdate, DeriveNet
  <2>2. r \in Key /\ r.state = "phase1" /\ r.key[0] = k.key[0] /\ r.key[1] = v
    BY WithValueFields DEF SoundKey
  <2> HIDE DEF r
  <2> QED
    BY <1>1, <2>1, <2>2 DEF SoundKey
<1>2. CASE k.state # "normal"
  BY <1>2 DEF NetUpdate
<1> QED
  BY <1>1, <1>2

LEMMA NetHeardType ==
  ASSUME NEW k \in SoundKey, NEW v, NEW refresh, Ordered(k, v, refresh) # "none"
  PROVE  /\ NetHeard(k, v, refresh) \in SoundKey
         /\ NetHeard(k, v, refresh).state = Ordered(k, v, refresh)
         /\ k.state # "normal"
<1> DEFINE s == Ordered(k, v, refresh)
           r == NetHeard(k, v, refresh)
           f == [k.key EXCEPT ![0] = k.key[1]]
           h == [k.label EXCEPT ![0] = k.label[1]]
<1>1. k.state # "normal"
  BY DEF Ordered, Fits, Held
<1>2. s \in {"phase2", "normal"}
  BY DEF Ordered
<1>3. k \in Key /\ k.key \in [0 .. 1 -> Value \cup {Blank}] /\ k.label \in [0 .. 1 -> Nat]
      /\ k.key[0] \in Value /\ k.key[1] \in Value
  BY <1>1 DEF SoundKey, Key
<1>4. CASE s = "phase2"
  <2>1. r = [k EXCEPT !.state = "phase2"]
    BY <1>4 DEF NetHeard
  <2> HIDE DEF r
  <2>2. r \in Key /\ r.state = "phase2" /\ r.key = k.key
    BY <1>3, <2>1 DEF Key, State
  <2> QED
    BY <1>1, <1>3, <1>4, <2>2 DEF SoundKey, r
<1>5. CASE s = "normal"
  <2>1. r = [state |-> "normal", key |-> f, label |-> h]
    BY <1>5 DEF NetHeard
  <2>2. f \in [0 .. 1 -> Value \cup {Blank}] /\ h \in [0 .. 1 -> Nat] /\ f[0] \in Value
    BY <1>3
  <2>3. "normal" \in State
    BY DEF State
  <2> HIDE DEF f, h, r
  <2> QED
    BY <1>1, <1>5, <2>1, <2>2, <2>3 DEF SoundKey, Key, r
<1> QED
  BY <1>2, <1>4, <1>5

LEMMA AppUpdateType ==
  ASSUME LabelType, NEW k \in SoundKey, NEW s, NEW v \in Value
  PROVE  /\ AppUpdate(k, s, v) \in SoundKey
         /\ AppUpdate(k, s, v).state = IF s = "phase1" THEN "phase1" ELSE k.state
<1>1. CASE s = "phase1" /\ k.state # "phase1"
  <2> DEFINE r == WithValue(k, v, 0)
  <2>1. AppUpdate(k, s, v) = r
    BY <1>1 DEF AppUpdate, DeriveApp
  <2>2. r \in Key /\ r.state = "phase1" /\ r.key[0] = k.key[0] /\ r.key[1] = v
    BY WithValueFields DEF SoundKey
  <2> HIDE DEF r
  <2> QED
    BY <1>1, <2>1, <2>2 DEF SoundKey
<1>2. CASE ~(s = "phase1" /\ k.state # "phase1")
  BY <1>2 DEF AppUpdate
<1> QED
  BY <1>1, <1>2

LEMMA AppHeardType ==
  ASSUME NEW k \in SoundKey, NEW o, NEW v, NEW refresh
  PROVE  /\ AppHeard(k, o, v, refresh) \in SoundKey
         /\ AppHeard(k, o, v, refresh).state =
              IF Ordered(o, v, refresh) = "none" \/ k.state = "normal" THEN k.state
              ELSE Ordered(o, v, refresh)
<1> DEFINE s == Ordered(o, v, refresh)
<1>1. CASE s # "none" /\ k.state # "normal" /\ s \in State
  <2> DEFINE r == [k EXCEPT !.state = s]
  <2>1. AppHeard(k, o, v, refresh) = r
    BY <1>1 DEF AppHeard, AppTransit
  <2>2. r \in SoundKey /\ r.state = s
    <3> HIDE DEF s
    <3> QED
      BY <1>1 DEF SoundKey, Key
  <2> HIDE DEF r
  <2> QED
    BY <1>1, <2>1, <2>2
<1>2. CASE ~(s # "none" /\ k.state # "normal")
  BY <1>2 DEF AppHeard, AppTransit
<1>3. s = "none" \/ s \in State
  BY DEF Ordered, State
<1> QED
  BY <1>1, <1>2, <1>3

-----------------------------------------------------------------------------
(* The lists *)

USE KeyCallsAssumption DEF KeyCallsAssumption


NetEntry == [index : NetIndex, k : SoundKey]
AppEntry == [index : AppIndex, bind : NetIndex \cup {Freed}, asked : NetIndex, k : SoundKey]
DevEntry == [first : Address, count : Elements]

Unique(list) == \A p, q \in DOMAIN list : list[p].index = list[q].index => p = q

\* The lists keep their form ...
Lists ==
  /\ nets \in Seq(NetEntry) /\ Len(nets) <= NetMax /\ Unique(nets)
  /\ apps \in Seq(AppEntry) /\ Len(apps) <= AppMax /\ Unique(apps)
  /\ devs \in Seq(DevEntry) /\ Len(devs) <= DevMax

\* ... a pointer leads to a network key or is known to dangle ...
Bound ==
  \A p \in DOMAIN apps :
    apps[p].bind = Freed \/ \E q \in DOMAIN nets : nets[q].index = apps[p].bind

\* ... and whichever network key it leads to is in the same phase.
Follows ==
  \A p \in DOMAIN apps, q \in DOMAIN nets :
    nets[q].index = apps[p].bind /\ apps[p].k.state # "normal" => apps[p].k.state = nets[q].k.state

KeyInv == Lists /\ Bound /\ Follows

\* A list whose elements are replaced in place.
LEMMA ReplaceList ==
  ASSUME NEW S, NEW n \in Nat, NEW f \in [1 .. n -> S]
  PROVE  f \in Seq(S) /\ Len(f) = n
<1>1. f \in Seq(S)
  OBVIOUS
<1> QED
  BY <1>1

\* A removal: the elements after k move up by one place.
LEMMA RemoveAtList ==
  ASSUME NEW S, NEW s \in Seq(S), NEW k \in 1 .. Len(s)
  PROVE  /\ RemoveAt(s, k) \in Seq(S) /\ Len(RemoveAt(s, k)) = Len(s) - 1
         /\ \A j \in 1 .. Len(s) - 1 : RemoveAt(s, k)[j] = IF j < k THEN s[j] ELSE s[j + 1]
<1> DEFINE a == SubSeq(s, 1, k - 1)
           b == SubSeq(s, k + 1, Len(s))
<1>1. /\ a \in Seq(S) /\ Len(a) = k - 1 /\ \A j \in 1 .. k - 1 : a[j] = s[j]
      /\ b \in Seq(S) /\ Len(b) = Len(s) - k /\ \A j \in 1 .. Len(s) - k : b[j] = s[k + j]
  BY SubSeqProperties
<1> HIDE DEF a, b
<1>2. RemoveAt(s, k) = a \o b
  BY DEF RemoveAt, a, b
<1>3. /\ a \o b \in Seq(S) /\ Len(a \o b) = Len(s) - 1
      /\ \A j \in 1 .. Len(s) - 1 : (a \o b)[j] = IF j < k THEN a[j] ELSE b[j - (k - 1)]
  BY <1>1, ConcatProperties
<1>4. \A j \in k .. Len(s) - 1 : b[j - (k - 1)] = s[j + 1]
  BY <1>1
<1> QED
  BY <1>1, <1>2, <1>3, <1>4

\* An index that is in a list is found.
LEMMA AtIndex ==
  ASSUME NEW list, NEW i \in Indices(list)
  PROVE  At(list, i) \in DOMAIN list /\ list[At(list, i)].index = i
BY DEF Indices, At

\* Network keys of which one is replaced in place.
LEMMA ReplaceNet ==
  ASSUME Lists, NEW q \in DOMAIN nets, NEW e \in NetEntry, e.index = nets[q].index,
         nets' = [nets EXCEPT ![q] = e]
  PROVE  /\ nets' \in Seq(NetEntry) /\ Len(nets') = Len(nets) /\ DOMAIN nets' = DOMAIN nets /\ Unique(nets')
         /\ \A p \in DOMAIN nets : nets'[p].index = nets[p].index
         /\ nets'[q] = e /\ \A p \in DOMAIN nets : p # q => nets'[p] = nets[p]
<1>1. DOMAIN nets = 1 .. Len(nets) /\ Len(nets) \in Nat /\ \A p \in DOMAIN nets : nets[p] \in NetEntry
  BY DEF Lists
<1>2. DOMAIN nets' = DOMAIN nets /\ nets'[q] = e /\ \A p \in DOMAIN nets : p # q => nets'[p] = nets[p]
  BY <1>1
<1>3. nets' \in [1 .. Len(nets) -> NetEntry]
  BY <1>1
<1>4. nets' \in Seq(NetEntry) /\ Len(nets') = Len(nets)
  BY <1>1, <1>3, ReplaceList
<1>5. \A p \in DOMAIN nets : nets'[p].index = nets[p].index
  BY <1>2
<1>6. Unique(nets')
  BY <1>2, <1>5 DEF Unique, Lists
<1> QED
  BY <1>2, <1>4, <1>5, <1>6

\* Application keys that are replaced in place.
LEMMA ReplaceApps ==
  ASSUME Lists, NEW f \in [DOMAIN apps -> AppEntry], \A p \in DOMAIN apps : f[p].index = apps[p].index
  PROVE  f \in Seq(AppEntry) /\ Len(f) = Len(apps) /\ Unique(f)
<1>1. DOMAIN apps = 1 .. Len(apps) /\ Len(apps) \in Nat
  BY DEF Lists
<1>2. f \in Seq(AppEntry) /\ Len(f) = Len(apps)
  BY <1>1, ReplaceList
<1> QED
  BY <1>2 DEF Lists, Unique

-----------------------------------------------------------------------------
(* The calls. *)

LEMMA AddNetStep ==
  ASSUME LabelType, KeyInv, NEW i \in NetIndex, NEW v \in Value, AddNet(i, v)
  PROVE  KeyInv'
<1> DEFINE e == [index |-> i, k |-> Added(v, 0)]
<1>1. i \notin Indices(nets) /\ Len(nets) < NetMax /\ nets' = Append(nets, e) /\ UNCHANGED <<apps, devs>>
  BY DEF AddNet, Free
<1>2. e \in NetEntry /\ e.index = i
  BY AddedType DEF NetEntry
<1> HIDE DEF e
<1>3. nets \in Seq(NetEntry) /\ Len(nets) \in Nat /\ DOMAIN nets = 1 .. Len(nets)
  BY DEF KeyInv, Lists
<1>4. /\ nets' \in Seq(NetEntry) /\ Len(nets') = Len(nets) + 1 /\ DOMAIN nets' = 1 .. Len(nets) + 1
      /\ \A q \in DOMAIN nets : nets'[q] = nets[q]
      /\ nets'[Len(nets) + 1] = e
  BY <1>1, <1>2, <1>3
<1>5. \A q \in DOMAIN nets : nets[q].index # i
  BY <1>1 DEF Indices
<1>6. Lists'
  <2>1. Unique(nets')
    BY <1>2, <1>3, <1>4, <1>5 DEF KeyInv, Lists, Unique
  <2> QED
    BY <1>1, <1>3, <1>4, <2>1 DEF KeyInv, Lists
<1>7. Bound'
  BY <1>1, <1>3, <1>4 DEF KeyInv, Bound
<1>8. Follows'
  <2>1. \A p \in DOMAIN apps : apps[p].bind # i
    BY <1>5 DEF KeyInv, Bound
  <2> QED
    BY <1>1, <1>2, <1>3, <1>4, <2>1 DEF KeyInv, Follows
<1> QED
  BY <1>6, <1>7, <1>8 DEF KeyInv

LEMMA UpdateNetStep ==
  ASSUME LabelType, KeyInv, NEW i \in NetIndex, NEW v \in Value, UpdateNet(i, v)
  PROVE  KeyInv'
<1> DEFINE q == At(nets, i)
           k == NetUpdate(nets[q].k, v)
<1>1. nets' = [nets EXCEPT ![q].k = k] /\ UNCHANGED <<apps, devs>> /\ q \in DOMAIN nets
  BY AtIndex DEF UpdateNet
<1>2. nets \in Seq(NetEntry) /\ Unique(nets) /\ nets[q].k \in SoundKey
  <2>1. nets \in Seq(NetEntry) /\ Unique(nets)
    BY DEF KeyInv, Lists
  <2> HIDE DEF q
  <2>2. nets[q] \in NetEntry
    BY <1>1, <2>1
  <2> QED
    BY <2>1, <2>2 DEF NetEntry
<1>3. k \in SoundKey /\ k.state = IF nets[q].k.state = "normal" THEN "phase1" ELSE nets[q].k.state
  BY <1>2, NetUpdateType
<1> HIDE DEF k, q
<1>4. /\ nets' \in Seq(NetEntry) /\ Len(nets') = Len(nets) /\ DOMAIN nets' = DOMAIN nets /\ Unique(nets')
      /\ \A p \in DOMAIN nets : nets'[p].index = nets[p].index
      /\ nets'[q].k = k /\ \A p \in DOMAIN nets : p # q => nets'[p] = nets[p]
  <2> DEFINE e == [nets[q] EXCEPT !.k = k]
  <2>1. nets[q] \in NetEntry
    BY <1>1 DEF KeyInv, Lists
  <2>2. e \in NetEntry /\ e.index = nets[q].index /\ e.k = k
    BY <1>3, <2>1 DEF NetEntry
  <2>3. nets' = [nets EXCEPT ![q] = e]
    BY <1>1
  <2> HIDE DEF e
  <2> QED
    BY <1>1, <2>2, <2>3, ReplaceNet DEF KeyInv
<1>5. Lists'
  BY <1>1, <1>4 DEF KeyInv, Lists
<1>6. Bound'
  BY <1>1, <1>4 DEF KeyInv, Bound
<1>7. Follows'
  BY <1>1, <1>3, <1>4 DEF KeyInv, Follows
<1> QED
  BY <1>5, <1>6, <1>7 DEF KeyInv

LEMMA DeleteNetStep ==
  ASSUME KeyInv, NEW i \in NetIndex, DeleteNet(i)
  PROVE  KeyInv'
<1> DEFINE d == At(nets, i)
<1>1. /\ nets' = RemoveAt(nets, d) /\ devs' = devs /\ d \in DOMAIN nets /\ nets[d].index = i
      /\ apps' = [p \in DOMAIN apps |-> IF apps[p].bind = i THEN [apps[p] EXCEPT !.bind = Freed] ELSE apps[p]]
  BY AtIndex DEF DeleteNet
<1>2. /\ nets \in Seq(NetEntry) /\ Len(nets) \in Nat /\ DOMAIN nets = 1 .. Len(nets)
      /\ Unique(nets) /\ Len(nets) <= NetMax /\ devs \in Seq(DevEntry) /\ Len(devs) <= DevMax
      /\ Len(apps) <= AppMax
      /\ \A p \in DOMAIN apps : apps[p] \in AppEntry
  BY DEF KeyInv, Lists
<1> HIDE DEF d
<1>3. /\ nets' \in Seq(NetEntry) /\ Len(nets') = Len(nets) - 1
      /\ \A j \in 1 .. Len(nets) - 1 : nets'[j] = IF j < d THEN nets[j] ELSE nets[j + 1]
  BY <1>1, <1>2, RemoveAtList
<1>4. DOMAIN nets' = 1 .. Len(nets) - 1
  BY <1>2, <1>3
<1>5. \A j \in DOMAIN nets' : \E l \in DOMAIN nets : l # d /\ nets'[j] = nets[l] /\ l = IF j < d THEN j ELSE j + 1
  BY <1>1, <1>2, <1>3, <1>4
<1>6. \A l \in DOMAIN nets : l # d => \E j \in DOMAIN nets' : nets'[j] = nets[l]
  <2> SUFFICES ASSUME NEW l \in DOMAIN nets, l # d PROVE \E j \in DOMAIN nets' : nets'[j] = nets[l]
    OBVIOUS
  <2>1. CASE l < d
    <3>1. l \in DOMAIN nets' /\ nets'[l] = nets[l]
      BY <1>1, <1>2, <1>3, <1>4, <2>1
    <3> QED
      BY <3>1
  <2>2. CASE l > d
    <3>1. l - 1 \in DOMAIN nets' /\ nets'[l - 1] = nets[l]
      BY <1>1, <1>2, <1>3, <1>4, <2>2
    <3> QED
      BY <3>1
  <2> QED
    BY <1>1, <1>2, <2>1, <2>2
<1>7. \A p \in DOMAIN apps :
        /\ apps'[p] \in AppEntry /\ apps'[p].index = apps[p].index /\ apps'[p].k = apps[p].k
        /\ apps'[p].bind = IF apps[p].bind = i THEN Freed ELSE apps[p].bind
  BY <1>1, <1>2 DEF AppEntry
<1>8. DOMAIN apps' = DOMAIN apps /\ apps' \in [DOMAIN apps -> AppEntry]
  BY <1>1, <1>7
<1>9. Lists'
  <2>1. Unique(nets')
    BY <1>1, <1>2, <1>4, <1>5, SMTT(30) DEF Unique
  <2>2. apps' \in Seq(AppEntry) /\ Len(apps') = Len(apps) /\ Unique(apps')
    BY <1>7, <1>8, ReplaceApps DEF KeyInv
  <2> QED
    BY <1>1, <1>2, <1>3, <2>1, <2>2 DEF Lists
<1>10. \A l \in DOMAIN nets : nets[l].index = i => l = d
  BY <1>1, <1>2 DEF Unique
<1>11. Bound'
  <2> SUFFICES ASSUME NEW p \in DOMAIN apps, apps'[p].bind # Freed
               PROVE  \E j \in DOMAIN nets' : nets'[j].index = apps'[p].bind
    BY <1>8 DEF Bound
  <2>1. apps[p].bind # i /\ apps'[p].bind = apps[p].bind
    BY <1>7
  <2>2. PICK l \in DOMAIN nets : nets[l].index = apps[p].bind
    BY <2>1 DEF KeyInv, Bound
  <2>3. l # d
    BY <1>1, <2>1, <2>2
  <2> QED
    BY <1>6, <2>1, <2>2, <2>3
<1>12. Follows'
  <2> SUFFICES ASSUME NEW p \in DOMAIN apps, NEW j \in DOMAIN nets',
                      nets'[j].index = apps'[p].bind, apps'[p].k.state # "normal"
               PROVE  apps'[p].k.state = nets'[j].k.state
    BY <1>8 DEF Follows
  <2>1. PICK l \in DOMAIN nets : l # d /\ nets'[j] = nets[l]
    BY <1>5
  <2>2. nets[l].index \in NetIndex
    <3>1. nets[l] \in NetEntry
      BY <1>2, <2>1
    <3> QED
      BY <3>1 DEF NetEntry
  <2>3. apps'[p].bind = apps[p].bind
    BY <1>7, <2>1, <2>2
  <2> QED
    BY <1>7, <2>1, <2>3 DEF KeyInv, Follows
<1> QED
  BY <1>9, <1>11, <1>12 DEF KeyInv

LEMMA AddAppStep ==
  ASSUME LabelType, KeyInv, NEW i \in NetIndex, NEW a \in AppIndex, NEW v \in Value, AddApp(i, a, v)
  PROVE  KeyInv'
<1> DEFINE e == [index |-> a, bind |-> Found(i), asked |-> i, k |-> Added(v, 0)]
<1>1. /\ a \notin Indices(apps) /\ Len(apps) < AppMax /\ nets # <<>>
      /\ apps' = Append(apps, e) /\ UNCHANGED <<nets, devs>>
  BY DEF AddApp, Free
<1>2. \E q \in DOMAIN nets : nets[q].index = Found(i)
  <2>1. CASE i \in Indices(nets)
    BY <2>1 DEF Found, Indices
  <2>2. CASE i \notin Indices(nets)
    <3>1. Len(nets) \in DOMAIN nets
      BY <1>1 DEF KeyInv, Lists
    <3> QED
      BY <2>2, <3>1 DEF Found, Last
  <2> QED
    BY <2>1, <2>2
<1>3. Found(i) \in NetIndex
  <2>1. \A q \in DOMAIN nets : nets[q] \in NetEntry
    BY DEF KeyInv, Lists
  <2> QED
    BY <1>2, <2>1 DEF NetEntry
<1>4. e \in AppEntry /\ e.index = a /\ e.bind = Found(i) /\ e.k.state = "normal"
  BY <1>3, AddedType DEF AppEntry
<1> HIDE DEF e
<1>5. apps \in Seq(AppEntry) /\ Len(apps) \in Nat /\ DOMAIN apps = 1 .. Len(apps)
  BY DEF KeyInv, Lists
<1>6. /\ apps' \in Seq(AppEntry) /\ Len(apps') = Len(apps) + 1 /\ DOMAIN apps' = 1 .. Len(apps) + 1
      /\ \A p \in DOMAIN apps : apps'[p] = apps[p]
      /\ apps'[Len(apps) + 1] = e
  BY <1>1, <1>4, <1>5
<1>7. \A p \in DOMAIN apps : apps[p].index # a
  BY <1>1 DEF Indices
<1>8. Lists'
  <2>1. Unique(apps')
    BY <1>4, <1>5, <1>6, <1>7 DEF KeyInv, Lists, Unique
  <2> QED
    BY <1>1, <1>5, <1>6, <2>1 DEF KeyInv, Lists
<1>9. \A p \in DOMAIN apps' : p \in DOMAIN apps \/ p = Len(apps) + 1
  BY <1>5, <1>6
<1>10. Bound'
  BY <1>1, <1>2, <1>4, <1>6, <1>9 DEF KeyInv, Bound
<1>11. Follows'
  BY <1>1, <1>4, <1>6, <1>9 DEF KeyInv, Follows
<1> QED
  BY <1>8, <1>10, <1>11 DEF KeyInv

LEMMA UpdateAppStep ==
  ASSUME LabelType, KeyInv, NEW a \in AppIndex, NEW v \in Value, UpdateApp(a, v)
  PROVE  KeyInv'
<1> DEFINE d == At(apps, a)
<1>1. PICK s \in BoundStates(apps[d]) : apps' = [apps EXCEPT ![d].k = AppUpdate(@, s, v)]
  BY DEF UpdateApp
<1>2. d \in DOMAIN apps /\ UNCHANGED <<nets, devs>>
  BY AtIndex DEF UpdateApp
<1> HIDE DEF d
<1>3. apps \in Seq(AppEntry) /\ DOMAIN apps = 1 .. Len(apps) /\ apps[d] \in AppEntry
  BY <1>2 DEF KeyInv, Lists
<1> DEFINE k == AppUpdate(apps[d].k, s, v)
           e == [apps[d] EXCEPT !.k = k]
<1>4. k \in SoundKey /\ k.state = IF s = "phase1" THEN "phase1" ELSE apps[d].k.state
  <2>1. apps[d].k \in SoundKey
    BY <1>3 DEF AppEntry
  <2> QED
    BY <2>1, AppUpdateType
<1>5. apps' = [apps EXCEPT ![d] = e]
  BY <1>1
<1> HIDE DEF k
<1>6. e \in AppEntry /\ e.index = apps[d].index /\ e.bind = apps[d].bind /\ e.k = k
  BY <1>3, <1>4 DEF AppEntry
<1> HIDE DEF e
<1>7. /\ apps' \in [DOMAIN apps -> AppEntry] /\ DOMAIN apps' = DOMAIN apps
      /\ apps'[d] = e /\ \A p \in DOMAIN apps : p # d => apps'[p] = apps[p]
  BY <1>2, <1>3, <1>5, <1>6
<1>8. Lists'
  <2>1. \A p \in DOMAIN apps : apps'[p].index = apps[p].index
    BY <1>6, <1>7
  <2>2. apps' \in Seq(AppEntry) /\ Len(apps') = Len(apps) /\ Unique(apps')
    BY <1>7, <2>1, ReplaceApps DEF KeyInv
  <2> QED
    BY <1>2, <2>2 DEF KeyInv, Lists
<1>9. Bound'
  BY <1>2, <1>6, <1>7 DEF KeyInv, Bound
<1>10. ASSUME NEW q \in DOMAIN nets, nets[q].index = apps[d].bind, k.state # "normal"
       PROVE  k.state = nets[q].k.state
  <2>1. nets[q].index \in NetIndex /\ Unique(nets)
    <3>1. nets[q] \in NetEntry
      BY DEF KeyInv, Lists
    <3> QED
      BY <3>1 DEF NetEntry, KeyInv, Lists
  <2>2. apps[d].bind # Freed /\ apps[d].bind \in Indices(nets)
    BY <1>10, <2>1 DEF Indices
  <2>3. At(nets, apps[d].bind) = q
    BY <1>10, <2>1, <2>2, AtIndex DEF Unique
  <2>4. s = nets[q].k.state
    BY <2>2, <2>3 DEF BoundStates
  <2> QED
    BY <1>2, <1>4, <1>10, <2>4 DEF KeyInv, Follows
<1>11. Follows'
  BY <1>2, <1>6, <1>7, <1>10 DEF KeyInv, Follows
<1> QED
  BY <1>8, <1>9, <1>11 DEF KeyInv

LEMMA HearStep ==
  ASSUME KeyInv, NEW i \in NetIndex, NEW v \in Value, NEW refresh \in BOOLEAN, Hear(i, v, refresh)
  PROVE  KeyInv'
<1> DEFINE q == At(nets, i)
           k == nets[q].k
           s == Ordered(k, v, refresh)
           h == NetHeard(k, v, refresh)
<1>1. /\ s # "none" /\ nets' = [nets EXCEPT ![q].k = h] /\ devs' = devs
      /\ q \in DOMAIN nets /\ nets[q].index = i
  BY AtIndex DEF Hear
<1>2. PICK stray \in SUBSET {p \in DOMAIN apps : apps[p].bind = Freed} :
        apps' = [p \in DOMAIN apps |->
                   IF apps[p].bind = i \/ p \in stray
                   THEN [apps[p] EXCEPT !.k = AppHeard(@, k, v, refresh)] ELSE apps[p]]
  BY DEF Hear
<1> HIDE DEF q
<1>3. /\ nets \in Seq(NetEntry) /\ Unique(nets)
      /\ \A p \in DOMAIN nets : nets[p] \in NetEntry
      /\ \A p \in DOMAIN apps : apps[p] \in AppEntry
  BY DEF KeyInv, Lists
<1>4. k \in SoundKey
  BY <1>1, <1>3 DEF NetEntry
<1> HIDE DEF k
<1>5. h \in SoundKey /\ h.state = s /\ k.state # "normal"
  BY <1>1, <1>4, NetHeardType
<1> HIDE DEF h
<1>6. /\ nets' \in Seq(NetEntry) /\ Len(nets') = Len(nets) /\ DOMAIN nets' = DOMAIN nets /\ Unique(nets')
      /\ \A p \in DOMAIN nets : nets'[p].index = nets[p].index
      /\ nets'[q].k = h /\ \A p \in DOMAIN nets : p # q => nets'[p] = nets[p]
  <2> DEFINE e == [nets[q] EXCEPT !.k = h]
  <2>1. nets[q] \in NetEntry
    BY <1>1 DEF KeyInv, Lists
  <2>2. e \in NetEntry /\ e.index = nets[q].index /\ e.k = h
    BY <1>5, <2>1 DEF NetEntry
  <2>3. nets' = [nets EXCEPT ![q] = e]
    BY <1>1
  <2> HIDE DEF e
  <2> QED
    BY <1>1, <2>2, <2>3, ReplaceNet DEF KeyInv
<1>7. ASSUME NEW p \in DOMAIN apps
      PROVE  /\ apps'[p] \in AppEntry /\ apps'[p].index = apps[p].index /\ apps'[p].bind = apps[p].bind
             /\ apps[p].bind = i => apps'[p].k.state = IF apps[p].k.state = "normal" THEN "normal" ELSE s
             /\ apps[p].bind # i /\ apps[p].bind # Freed => apps'[p] = apps[p]
  <2> DEFINE n == AppHeard(apps[p].k, k, v, refresh)
             e == [apps[p] EXCEPT !.k = n]
  <2>1. apps[p].k \in SoundKey /\ apps[p] \in AppEntry
    BY <1>3 DEF AppEntry
  <2>2. n \in SoundKey /\ n.state = IF s = "none" \/ apps[p].k.state = "normal" THEN apps[p].k.state ELSE s
    BY <2>1, AppHeardType
  <2>3. apps'[p] = IF apps[p].bind = i \/ p \in stray THEN e ELSE apps[p]
    BY <1>2
  <2> HIDE DEF n
  <2>4. e \in AppEntry /\ e.index = apps[p].index /\ e.bind = apps[p].bind /\ e.k = n
    BY <2>1, <2>2 DEF AppEntry
  <2> HIDE DEF e, s
  <2> QED
    BY <1>1, <1>2, <2>1, <2>2, <2>3, <2>4
<1>8. DOMAIN apps' = DOMAIN apps /\ apps' \in [DOMAIN apps -> AppEntry]
  BY <1>2, <1>7
<1>9. Lists'
  <2>1. apps' \in Seq(AppEntry) /\ Len(apps') = Len(apps) /\ Unique(apps')
    BY <1>7, <1>8, ReplaceApps DEF KeyInv
  <2> QED
    BY <1>1, <1>6, <2>1 DEF KeyInv, Lists
<1>10. Bound'
  BY <1>6, <1>7, <1>8 DEF KeyInv, Bound
<1>11. Follows'
  <2> SUFFICES ASSUME NEW p \in DOMAIN apps, NEW j \in DOMAIN nets,
                      nets'[j].index = apps'[p].bind, apps'[p].k.state # "normal"
               PROVE  apps'[p].k.state = nets'[j].k.state
    BY <1>6, <1>8 DEF Follows
  <2>1. nets[j].index = apps[p].bind /\ nets[j].index \in NetIndex
    BY <1>3, <1>6, <1>7 DEF NetEntry
  <2>2. CASE j = q
    <3>1. apps[p].bind = i
      BY <1>1, <2>1, <2>2
    <3> HIDE DEF s
    <3> QED
      BY <1>5, <1>6, <1>7, <2>2, <3>1
  <2>3. CASE j # q
    <3>1. apps[p].bind # i /\ apps[p].bind # Freed
      BY <1>1, <1>3, <2>1, <2>3 DEF Unique
    <3> QED
      BY <1>6, <1>7, <2>1, <2>3, <3>1 DEF KeyInv, Follows
  <2> QED
    BY <2>2, <2>3
<1> QED
  BY <1>9, <1>10, <1>11 DEF KeyInv

LEMMA AddDevStep ==
  ASSUME KeyInv, NEW d \in DevEntry, AddDev(d)
  PROVE  KeyInv'
<1>1. devs' = Append(devs, d) /\ Len(devs) < DevMax /\ UNCHANGED <<nets, apps>>
  BY DEF AddDev, Free
<1>2. Lists'
  BY <1>1 DEF KeyInv, Lists
<1> QED
  BY <1>1, <1>2 DEF KeyInv, Bound, Follows

-----------------------------------------------------------------------------

LEMMA KeyInit == Init => KeyInv
<1> SUFFICES ASSUME Init PROVE KeyInv
  OBVIOUS
<1>1. nets = <<>> /\ apps = <<>> /\ devs = <<>>
  BY DEF Init
<1>2. Lists
  BY <1>1 DEF Lists, Unique
<1> QED
  BY <1>1, <1>2 DEF KeyInv, Bound, Follows

LEMMA KeyStep ==
  ASSUME LabelType, KeyInv, [Next]_vars
  PROVE  KeyInv'
<1>1. CASE UNCHANGED vars
  BY <1>1 DEF vars, KeyInv, Lists, Bound, Follows
<1>2. ASSUME NEW d \in [first : Address, count : Elements], AddDev(d) PROVE KeyInv'
  BY <1>2, AddDevStep DEF DevEntry
<1> QED
  BY <1>1, <1>2, AddNetStep, UpdateNetStep, DeleteNetStep, AddAppStep, UpdateAppStep, HearStep DEF Next

LEMMA KeysFollow ==
  ASSUME KeyInv
  PROVE  AppFollowsNet
<1> SUFFICES ASSUME NEW p \in DOMAIN apps, apps[p].k.state # "normal", apps[p].bind # Freed
             PROVE  apps[p].k.state = nets[At(nets, apps[p].bind)].k.state
  BY DEF AppFollowsNet
<1>1. apps[p].bind \in Indices(nets)
  BY DEF KeyInv, Bound, Indices
<1>2. At(nets, apps[p].bind) \in DOMAIN nets /\ nets[At(nets, apps[p].bind)].index = apps[p].bind
  BY <1>1, AtIndex
<1> QED
  BY <1>2 DEF KeyInv, Follows

\* The lists keep to their sizes, hold no index twice and only well formed
\* keys (meshx_net_key_add, meshx_app_key_add, meshx_net_key_delete).
THEOREM TypeCorrectLists ==
  ASSUME LabelType
  PROVE  Spec => []TypeOK
<1>1. KeyInv /\ [Next]_vars => KeyInv'
  BY KeyStep
<1>2. KeyInv => TypeOK
  <2> SUFFICES ASSUME KeyInv PROVE TypeOK
    OBVIOUS
  <2>1. nets \in Seq([index : NetIndex, k : Key])
    <3> DEFINE T == [index : NetIndex, k : Key]
    <3>1. NetEntry \subseteq T
      BY DEF NetEntry, SoundKey
    <3> HIDE DEF T
    <3>2. nets \in Seq(NetEntry)
      BY DEF KeyInv, Lists
    <3>3. nets \in [1 .. Len(nets) -> T] /\ Len(nets) \in Nat
      BY <3>1, <3>2
    <3>4. nets \in Seq(T)
      BY <3>3, ReplaceList
    <3> QED
      BY <3>4 DEF T
  <2>2. apps \in Seq([index : AppIndex, bind : NetIndex \cup {Freed}, asked : NetIndex, k : Key])
    <3> DEFINE T == [index : AppIndex, bind : NetIndex \cup {Freed}, asked : NetIndex, k : Key]
    <3>1. AppEntry \subseteq T
      BY DEF AppEntry, SoundKey
    <3> HIDE DEF T
    <3>2. apps \in Seq(AppEntry)
      BY DEF KeyInv, Lists
    <3>3. apps \in [1 .. Len(apps) -> T] /\ Len(apps) \in Nat
      BY <3>1, <3>2
    <3>4. apps \in Seq(T)
      BY <3>3, ReplaceList
    <3> QED
      BY <3>4 DEF T
  <2> QED
    BY <2>1, <2>2 DEF TypeOK, KeyInv, Lists, Unique
<1> QED
  BY KeyInit, <1>1, <1>2, PTL DEF Spec

\* An application key is in an update only along with the network key it is
\* bound to, whatever calls and beacons come in whatever order
\* (meshx_app_key_update, meshx_app_key_state_transit, meshx_beacon_receive).
THEOREM AppKeysFollow ==
  ASSUME LabelType
  PROVE  Spec => []AppFollowsNet
<1>1. KeyInv /\ [Next]_vars => KeyInv'
  BY KeyStep
<1>2. KeyInv => AppFollowsNet
  BY KeysFollow
<1> QED
  BY KeyInit, <1>1, <1>2, PTL DEF Spec

-----------------------------------------------------------------------------
(* The device keys. *)

\* No range before another holds the primary address of that other.
DevInv ==
  /\ devs \in Seq(DevEntry)
  /\ \A p, q \in DOMAIN devs : q < p => devs[p].first \notin Range1(devs[q])

LEMMA DevStep ==
  ASSUME DevInv, [Next]_vars
  PROVE  DevInv'
<1>1. CASE UNCHANGED devs
  BY <1>1 DEF DevInv
<1>2. ASSUME NEW d \in [first : Address, count : Elements], AddDev(d) PROVE DevInv'
  <2>1. devs' = Append(devs, d) /\ d \in DevEntry
    BY <1>2 DEF AddDev, DevEntry
  <2>2. \A q \in DOMAIN devs : d.first \notin Range1(devs[q])
    BY <1>2 DEF AddDev, Overlaps
  <2>3. /\ devs' \in Seq(DevEntry) /\ Len(devs') = Len(devs) + 1 /\ Len(devs) \in Nat
        /\ DOMAIN devs = 1 .. Len(devs) /\ DOMAIN devs' = 1 .. Len(devs) + 1
        /\ \A q \in 1 .. Len(devs) : devs'[q] = devs[q]
        /\ devs'[Len(devs) + 1] = d
    BY <2>1 DEF DevInv
  <2>4. ASSUME NEW p \in DOMAIN devs', NEW q \in DOMAIN devs', q < p
        PROVE  devs'[p].first \notin Range1(devs'[q])
    <3>1. q \in DOMAIN devs /\ devs'[q] = devs[q]
      BY <2>3, <2>4
    <3>2. CASE p = Len(devs) + 1
      BY <2>2, <2>3, <3>1, <3>2
    <3>3. CASE p # Len(devs) + 1
      <4>1. p \in DOMAIN devs /\ devs'[p] = devs[p]
        BY <2>3, <3>3
      <4> QED
        BY <2>4, <3>1, <4>1 DEF DevInv
    <3> QED
      BY <3>2, <3>3
  <2> QED
    BY <2>3, <2>4 DEF DevInv
<1> QED
  BY <1>1, <1>2 DEF Next, vars, AddNet, UpdateNet, DeleteNet, AddApp, UpdateApp, Hear

\* A node's primary address leads to its own device key, however the ranges
\* were added (meshx_dev_key_add, meshx_dev_key_get).
THEOREM PrimaryKeyFound == Spec => []PrimaryFound
<1>1. Init => DevInv
  BY DEF Init, DevInv
<1>2. DevInv /\ [Next]_vars => DevInv'
  BY DevStep
<1>3. DevInv => PrimaryFound
  <2> SUFFICES ASSUME DevInv, NEW p \in DOMAIN devs PROVE DevGet(devs[p].first) = p
    BY DEF PrimaryFound
  <2> DEFINE I == {q \in 1 .. Len(devs) : devs[p].first \in Range1(devs[q])}
  <2>1. DOMAIN devs = 1 .. Len(devs) /\ Len(devs) \in Nat /\ devs[p] \in DevEntry
    BY DEF DevInv
  <2>2. devs[p].first \in Range1(devs[p])
    <3>1. devs[p].first \in Nat /\ devs[p].count \in Nat \ {0}
      BY <2>1 DEF DevEntry
    <3> QED
      BY <3>1 DEF Range1
  <2>3. p \in I /\ I \subseteq Nat /\ \A q \in I : q >= p
    BY <2>1, <2>2 DEF DevInv
  <2>4. DevGet(devs[p].first) = IF I # {} THEN Min(I) ELSE 0
    BY DEF DevGet, SelectInSeq
  <2> HIDE DEF I
  <2>5. Min(I) = p
    BY <2>1, <2>3 DEF Min
  <2> QED
    BY <2>3, <2>4, <2>5
<1> QED
  BY <1>1, <1>2, <1>3, PTL DEF Spec
=============================================================================
