------------------------- MODULE KeyRefreshProofs -------------------------
(***************************************************************************)
(* Proofs about KeyRefresh for any number of nodes and of refreshes, as    *)
(* long as no beacon of an earlier stage arrives: no node goes back to an  *)
(* older network key, and with the manager's beacons alone every node      *)
(* receives every other.                                                   *)
(***************************************************************************)
EXTENDS KeyRefresh, Integers, TLAPS

\* An identifier is a number (a NID or an AID).
LabelType == \A v \in Value : Label(v) \in Nat

\* A key that can be used: what it sends with is a value.
SoundKey == {k \in Key : k.key[0] \in Value /\ (k.state # "normal" => k.key[1] \in Value)}

-----------------------------------------------------------------------------
(* What the operators of KeyStore keep of a key, for any values. *)

\* What storing a value leaves: d is the value an identifier is derived from.
LEMMA WithValueFields ==
  ASSUME LabelType, NEW k \in Key, NEW v \in Value, NEW d \in 0 .. 1, d = 0 => k.key[0] \in Value
  PROVE  LET r == WithValue(k, v, d)
         IN /\ r \in Key /\ r.state = "phase1"
            /\ r.key[0] = k.key[0] /\ r.key[1] = v
            /\ r.label[d] = Label(IF d = 1 THEN v ELSE k.key[0])
            /\ r.label[1 - d] = k.label[1 - d]
<1> DEFINE f == [k.key EXCEPT ![1] = v]
           h == [k.label EXCEPT ![d] = Label(f[d])]
<1>1. k.key \in [0 .. 1 -> Value \cup {Blank}] /\ k.label \in [0 .. 1 -> Nat]
  BY DEF Key
<1>2. f \in [0 .. 1 -> Value \cup {Blank}] /\ f[1] = v /\ f[0] = k.key[0]
  BY <1>1
<1>3. f[d] = (IF d = 1 THEN v ELSE k.key[0]) /\ f[d] \in Value
  BY <1>2
<1>4. h \in [0 .. 1 -> Nat] /\ h[d] = Label(f[d]) /\ h[1 - d] = k.label[1 - d]
  <2>1. Label(f[d]) \in Nat /\ 1 - d # d /\ 1 - d \in 0 .. 1
    BY <1>3 DEF LabelType
  <2> HIDE DEF f
  <2> QED
    BY <1>1, <2>1
<1>5. WithValue(k, v, d) = [state |-> "phase1", key |-> f, label |-> h]
  BY DEF WithValue
<1> HIDE DEF f, h
<1>6. "phase1" \in State
  BY DEF State
<1>7. WithValue(k, v, d) \in Key
  BY <1>2, <1>4, <1>5, <1>6 DEF Key
<1> QED
  BY <1>2, <1>3, <1>4, <1>5, <1>7

LEMMA AppUpdateType ==
  ASSUME LabelType, NEW k \in SoundKey, NEW s, NEW v \in Value
  PROVE  /\ AppUpdate(k, s, v) \in SoundKey
         /\ AppUpdate(k, s, v).state = IF s = "phase1" THEN "phase1" ELSE k.state
<1>1. CASE s = "phase1" /\ k.state # "phase1"
  <2> DEFINE r == WithValue(k, v, 0)
  <2>1. AppUpdate(k, s, v) = r
    BY <1>1 DEF AppUpdate, DeriveApp
  <2>2. r \in Key /\ r.state = "phase1" /\ r.key[0] = k.key[0] /\ r.key[1] = v
    BY WithValueFields DEF SoundKey
  <2> HIDE DEF r
  <2> QED
    BY <1>1, <2>1, <2>2 DEF SoundKey
<1>2. CASE ~(s = "phase1" /\ k.state # "phase1")
  BY <1>2 DEF AppUpdate
<1> QED
  BY <1>1, <1>2

LEMMA AppHeardType ==
  ASSUME NEW k \in SoundKey, NEW o, NEW v, NEW refresh
  PROVE  /\ AppHeard(k, o, v, refresh) \in SoundKey
         /\ AppHeard(k, o, v, refresh).state =
              IF Ordered(o, v, refresh) = "none" \/ k.state = "normal" THEN k.state
              ELSE Ordered(o, v, refresh)
<1> DEFINE s == Ordered(o, v, refresh)
<1>1. CASE s # "none" /\ k.state # "normal" /\ s \in State
  <2> DEFINE r == [k EXCEPT !.state = s]
  <2>1. AppHeard(k, o, v, refresh) = r
    BY <1>1 DEF AppHeard, AppTransit
  <2>2. r \in SoundKey /\ r.state = s
    <3> HIDE DEF s
    <3> QED
      BY <1>1 DEF SoundKey, Key
  <2> HIDE DEF r
  <2> QED
    BY <1>1, <2>1, <2>2
<1>2. CASE ~(s # "none" /\ k.state # "normal")
  BY <1>2 DEF AppHeard, AppTransit
<1>3. s = "none" \/ s \in State
  BY DEF Ordered, State
<1> QED
  BY <1>1, <1>2, <1>3

-----------------------------------------------------------------------------
(* The network *)

USE KeyRefreshAssumption DEF KeyRefreshAssumption

\* No two values have the same identifier.
LabelInjective == \A v, w \in Value : Label(v) = Label(w) => v = w

-----------------------------------------------------------------------------
(* Where a node is in refresh g. *)

\* It has not heard of it ...
Before(k, g) ==
  k \in Key /\ k.state = "normal" /\ k.key[0] = g - 1 /\ k.label[0] = Label(g - 1)

\* ... holds both values ...
Both(k, g) ==
  /\ k \in Key
  /\ k.key[0] = g - 1 /\ k.label[0] = Label(g - 1)
  /\ k.key[1] = g /\ k.label[1] = Label(g)
Distributed(k, g) == Both(k, g) /\ k.state = "phase1"
InUse(k, g) == Both(k, g) /\ k.state = "phase2"

\* ... or has only the new one left.
After(k, g) ==
  k \in Key /\ k.state = "normal" /\ k.key[0] = g /\ k.label[0] = Label(g)

LEMMA UpdateStep ==
  ASSUME LabelType, NEW g \in Value, NEW k
  PROVE  /\ Before(k, g) => Distributed(NetUpdate(k, g), g)
         /\ k.state # "normal" => NetUpdate(k, g) = k
<1>1. ASSUME Before(k, g) PROVE Distributed(NetUpdate(k, g), g)
  <2>1. NetUpdate(k, g) = WithValue(k, g, 1) /\ k \in Key
    BY <1>1 DEF NetUpdate, DeriveNet, Before
  <2> DEFINE r == WithValue(k, g, 1)
  <2>2. /\ r \in Key /\ r.state = "phase1" /\ r.key[0] = k.key[0] /\ r.key[1] = g
        /\ r.label[1] = Label(g) /\ r.label[0] = k.label[0]
    BY <2>1, WithValueFields
  <2> HIDE DEF r
  <2> QED
    BY <1>1, <2>1, <2>2 DEF Before, Distributed, Both, r
<1> QED
  BY <1>1 DEF NetUpdate

\* The four beacons that are on the air: of the old value in phase 1, of the
\* new one with the flag in phase 2, and of the new one without it after that
\* or from a node that has switched.
LEMMA OldBeacon ==
  ASSUME NEW g \in Value, g >= 1, NEW k, Before(k, g) \/ Both(k, g) \/ After(k, g)
  PROVE  NetHeard(k, g - 1, FALSE) = k
<1>1. CASE Before(k, g) \/ Both(k, g)
  <2>1. 0 \in Fits(k, g - 1)
    BY <1>1 DEF Fits, Held, Before, Both
  <2> QED
    BY <2>1 DEF Ordered, NetHeard
<1>2. CASE After(k, g)
  <2>1. Fits(k, g - 1) = {}
    BY <1>2 DEF Fits, Held, After
  <2> QED
    BY <2>1 DEF Ordered, NetHeard
<1> QED
  BY <1>1, <1>2

LEMMA NewBeacon ==
  ASSUME NEW g \in Value, g >= 1, NEW k, NEW refresh \in BOOLEAN,
         Distributed(k, g) \/ InUse(k, g)
  PROVE  Ordered(k, g, refresh) = IF refresh THEN "phase2" ELSE "normal"
<1>1. Fits(k, g) = {1}
  BY DEF Fits, Held, Distributed, InUse, Both
<1>2. k.state # "normal"
  BY DEF Distributed, InUse
<1> QED
  BY <1>1, <1>2 DEF Ordered

LEMMA AfterBeacon ==
  ASSUME NEW g \in Value, NEW k, NEW refresh \in BOOLEAN, After(k, g)
  PROVE  NetHeard(k, g, refresh) = k
<1>1. Fits(k, g) = {0} /\ k.state = "normal"
  BY DEF Fits, Held, After
<1> QED
  BY <1>1 DEF Ordered, NetHeard

LEMMA NewHeard ==
  ASSUME NEW g \in Value, g >= 1, NEW k, Distributed(k, g) \/ InUse(k, g)
  PROVE  /\ InUse(NetHeard(k, g, TRUE), g)
         /\ After(NetHeard(k, g, FALSE), g)
<1>1. k \in Key /\ Both(k, g)
  BY DEF Distributed, InUse, Both
<1>2. NetHeard(k, g, TRUE) = [k EXCEPT !.state = "phase2"]
  BY NewBeacon DEF NetHeard
<1> DEFINE f == [k.key EXCEPT ![0] = k.key[1]]
           h == [k.label EXCEPT ![0] = k.label[1]]
           r == NetHeard(k, g, FALSE)
<1>3. r = [state |-> "normal", key |-> f, label |-> h]
  BY NewBeacon DEF NetHeard
<1>4. k.key \in [0 .. 1 -> Value \cup {Blank}] /\ k.label \in [0 .. 1 -> Nat]
  BY <1>1 DEF Key
<1>5. f \in [0 .. 1 -> Value \cup {Blank}] /\ h \in [0 .. 1 -> Nat] /\ f[0] = g /\ h[0] = Label(g)
  BY <1>1, <1>4 DEF Both
<1>6. InUse(NetHeard(k, g, TRUE), g)
  BY <1>1, <1>2, <1>4 DEF InUse, Both, Key, State
<1>7. After(r, g)
  <2> HIDE DEF f, h, r
  <2>1. "normal" \in State
    BY DEF State
  <2> QED
    BY <1>3, <1>5, <2>1 DEF After, Key
<1> QED
  BY <1>6, <1>7

\* The value it sends with.
LEMMA Sends ==
  ASSUME NEW g \in Value, NEW k
  PROVE  /\ Before(k, g) \/ Distributed(k, g) => Tx(k) = 0 /\ k.key[Tx(k)] = g - 1
         /\ InUse(k, g) => Tx(k) = 1 /\ k.key[Tx(k)] = g
         /\ After(k, g) => Tx(k) = 0 /\ k.key[Tx(k)] = g
BY DEF Before, Distributed, InUse, Both, After, Tx

-----------------------------------------------------------------------------
(* The stages of the manager bound where the nodes are. *)

At(k) ==
  /\ stage = "idle"   => After(k, gen) \/ (gen >= 1 /\ InUse(k, gen))
  /\ stage = "phase1" => Before(k, gen) \/ Distributed(k, gen)
  /\ stage = "phase2" => Distributed(k, gen) \/ InUse(k, gen) \/ (snb /\ After(k, gen))

NetInv ==
  /\ gen \in Value /\ stage \in {"idle", "phase1", "phase2"} /\ snb \in BOOLEAN
  /\ stage # "idle" => gen >= 1
  /\ net \in [Node -> Key]
  /\ \A n \in Node : At(net[n])

LEMMA NetInit == LabelType /\ Init => NetInv
<1> SUFFICES ASSUME LabelType, Init PROVE NetInv
  OBVIOUS
<1>1. 0 \in Value /\ Label(0) \in Nat
  BY DEF LabelType
<1> DEFINE k == Added(0, 0)
<1>2. k \in Key /\ k.state = "normal" /\ k.key[0] = 0 /\ k.label[0] = Label(0)
  BY <1>1 DEF Added, Key, State
<1>3. gen = 0 /\ stage = "idle" /\ snb = FALSE /\ net = [n \in Node |-> k]
  BY DEF Init
<1> HIDE DEF k
<1>4. After(k, gen)
  BY <1>2, <1>3 DEF After
<1> QED
  BY <1>1, <1>2, <1>3, <1>4 DEF NetInv, At

\* What a beacon that is on the air does to a node.
LEMMA HeardStep ==
  ASSUME NetInv, NEW n \in Node, NEW v, NEW refresh \in BOOLEAN,
         \/ v = gen - 1 /\ ~refresh /\ stage # "idle"
         \/ v = gen /\ (refresh <=> stage = "phase2")
         \/ v = gen /\ ~refresh /\ stage = "phase2" /\ snb
         \/ v = gen /\ ~refresh /\ stage = "idle",
         stage = "phase1" => v = gen - 1
  PROVE  LET k == NetHeard(net[n], v, refresh)
         IN k \in Key /\ At(k) /\ k.key[Tx(k)] >= net[n].key[Tx(net[n])]
<1> DEFINE o == net[n]
           k == NetHeard(o, v, refresh)
<1>1. At(o) /\ o \in Key /\ gen \in Value /\ stage \in {"idle", "phase1", "phase2"} /\ (stage # "idle" => gen >= 1)
  BY DEF NetInv
<1>2. Before(o, gen) \/ Distributed(o, gen) \/ InUse(o, gen) \/ After(o, gen)
  BY <1>1 DEF At
<1> HIDE DEF o, k
<1>3. o.key[Tx(o)] \in Int
  <2>1. gen \in Int
    BY <1>1
  <2> QED
    BY <1>1, <1>2, <2>1, Sends
<1> USE DEF k
<1>4. CASE k = o
  BY <1>1, <1>3, <1>4 DEF o
<1>5. CASE v = gen - 1 /\ ~refresh /\ stage # "idle"
  <2>1. k = o
    BY <1>1, <1>2, <1>5, OldBeacon DEF Distributed, InUse
  <2> QED
    BY <1>4, <2>1
<1>6. CASE v = gen /\ After(o, gen)
  <2>1. k = o
    BY <1>1, <1>6, AfterBeacon
  <2> QED
    BY <1>4, <2>1
<1>7. CASE v = gen /\ ~After(o, gen)
  <2>1. stage # "phase1"
    BY <1>1, <1>7
  <2>2. gen >= 1 /\ (Distributed(o, gen) \/ InUse(o, gen))
    BY <1>1, <1>7, <2>1 DEF At
  <2>3. CASE refresh
    <3>1. InUse(NetHeard(o, gen, TRUE), gen)
      BY <1>1, <2>2, NewHeard
    <3>2. k = NetHeard(o, gen, TRUE) /\ stage = "phase2"
      BY <1>7, <2>3
    <3> HIDE DEF k
    <3>3. InUse(k, gen) /\ k \in Key /\ At(k)
      BY <3>1, <3>2 DEF At, InUse, Both
    <3>4. k.key[Tx(k)] = gen /\ (o.key[Tx(o)] = gen \/ o.key[Tx(o)] = gen - 1)
      BY <1>1, <2>2, <3>3, Sends
    <3> QED
      BY <1>1, <3>3, <3>4 DEF k, o
  <2>4. CASE ~refresh
    <3>1. After(NetHeard(o, gen, FALSE), gen)
      BY <1>1, <2>2, NewHeard
    <3>2. k = NetHeard(o, gen, FALSE) /\ (stage = "phase2" => snb)
      <4>1. refresh = FALSE /\ v = gen /\ gen \in Int
        BY <1>1, <1>7, <2>4
      <4>2. k = NetHeard(o, gen, FALSE)
        BY <4>1, Zenon
      <4> QED
        BY <4>1, <4>2
    <3> HIDE DEF k
    <3>3. After(k, gen) /\ k \in Key /\ At(k)
      BY <2>1, <3>1, <3>2 DEF At, After
    <3>4. k.key[Tx(k)] = gen /\ (o.key[Tx(o)] = gen \/ o.key[Tx(o)] = gen - 1)
      BY <1>1, <2>2, <3>3, Sends
    <3> QED
      BY <1>1, <3>3, <3>4 DEF k, o
  <2> QED
    BY <2>3, <2>4
<1> QED
  BY <1>5, <1>6, <1>7

LEMMA NetStep ==
  ASSUME LabelType, ~LateBeacons, NetInv, [Next]_vars
  PROVE  NetInv' /\ \A n \in Node : net'[n].key[Tx(net'[n])] >= net[n].key[Tx(net[n])]
<1> DEFINE Kept == \A n \in Node : net'[n].key[Tx(net'[n])] >= net[n].key[Tx(net[n])]
<1>1. /\ gen \in Value /\ gen \in Int /\ stage \in {"idle", "phase1", "phase2"} /\ snb \in BOOLEAN
      /\ stage # "idle" => gen >= 1
      /\ net \in [Node -> Key]
  BY DEF NetInv
<1>2. \A n \in Node : At(net[n])
  BY DEF NetInv
<1>3. \A n \in Node : net[n].key[Tx(net[n])] \in Int
  <2> SUFFICES ASSUME NEW n \in Node PROVE net[n].key[Tx(net[n])] \in Int
    OBVIOUS
  <2>1. At(net[n])
    BY <1>2
  <2>2. Before(net[n], gen) \/ Distributed(net[n], gen) \/ InUse(net[n], gen) \/ After(net[n], gen)
    BY <1>1, <2>1 DEF At
  <2> QED
    BY <1>1, <2>2, Sends
<1>4. ASSUME net' = net PROVE Kept
  BY <1>3, <1>4
<1>5. CASE Begin
  <2>1. gen + 1 \in Value /\ gen' = gen + 1 /\ stage' = "phase1" /\ net' = net /\ snb' = snb
    BY <1>1, <1>5 DEF Begin
  <2>2. ASSUME NEW n \in Node PROVE Before(net[n], gen + 1)
    <3>1. stage = "idle" /\ net[n].state = "normal" /\ At(net[n])
      BY <1>2, <1>5 DEF Begin, Done
    <3>2. After(net[n], gen)
      BY <3>1 DEF At, InUse
    <3> QED
      BY <1>1, <3>2 DEF After, Before
  <2>3. \A n \in Node : At(net[n])'
    BY <2>1, <2>2 DEF At
  <2> QED
    BY <1>1, <1>4, <2>1, <2>3 DEF NetInv
<1>6. ASSUME NEW n \in Node, UpdateNet(n) PROVE NetInv' /\ Kept
  <2>1. stage = "phase1" /\ net' = [net EXCEPT ![n] = NetUpdate(net[n], gen)] /\ UNCHANGED <<gen, stage, snb>>
    BY <1>6 DEF UpdateNet
  <2>2. Before(net[n], gen) \/ Distributed(net[n], gen)
    BY <1>2, <2>1 DEF At
  <2> DEFINE k == NetUpdate(net[n], gen)
  <2>3. Distributed(k, gen)
    <3>1. CASE Before(net[n], gen)
      BY <1>1, <3>1, UpdateStep
    <3>2. CASE Distributed(net[n], gen)
      <4>1. k = net[n]
        BY <1>1, <3>2, UpdateStep DEF Distributed
      <4> QED
        BY <3>2, <4>1
    <3> QED
      BY <2>2, <3>1, <3>2
  <2>4. k \in Key /\ k.key[Tx(k)] = net[n].key[Tx(net[n])]
    BY <1>1, <2>2, <2>3, Sends DEF Distributed, Both
  <2> HIDE DEF k
  <2>5. net' \in [Node -> Key] /\ net'[n] = k /\ \A m \in Node : m # n => net'[m] = net[m]
    BY <1>1, <2>1, <2>4 DEF k
  <2>6. \A m \in Node : At(net[m])'
    BY <1>2, <2>1, <2>3, <2>5 DEF At
  <2>7. Kept
    BY <1>3, <2>4, <2>5
  <2> QED
    BY <1>1, <2>1, <2>5, <2>6, <2>7 DEF NetInv
<1>7. CASE Switch
  <2>1. stage = "phase1" /\ stage' = "phase2" /\ UNCHANGED <<net, gen, snb>> /\ \A n \in Node : HasNew(n)
    BY <1>7 DEF Switch
  <2>2. ASSUME NEW n \in Node PROVE Distributed(net[n], gen)
    <3>1. ~Before(net[n], gen)
      BY <1>1, <2>1 DEF HasNew, Held, Before
    <3> QED
      BY <1>2, <2>1, <3>1 DEF At
  <2>3. \A n \in Node : At(net[n])'
    BY <2>1, <2>2 DEF At
  <2> QED
    BY <1>1, <1>4, <2>1, <2>3 DEF NetInv
<1>8. CASE Revoke
  <2>1. stage = "phase2" /\ stage' = "idle" /\ UNCHANGED <<net, gen, snb>> /\ \A n \in Node : Switched(n)
    BY <1>8 DEF Revoke
  <2>2. ASSUME NEW n \in Node PROVE InUse(net[n], gen) \/ After(net[n], gen)
    BY <1>2, <2>1 DEF At, Switched, Distributed
  <2>3. \A n \in Node : At(net[n])'
    BY <1>1, <2>1, <2>2 DEF At
  <2> QED
    BY <1>1, <1>4, <2>1, <2>3 DEF NetInv
<1>9. ASSUME NEW n \in Node, NEW v, NEW refresh \in BOOLEAN, Heard(n, v, refresh),
         \/ v = gen - 1 /\ ~refresh /\ stage # "idle"
         \/ v = gen /\ (refresh <=> stage = "phase2")
         \/ v = gen /\ ~refresh /\ stage = "phase2" /\ snb
         \/ v = gen /\ ~refresh /\ stage = "idle",
         stage = "phase1" => v = gen - 1
      PROVE  NetInv' /\ Kept
  <2> DEFINE k == NetHeard(net[n], v, refresh)
  <2>1. k \in Key /\ At(k) /\ k.key[Tx(k)] >= net[n].key[Tx(net[n])]
    BY <1>9, HeardStep
  <2>2. net' = [net EXCEPT ![n] = k] /\ UNCHANGED <<gen, stage, snb>>
    BY <1>9 DEF Heard
  <2> HIDE DEF k
  <2>3. net' \in [Node -> Key] /\ net'[n] = k /\ \A m \in Node : m # n => net'[m] = net[m]
    BY <1>1, <2>1, <2>2
  <2>4. \A m \in Node : At(net[m])'
    BY <1>2, <2>1, <2>2, <2>3 DEF At
  <2>5. Kept
    BY <1>3, <2>1, <2>3
  <2> QED
    BY <1>1, <2>2, <2>3, <2>4, <2>5 DEF NetInv
<1>10. ASSUME NEW n \in Node, HearManager(n) PROVE NetInv' /\ Kept
  <2>1. Heard(n, IF stage = "phase1" THEN gen - 1 ELSE gen, stage = "phase2")
    BY <1>10 DEF HearManager, Beacons
  <2> DEFINE v == IF stage = "phase1" THEN gen - 1 ELSE gen
             r == stage = "phase2"
  <2>2. Heard(n, v, r) /\ r \in BOOLEAN
    BY <2>1
  <2>3. /\ \/ v = gen - 1 /\ ~r /\ stage # "idle"
           \/ v = gen /\ (r <=> stage = "phase2")
           \/ v = gen /\ ~r /\ stage = "phase2" /\ snb
           \/ v = gen /\ ~r /\ stage = "idle"
        /\ stage = "phase1" => v = gen - 1
    BY <1>1
  <2> HIDE DEF v, r
  <2> QED
    BY <1>9, <2>2, <2>3
<1>11. ASSUME NEW n \in Node, NEW m \in Node, HearNode(n, m) PROVE NetInv' /\ Kept
  <2> DEFINE v == net[m].key[Tx(net[m])]
  <2>1. Heard(n, v, FALSE) /\ snb
    BY <1>11 DEF HearNode
  <2>2. v = gen \/ (v = gen - 1 /\ stage # "idle")
    BY <1>1, <1>2, Sends DEF At
  <2>3. stage = "phase1" => v = gen - 1
    BY <1>1, <1>2, Sends DEF At
  <2> HIDE DEF v
  <2> QED
    BY <1>1, <1>9, <2>1, <2>2, <2>3
<1>12. CASE StartBeacons
  <2>1. snb' = TRUE /\ UNCHANGED <<net, gen, stage>>
    BY <1>12 DEF StartBeacons
  <2>2. \A n \in Node : At(net[n])'
    BY <1>2, <2>1 DEF At
  <2> QED
    BY <1>1, <1>4, <2>1, <2>2 DEF NetInv
<1>13. CASE UNCHANGED vars \/ \E n \in Node : UpdateApp(n)
  <2>1. UNCHANGED <<net, gen, stage, snb>>
    BY <1>13 DEF vars, UpdateApp
  <2>2. \A n \in Node : At(net[n])'
    BY <1>2, <2>1 DEF At
  <2> QED
    BY <1>1, <1>4, <2>1, <2>2 DEF NetInv
<1> QED
  BY <1>5, <1>6, <1>7, <1>8, <1>10, <1>11, <1>12, <1>13 DEF Next

\* A node never goes back to an older network key for what it sends, whatever
\* beacons of the manager and of other nodes it hears, as long as none is from
\* an earlier stage (meshx_net_key_state_transit, meshx_net_tx_key_get).
THEOREM NetKeyNeverBack ==
  ASSUME LabelType, ~LateBeacons
  PROVE  Spec => NetNeverBack
<1>1. Init => NetInv
  BY NetInit
<1>2. NetInv /\ [Next]_vars => NetInv'
  BY NetStep
<1>3. NetInv /\ [Next]_vars
      => [\A n \in Node : net'[n].key[Tx(net'[n])] >= net[n].key[Tx(net[n])]]_vars
  BY NetStep
<1> QED
  BY <1>1, <1>2, <1>3, PTL DEF Spec, NetNeverBack

-----------------------------------------------------------------------------
(* What one node sends another one opens. *)

LEMMA Understood ==
  ASSUME LabelInjective, NetInv, ~snb, NEW n \in Node, NEW m \in Node
  PROVE  LET i == Tx(net[m]) IN Opens(net[n], net[m].key[i], net[m].label[i])
<1> DEFINE k == net[n]
           o == net[m]
<1>1. At(k) /\ At(o) /\ gen \in Value /\ (stage # "idle" => gen >= 1)
      /\ stage \in {"idle", "phase1", "phase2"}
  BY DEF NetInv
<1> HIDE DEF k, o
<1>2. PICK v \in {gen - 1, gen} :
        /\ v \in Value /\ (v = gen - 1 => gen >= 1)
        /\ o.key[Tx(o)] = v /\ o.label[Tx(o)] = Label(v)
        /\ \E i \in Held(k) : k.key[i] = v
  <2>1. CASE stage = "phase1"
    <3>1. o.key[Tx(o)] = gen - 1 /\ o.label[Tx(o)] = Label(gen - 1)
      BY <1>1, <2>1 DEF At, Before, Distributed, Both, Tx
    <3>2. 0 \in Held(k) /\ k.key[0] = gen - 1
      BY <1>1, <2>1 DEF At, Before, Distributed, Both, Held
    <3> QED
      BY <1>1, <2>1, <3>1, <3>2
  <2>2. CASE stage # "phase1"
    <3>1. \/ o.key[Tx(o)] = gen /\ o.label[Tx(o)] = Label(gen)
          \/ stage = "phase2" /\ o.key[Tx(o)] = gen - 1 /\ o.label[Tx(o)] = Label(gen - 1)
      BY <1>1, <2>2 DEF At, InUse, After, Distributed, Both, Tx
    <3>2. \E i \in Held(k) : k.key[i] = gen
      BY <1>1, <2>2 DEF At, InUse, After, Distributed, Both, Held
    <3>3. stage = "phase2" => \E i \in Held(k) : k.key[i] = gen - 1
      BY <1>1, <2>2 DEF At, InUse, Distributed, Both, Held
    <3> QED
      BY <1>1, <3>1, <3>2, <3>3
  <2> QED
    BY <2>1, <2>2
<1>3. \A i \in Held(k) : k.key[i] \in Value /\ k.label[i] = Label(k.key[i])
  <2>1. Before(k, gen) \/ Distributed(k, gen) \/ InUse(k, gen) \/ After(k, gen)
    BY <1>1 DEF At
  <2>2. gen - 1 \in Value \/ gen = 0
    BY <1>1
  <2>3. gen = 0 => After(k, gen)
    BY <1>1 DEF At
  <2> QED
    BY <1>1, <2>1, <2>2, <2>3 DEF Before, Distributed, InUse, Both, After, Held
<1>4. \A i \in Held(k) : k.label[i] = Label(v) => k.key[i] = v
  BY <1>2, <1>3 DEF LabelInjective
<1>5. Opens(k, v, Label(v))
  <2> DEFINE fits == {i \in Held(k) : k.label[i] = Label(v)}
  <2>1. PICK j \in Held(k) : k.key[j] = v
    BY <1>2
  <2>2. j \in fits /\ fits \subseteq {0, 1} /\ \A i \in fits : k.key[i] = v
    BY <1>3, <1>4, <2>1 DEF Held
  <2>3. \E i \in fits : \A l \in fits : l >= i
    <3> HIDE DEF fits
    <3>1. CASE 0 \in fits
      BY <2>2, <3>1
    <3>2. CASE 0 \notin fits
      BY <2>2, <3>2
    <3> QED
      BY <3>1, <3>2
  <2> QED
    BY <2>2, <2>3 DEF Opens
<1> QED
  BY <1>2, <1>5 DEF k, o

\* Through a whole refresh every node opens the network PDUs of every other,
\* as long as the manager's beacons are the only ones (the key lists that
\* meshx_net_receive walks, meshx_beacon_receive, meshx_net_key_update).
THEOREM NetAlwaysUnderstood ==
  ASSUME LabelType, LabelInjective, ~LateBeacons
  PROVE  Spec => []NetUnderstood
<1>1. Init => NetInv
  BY NetInit
<1>2. NetInv /\ [Next]_vars => NetInv'
  BY NetStep
<1>3. NetInv => NetUnderstood
  BY Understood DEF NetUnderstood
<1> QED
  BY <1>1, <1>2, <1>3, PTL DEF Spec

-----------------------------------------------------------------------------
(* The application keys, and the types. *)

AppInv == app \in [Node -> SoundKey]

LEMMA AppStep ==
  ASSUME LabelType, NetInv, AppInv, [Next]_vars
  PROVE  AppInv'
<1>1. app \in [Node -> SoundKey] /\ gen \in Value
  BY DEF AppInv, NetInv
<1>2. ASSUME NEW n \in Node, UpdateApp(n) PROVE AppInv'
  <2>1. AppUpdate(app[n], net[n].state, gen) \in SoundKey
    BY <1>1, AppUpdateType
  <2> QED
    BY <1>1, <1>2, <2>1 DEF UpdateApp, AppInv
<1>3. ASSUME NEW n \in Node, NEW v, NEW refresh, Heard(n, v, refresh) PROVE AppInv'
  <2>1. AppHeard(app[n], net[n], v, refresh) \in SoundKey
    BY <1>1, AppHeardType
  <2> QED
    BY <1>1, <1>3, <2>1 DEF Heard, AppInv
<1>4. ASSUME NEW n \in Node, HearManager(n) PROVE AppInv'
  BY <1>3, <1>4 DEF HearManager
<1>5. ASSUME NEW n \in Node, NEW m \in Node, HearNode(n, m) PROVE AppInv'
  BY <1>3, <1>5 DEF HearNode
<1>6. ASSUME app' = app PROVE AppInv'
  BY <1>1, <1>6 DEF AppInv
<1> QED
  BY <1>2, <1>4, <1>5, <1>6 DEF Next, vars, Begin, Switch, Revoke, StartBeacons, UpdateNet

\* Keys are well formed: a key in an update has the value it is being updated
\* to, on which the transmit choice of phase 2 rests (meshx_app_tx_key_get).
THEOREM TypeCorrectKeys ==
  ASSUME LabelType, ~LateBeacons
  PROVE  Spec => []TypeOK
<1>1. Init => NetInv /\ AppInv
  <2> SUFFICES ASSUME Init PROVE AppInv
    BY NetInit
  <2>1. 0 \in Value /\ Label(0) \in Nat /\ Junk \subseteq Nat
    BY DEF LabelType
  <2>2. \A j \in Junk : Added(0, j) \in SoundKey
    BY <2>1 DEF Added, SoundKey, Key, State
  <2> QED
    BY <2>2 DEF Init, AppInv
<1>2. NetInv /\ AppInv /\ [Next]_vars => (NetInv /\ AppInv)'
  BY NetStep, AppStep
<1>3. NetInv /\ AppInv => TypeOK
  <2> SUFFICES ASSUME NetInv, AppInv PROVE TypeOK
    OBVIOUS
  <2>1. ASSUME NEW n \in Node, net[n].state # "normal" PROVE net[n].key[1] \in Value
    BY <2>1 DEF NetInv, At, Before, After, Distributed, InUse, Both
  <2>2. ASSUME NEW n \in Node, app[n].state # "normal" PROVE app[n].key[1] \in Value
    BY <2>2 DEF AppInv, SoundKey
  <2>3. app \in [Node -> Key]
    BY DEF AppInv, SoundKey
  <2> QED
    BY <2>1, <2>2, <2>3 DEF TypeOK, NetInv
<1> QED
  BY <1>1, <1>2, <1>3, PTL DEF Spec
=============================================================================
