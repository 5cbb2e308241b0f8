---------------------------- MODULE BearerProofs ----------------------------
(***************************************************************************)
(* Proofs about what carries the PDUs of the network layer.  NetIface, for *)
(* any number of interfaces: a PDU comes in only by an interface that is   *)
(* in the list and has its filters, and as long as no pointer is stale an  *)
(* interface and the bearer point at each other.  Proxy, for any lengths:  *)
(* what a GATT bearer hands up is a whole message, as it was sent on it,   *)
(* when the bearer refused no part of it.                                  *)
(***************************************************************************)
EXTENDS NetIface, Proxy, SequenceTheorems, FiniteSetTheorems, TLAPS

USE NetIfaceAssumption DEF NetIfaceAssumption

-----------------------------------------------------------------------------
(* The list of meshx_list.c: it grows at its end and loses an element      *)
(* anywhere but at its head.                                               *)

\* An append adds the element and leaves the others where they are.
LEMMA AppendList ==
  ASSUME NEW S, NEW s \in Seq(S), NEW e \in S, e \notin ToSet(s), IsInjective(s), Len(s) >= 1
  PROVE  LET r == Append(s, e)
         IN r \in Seq(S) /\ Len(r) = Len(s) + 1 /\ r[1] = s[1]
            /\ IsInjective(r) /\ ToSet(r) = ToSet(s) \cup {e}
<1> DEFINE r == Append(s, e)
<1>1. r \in Seq(S) /\ Len(r) = Len(s) + 1 /\ DOMAIN r = 1 .. Len(s) + 1
  OBVIOUS
<1>2. \A j \in 1 .. Len(s) + 1 : r[j] = IF j <= Len(s) THEN s[j] ELSE e
  OBVIOUS
<1>3. DOMAIN s = 1 .. Len(s) /\ Len(s) \in Nat
  OBVIOUS
<1> HIDE DEF r
<1>4. \A j \in 1 .. Len(s) : s[j] # e
  BY <1>3 DEF ToSet
<1>5. IsInjective(r)
  BY <1>1, <1>2, <1>3, <1>4 DEF IsInjective
<1>6. ToSet(r) = ToSet(s) \cup {e}
  BY <1>1, <1>2, <1>3 DEF ToSet
<1> QED
  BY <1>1, <1>2, <1>3, <1>5, <1>6 DEF r

\* The elements after k move up by one place.
LEMMA RemoveAtList ==
  ASSUME NEW S, NEW s \in Seq(S), NEW k \in 1 .. Len(s)
  PROVE  /\ RemoveAt(s, k) \in Seq(S) /\ Len(RemoveAt(s, k)) = Len(s) - 1
         /\ \A j \in 1 .. Len(s) - 1 : RemoveAt(s, k)[j] = IF j < k THEN s[j] ELSE s[j + 1]
<1> DEFINE a == SubSeq(s, 1, k - 1)
           b == SubSeq(s, k + 1, Len(s))
<1>1. /\ a \in Seq(S) /\ Len(a) = k - 1 /\ \A j \in 1 .. k - 1 : a[j] = s[j]
      /\ b \in Seq(S) /\ Len(b) = Len(s) - k /\ \A j \in 1 .. Len(s) - k : b[j] = s[k + j]
  BY SubSeqProperties
<1> HIDE DEF a, b
<1>2. RemoveAt(s, k) = a \o b
  BY DEF RemoveAt, a, b
<1>3. /\ a \o b \in Seq(S) /\ Len(a \o b) = Len(s) - 1
      /\ \A j \in 1 .. Len(s) - 1 : (a \o b)[j] = IF j < k THEN a[j] ELSE b[j - (k - 1)]
  BY <1>1, ConcatProperties
<1>4. \A j \in k .. Len(s) - 1 : b[j - (k - 1)] = s[j + 1]
  BY <1>1
<1> QED
  BY <1>1, <1>2, <1>3, <1>4

\* A removal keeps the head and takes out nothing else.
LEMMA RemoveList ==
  ASSUME NEW S, NEW s \in Seq(S), NEW k \in 2 .. Len(s), IsInjective(s)
  PROVE  LET r == RemoveAt(s, k)
         IN r \in Seq(S) /\ Len(r) = Len(s) - 1 /\ r[1] = s[1]
            /\ IsInjective(r) /\ ToSet(r) = ToSet(s) \ {s[k]}
<1> DEFINE r == RemoveAt(s, k)
<1>1. DOMAIN s = 1 .. Len(s) /\ Len(s) \in Nat
  OBVIOUS
<1>2. k \in 1 .. Len(s)
  BY <1>1
<1> HIDE DEF r
<1>3. /\ r \in Seq(S) /\ Len(r) = Len(s) - 1 /\ DOMAIN r = 1 .. Len(s) - 1
      /\ \A j \in 1 .. Len(s) - 1 : r[j] = IF j < k THEN s[j] ELSE s[j + 1]
  <2>1. /\ r \in Seq(S) /\ Len(r) = Len(s) - 1
        /\ \A j \in 1 .. Len(s) - 1 : r[j] = IF j < k THEN s[j] ELSE s[j + 1]
    BY <1>2, RemoveAtList DEF r
  <2> QED
    BY <2>1
<1>4. IsInjective(r)
  BY <1>1, <1>3, SMTT(30) DEF IsInjective
<1>5. ASSUME NEW x \in ToSet(r) PROVE x \in ToSet(s) /\ x # s[k]
  <2>1. PICK j \in 1 .. Len(s) - 1 : r[j] = x
    BY <1>3, <1>5 DEF ToSet
  <2>2. PICK l \in 1 .. Len(s) : s[l] = x /\ l # k
    BY <1>3, <2>1
  <2> QED
    BY <1>1, <2>2 DEF IsInjective, ToSet
<1>6. ASSUME NEW x \in ToSet(s), x # s[k] PROVE x \in ToSet(r)
  <2>1. PICK j \in 1 .. Len(s) : s[j] = x /\ j # k
    BY <1>1, <1>6 DEF ToSet
  <2>2. CASE j < k
    <3>1. j \in 1 .. Len(s) - 1 /\ r[j] = s[j]
      BY <1>1, <1>3, <2>1, <2>2
    <3> QED
      BY <1>3, <2>1, <3>1 DEF ToSet
  <2>3. CASE j > k
    <3>1. j - 1 \in 1 .. Len(s) - 1 /\ r[j - 1] = s[j]
      BY <1>1, <1>3, <2>1, <2>3
    <3> QED
      BY <1>3, <2>1, <3>1 DEF ToSet
  <2> QED
    BY <2>1, <2>2, <2>3
<1> QED
  BY <1>1, <1>3, <1>4, <1>5, <1>6 DEF r

\* A list holds finitely many elements.
LEMMA ListFinite ==
  ASSUME NEW S, NEW s \in Seq(S)
  PROVE  IsFiniteSet(ToSet(s))
<1> DEFINE f == [j \in 1 .. Len(s) |-> s[j]]
<1>1. IsFiniteSet(1 .. Len(s))
  BY FS_Interval
<1>2. ToSet(s) = {s[j] : j \in 1 .. Len(s)}
  BY DEF ToSet
<1>3. f \in Surjection(1 .. Len(s), ToSet(s))
  BY <1>2 DEF Surjection
<1> QED
  BY <1>1, <1>3, FS_Surjection

-----------------------------------------------------------------------------
(* The interface that the bearer points at is in the list, connected, with *)
(* its filters; there is none without a bearer.                            *)

LinkInv ==
  /\ linked # Null => linked \in Created \cap Iface /\ bearer[linked] = "adv" /\ filter[linked]
  /\ ~exists => linked = Null
  /\ bearer[Loopback] = "none"

Inv == TypeOK /\ LinkInv /\ Linked

LEMMA Inductive ==
  ASSUME Inv, [Next]_vars
  PROVE  Inv'
<1> USE DEF Created
<1>1. /\ list \in Seq(All) /\ Len(list) \in 1 .. IfaceMax /\ list[1] = Loopback /\ IsInjective(list)
      /\ type \in [All -> {"invalid", "adv", "loopback"}] /\ bearer \in [All -> {"none", "adv", "stray"}]
      /\ filter \in [All -> BOOLEAN] /\ exists \in BOOLEAN /\ stale \in BOOLEAN
      /\ linked \in All \cup {Null} /\ received \subseteq All /\ copies \in Nat
      /\ Loopback \in Created /\ Created \subseteq All
  BY DEF Inv, TypeOK, ToSet
<1>2. /\ linked # Null => linked \in Created \cap Iface /\ bearer[linked] = "adv" /\ filter[linked]
      /\ ~exists => linked = Null
      /\ bearer[Loopback] = "none"
      /\ ~stale => \A i \in Created : bearer[i] = "adv" <=> linked = i
  BY DEF Inv, LinkInv, Linked
<1>3. ASSUME NEW i \in Iface, Create(i) PROVE Inv'
  <2>1. /\ i \notin Created /\ Len(list) < IfaceMax /\ list' = Append(list, i)
        /\ type' = [type EXCEPT ![i] = "invalid"] /\ filter' = [filter EXCEPT ![i] = FALSE]
        /\ UNCHANGED <<exists, linked, copies, received>>
    BY <1>3 DEF Create, Room
  <2>2. PICK b \in {"none", "stray", bearer[i]} :
          bearer' = [bearer EXCEPT ![i] = b] /\ stale' = (stale \/ b # "none")
    BY <1>3 DEF Create
  <2>3. /\ list' \in Seq(All) /\ Len(list') \in 1 .. IfaceMax /\ list'[1] = Loopback
        /\ IsInjective(list') /\ Created' = Created \cup {i}
    BY <1>1, <2>1, AppendList DEF All
  <2>4. TypeOK'
    BY <1>1, <2>1, <2>2, <2>3 DEF TypeOK, All
  <2>5. LinkInv'
    BY <1>1, <1>2, <2>1, <2>2, <2>3 DEF LinkInv, All
  <2>6. Linked'
    BY <1>1, <1>2, <2>1, <2>2, <2>3 DEF Linked, All
  <2> QED
    BY <2>4, <2>5, <2>6 DEF Inv
<1>4. ASSUME NEW i \in Iface, Delete(i) PROVE Inv'
  <2>1. PICK k \in 1 .. Len(list) : list[k] = i /\ list' = RemoveAt(list, k)
    BY <1>4 DEF Delete
  <2>2. Unlinked(i) /\ i \in Created /\ UNCHANGED <<type, bearer, filter, exists, stale, copies, received>>
    BY <1>4 DEF Delete
  <2>3. k \in 2 .. Len(list)
    BY <1>1, <2>1
  <2>4. /\ list' \in Seq(All) /\ Len(list') \in 1 .. IfaceMax /\ list'[1] = Loopback
        /\ IsInjective(list') /\ Created' = Created \ {i}
    BY <1>1, <2>1, <2>3, RemoveList, SMTT(30)
  <2>5. linked' = IF bearer[i] = "adv" THEN Null ELSE linked
    BY <2>2 DEF Unlinked
  <2>6. TypeOK'
    BY <1>1, <2>2, <2>4, <2>5 DEF TypeOK
  <2>7. LinkInv'
    BY <1>1, <1>2, <2>2, <2>4, <2>5 DEF LinkInv
  <2>8. Linked'
    <3> SUFFICES ASSUME ~stale', NEW j \in Created' PROVE bearer'[j] = "adv" <=> linked' = j
      BY DEF Linked
    <3>1. ~stale /\ j \in Created /\ j \in All /\ j # Null /\ i \in Created
      BY <1>1, <2>2, <2>4, <2>5 DEF All
    <3>2. (bearer[j] = "adv" <=> linked = j) /\ (bearer[i] = "adv" <=> linked = i)
      BY <1>2, <3>1
    <3>3. CASE j = i
      BY <1>1, <2>2, <2>4, <2>5, <3>1, <3>2, <3>3
    <3>4. CASE j # i
      BY <1>1, <2>2, <2>4, <2>5, <3>1, <3>2, <3>4
    <3> QED
      BY <3>3, <3>4
  <2> QED
    BY <2>6, <2>7, <2>8 DEF Inv
<1>5. ASSUME NEW i \in Iface, Connect(i) PROVE Inv'
  <2>1. /\ i \in Created /\ exists /\ linked = Null /\ linked' = i
        /\ type' = [type EXCEPT ![i] = "adv"] /\ bearer' = [bearer EXCEPT ![i] = "adv"]
        /\ filter' = [filter EXCEPT ![i] = TRUE]
        /\ UNCHANGED <<list, exists, stale, copies, received>>
    BY <1>5 DEF Connect, Connectable
  <2>2. TypeOK'
    BY <1>1, <2>1 DEF TypeOK
  <2>3. LinkInv'
    BY <1>1, <1>2, <2>1 DEF LinkInv
  <2>4. Linked'
    <3> SUFFICES ASSUME ~stale', NEW j \in Created' PROVE bearer'[j] = "adv" <=> linked' = j
      BY DEF Linked
    <3>1. ~stale /\ j \in Created /\ j \in All /\ j # Null /\ i \in Created
      BY <1>1, <2>1 DEF All
    <3>2. (bearer[j] = "adv" <=> linked = j) /\ (bearer[i] = "adv" <=> linked = i)
      BY <1>2, <3>1
    <3>3. CASE j = i
      BY <1>1, <2>1, <3>1, <3>2, <3>3
    <3>4. CASE j # i
      BY <1>1, <2>1, <3>1, <3>2, <3>4
    <3> QED
      BY <3>3, <3>4
  <2> QED
    BY <2>2, <2>3, <2>4 DEF Inv
<1>6. ASSUME NEW i \in Iface, Disconnect(i) PROVE Inv'
  <2>1. /\ i \in Created /\ linked' = IF bearer[i] = "adv" THEN Null ELSE linked
        /\ type' = [type EXCEPT ![i] = "invalid"] /\ bearer' = [bearer EXCEPT ![i] = "none"]
        /\ filter' = [filter EXCEPT ![i] = FALSE]
        /\ UNCHANGED <<list, exists, stale, copies, received>>
    BY <1>6 DEF Disconnect, Unlinked
  <2>2. TypeOK'
    BY <1>1, <2>1 DEF TypeOK
  <2>3. LinkInv'
    BY <1>1, <1>2, <2>1 DEF LinkInv
  <2>4. Linked'
    <3> SUFFICES ASSUME ~stale', NEW j \in Created' PROVE bearer'[j] = "adv" <=> linked' = j
      BY DEF Linked
    <3>1. ~stale /\ j \in Created /\ j \in All /\ j # Null /\ i \in Created
      BY <1>1, <2>1 DEF All
    <3>2. (bearer[j] = "adv" <=> linked = j) /\ (bearer[i] = "adv" <=> linked = i)
      BY <1>2, <3>1
    <3>3. CASE j = i
      BY <1>1, <2>1, <3>1, <3>2, <3>3
    <3>4. CASE j # i
      BY <1>1, <2>1, <3>1, <3>2, <3>4
    <3> QED
      BY <3>3, <3>4
  <2> QED
    BY <2>2, <2>3, <2>4 DEF Inv
<1>7. CASE CreateBearer \/ DeleteBearer
  <2>1. /\ linked' = Null /\ exists' \in BOOLEAN /\ stale' \in BOOLEAN
        /\ UNCHANGED <<list, type, bearer, filter, copies, received>>
        /\ ~stale' => ~stale /\ ~exists
    BY <1>1, <1>7 DEF CreateBearer, DeleteBearer
  <2>2. TypeOK'
    BY <1>1, <2>1 DEF TypeOK
  <2>3. LinkInv'
    BY <1>2, <2>1 DEF LinkInv
  <2>4. Linked'
    BY <1>1, <1>2, <2>1 DEF Linked
  <2> QED
    BY <2>2, <2>3, <2>4 DEF Inv
<1>8. Head(list) \in All
  BY <1>1
<1>9. ASSUME received' \subseteq All, copies' \in Nat, UNCHANGED <<list, type, bearer, filter, exists, stale, linked>>
      PROVE  Inv'
  BY <1>1, <1>2, <1>9 DEF Inv, TypeOK, LinkInv, Linked
<1>10. ASSUME NEW own \in BOOLEAN, SendOnAll(own) PROVE Inv'
  <2> DEFINE S == {i \in Visited : Reaches(i)}
  <2>1. Cardinality(S) \in Nat
    <3>1. IsFiniteSet(Created)
      BY <1>1, ListFinite
    <3>2. S \subseteq Created
      BY DEF Visited
    <3> QED
      BY <3>1, <3>2, FS_Subset, FS_CardinalityType
  <2> HIDE DEF S
  <2>2. copies' \in {0, Cardinality(S)} /\ received' \subseteq {Head(list)}
    BY <1>10 DEF SendOnAll, S
  <2> QED
    BY <1>8, <1>9, <1>10, <2>1, <2>2 DEF SendOnAll
<1>11. ASSUME NEW i \in All, SendOn(i) PROVE Inv'
  BY <1>8, <1>9, <1>11 DEF SendOn
<1>12. CASE Receive
  BY <1>1, <1>9, <1>12 DEF Receive
<1>13. CASE UNCHANGED vars
  BY <1>1, <1>9, <1>13 DEF vars
<1> QED
  BY <1>3, <1>4, <1>5, <1>6, <1>7, <1>10, <1>11, <1>12, <1>13 DEF Next

LEMMA LinkInit == Init => Inv
<1> SUFFICES ASSUME Init PROVE Inv
  OBVIOUS
<1>1. /\ list = <<Loopback>> /\ exists = FALSE /\ stale = FALSE /\ linked = Null
      /\ copies = 0 /\ received = {}
      /\ type = [i \in All |-> IF i = Loopback THEN "loopback" ELSE "invalid"]
      /\ bearer = [i \in All |-> "none"]
      /\ filter = [i \in All |-> i = Loopback]
  BY DEF Init
<1>2. list \in Seq(All) /\ Len(list) = 1 /\ list[1] = Loopback /\ Head(list) = Loopback /\ IsInjective(list)
  BY <1>1 DEF IsInjective, All
<1>3. TypeOK
  <2>1. Len(list) \in 1 .. IfaceMax
    BY <1>2
  <2>2. type \in [All -> {"invalid", "adv", "loopback"}]
    BY <1>1
  <2>3. bearer \in [All -> {"none", "adv", "stray"}] /\ filter \in [All -> BOOLEAN]
    BY <1>1
  <2> QED
    BY <1>1, <1>2, <2>1, <2>2, <2>3 DEF TypeOK
<1>4. Created \subseteq All
  BY <1>2 DEF Created, ToSet
<1> QED
  BY <1>1, <1>3, <1>4 DEF Inv, LinkInv, Linked, All

\* The list keeps to its size without repetitions and with the loopback
\* interface first (meshx_net_iface_create, meshx_net_iface_delete,
\* meshx_net_loopback).
THEOREM TypeCorrectIfaces == Spec => []TypeOK
<1>1. Inv => TypeOK
  BY DEF Inv
<1> QED
  BY LinkInit, Inductive, <1>1, PTL DEF Spec

\* As long as no pointer is stale, an interface and the bearer point at each
\* other or not at all (meshx_net_iface_connect, meshx_net_iface_disconnect).
THEOREM PointersAgree == Spec => []Linked
<1>1. Inv => Linked
  BY DEF Inv
<1> QED
  BY LinkInit, Inductive, <1>1, PTL DEF Spec

\* A PDU comes in only by an interface that is in the list and has its
\* filters, even after the bearer has been deleted or an interface came from
\* memory that was not cleared (meshx_release_net_iface, meshx_net_iface_receive).
THEOREM ReceivedByConnected == Spec => []ReceivedByLive
<1>1. Inv => ReceivedByLive
  BY DEF Inv, LinkInv, ReceivedByLive
<1> QED
  BY LinkInit, Inductive, <1>1, PTL DEF Spec

-----------------------------------------------------------------------------
(***************************************************************************)
(* Proxy.  What a context holds is the start of a message, of which the    *)
(* PDU that comes next on the bearer is the rest, unless it starts another *)
(* message.  A PDU is the part of a message behind byte k up to byte l.    *)
(***************************************************************************)

PduType == {"net", "beacon"}
Byte(m, k) == <<m, k>>
Octet == Nat \X Nat
Pdu == [sar : {"complete", "first", "continue", "last"}, type : PduType, data : Seq(Octet)]
Context == [id : Nat, type : PduType, data : Seq(Octet), max : Nat, alloc : Nat, timer : BOOLEAN]
SentType == [bearer : Bearer, len : Nat \ {0}, type : PduType, whole : BOOLEAN]
ProxyTyped ==
  /\ air \in [Bearer -> Seq(Pdu)]
  /\ ctx \in [Bearer -> Context \cup {NoCtx}]
  /\ sent \in Seq(SentType)
  /\ made \in Nat

\* Bytes k + 1 to l of message m, and a PDU that carries them, of the log s.
Bytes(m, k, l) == [j \in 1 .. l - k |-> Byte(m, k + j)]
Part(s, b, p, m, k, l) ==
  /\ m \in DOMAIN s /\ s[m].bearer = b /\ p.type = s[m].type
  /\ k \in Nat /\ l \in Nat /\ k <= l /\ l <= s[m].len
  /\ p.data = Bytes(m, k, l)
  /\ Starts(p) <=> (k = 0)
  /\ (p.sar = "last") => (l = s[m].len)
  /\ (k = l) => (p.sar = "last")

\* After a PDU comes the first one of a message, or the one that goes on, or
\* one of a message of which others were refused.
OfLost(s, b, r) == \E m, k, l : Part(s, b, r, m, k, l) /\ ~s[m].whole
Follows(s, b, p, r) ==
  \/ Starts(r)
  \/ OfLost(s, b, r)
  \/ p.sar # "last" /\ \E m, k, l, h : Part(s, b, p, m, k, l) /\ Part(s, b, r, m, l, h)
Flow(s, b, a) ==
  /\ \A j \in DOMAIN a : \E m, k, l : Part(s, b, a[j], m, k, l)
  /\ \A j \in DOMAIN a : j + 1 \in DOMAIN a => Follows(s, b, a[j], a[j + 1])

\* A context, or none, and what comes next, as long as nothing of a message
\* of which others were refused has come into it.
WithGap(s, d) == \E m \in DOMAIN s : ~s[m].whole /\ \E k \in DOMAIN d : d[k][1] = m
Holds(s, b, c, m, l) ==
  /\ m \in DOMAIN s /\ s[m].bearer = b /\ c.type = s[m].type
  /\ l \in Nat /\ l <= s[m].len /\ c.data = Bytes(m, 0, l)
GoesOn(s, b, a, m, l) ==
  a # << >> => Starts(Head(a)) \/ OfLost(s, b, Head(a)) \/ \E h : Part(s, b, Head(a), m, l, h)
Collects(s, b, c, a) ==
  c # NoCtx => WithGap(s, c.data) \/ \E m, l : Holds(s, b, c, m, l) /\ GoesOn(s, b, a, m, l)

ProxyInv ==
  /\ ProxyTyped /\ Intact
  /\ \A b \in Bearer : Flow(sent, b, air[b]) /\ Collects(sent, b, ctx[b], air[b])

-----------------------------------------------------------------------------
(* PDUs *)

\* The sequence d has n bytes of message m, those behind byte k.
AreBytes(d, m, k, n) ==
  d \in Seq(Octet) /\ Len(d) = n /\ \A j \in 1 .. n : d[j] = Byte(m, k + j)

\* What Bytes gives.
LEMMA BytesAre ==
  ASSUME NEW m \in Nat, NEW k \in Nat, NEW l \in Nat, k <= l
  PROVE  AreBytes(Bytes(m, k, l), m, k, l - k) /\ ((Bytes(m, k, l) = << >>) <=> (k = l))
<1> DEFINE d == Bytes(m, k, l)
<1>1. l - k \in Nat
  OBVIOUS
<1>2. \A j \in 1 .. l - k : Byte(m, k + j) \in Octet
  BY <1>1 DEF Byte, Octet
<1>3. d \in Seq(Octet) /\ Len(d) = l - k
  BY <1>1, <1>2 DEF Bytes
<1>4. \A j \in 1 .. l - k : d[j] = Byte(m, k + j)
  BY DEF Bytes
<1> HIDE DEF d
<1>5. (d = << >>) <=> (k = l)
  BY <1>3
<1> QED
  BY <1>3, <1>4, <1>5 DEF d, AreBytes

\* A PDU with data is one part only.
LEMMA OnePart ==
  ASSUME NEW s, DOMAIN s \subseteq Nat, NEW b, NEW p, p.data # << >>,
         NEW m, NEW k, NEW l, Part(s, b, p, m, k, l),
         NEW n, NEW g, NEW h, Part(s, b, p, n, g, h)
  PROVE  m = n /\ k = g /\ l = h
<1>1. m \in Nat /\ k \in Nat /\ l \in Nat /\ k <= l /\ p.data = Bytes(m, k, l)
  BY DEF Part
<1>2. n \in Nat /\ g \in Nat /\ h \in Nat /\ g <= h /\ p.data = Bytes(n, g, h)
  BY DEF Part
<1>3. AreBytes(p.data, m, k, l - k) /\ k # l
  BY <1>1, BytesAre
<1>4. AreBytes(p.data, n, g, h - g) /\ g # h
  BY <1>2, BytesAre
<1>5. 1 \in 1 .. l - k /\ 1 \in 1 .. h - g
  BY <1>1, <1>2, <1>3, <1>4
<1>6. Byte(m, k + 1) = Byte(n, g + 1)
  BY <1>3, <1>4, <1>5 DEF AreBytes
<1>7. m = n /\ k + 1 = g + 1
  BY <1>6 DEF Byte
<1>8. l - k = h - g
  BY <1>3, <1>4 DEF AreBytes
<1> QED
  BY <1>1, <1>2, <1>7, <1>8

\* Parts put together.
LEMMA Together ==
  ASSUME NEW m \in Nat, NEW k \in Nat, NEW l \in Nat, k <= l
  PROVE  Bytes(m, 0, k) \o Bytes(m, k, l) = Bytes(m, 0, l)
<1> DEFINE x == Bytes(m, 0, k)
           y == Bytes(m, k, l)
           z == Bytes(m, 0, l)
<1>0. 0 \in Nat /\ 0 <= k /\ 0 <= l
  OBVIOUS
<1>1. AreBytes(x, m, 0, k - 0)
  BY <1>0, BytesAre
<1>2. AreBytes(y, m, k, l - k)
  BY BytesAre
<1>3. AreBytes(z, m, 0, l - 0)
  BY <1>0, BytesAre
<1> HIDE DEF x, y, z
<1>4. x \in Seq(Octet) /\ Len(x) = k /\ \A j \in 1 .. k : x[j] = Byte(m, j)
  BY <1>1 DEF AreBytes
<1>5. z \in Seq(Octet) /\ Len(z) = l /\ \A j \in 1 .. l : z[j] = Byte(m, j)
  BY <1>3 DEF AreBytes
<1>9. y \in Seq(Octet) /\ Len(y) = l - k /\ \A j \in 1 .. l - k : y[j] = Byte(m, k + j)
  BY <1>2 DEF AreBytes
<1>6. x \o y \in Seq(Octet) /\ Len(x \o y) = l
  <2>1. x \o y \in Seq(Octet) /\ Len(x \o y) = Len(x) + Len(y)
    BY <1>4, <1>9, ConcatProperties
  <2> QED
    BY <1>4, <1>9, <2>1
<1>7. ASSUME NEW j \in 1 .. l PROVE (x \o y)[j] = z[j]
  <2>1. CASE j <= k
    <3>1. (x \o y)[j] = x[j]
      BY <1>4, <1>9, <2>1
    <3> QED
      BY <3>1, <2>1, <1>4, <1>5
  <2>2. CASE j > k
    <3>1. (x \o y)[j] = y[j - k]
      BY <1>4, <1>9, <2>2
    <3>2. j - k \in 1 .. l - k /\ k + (j - k) = j
      BY <2>2
    <3>3. y[j - k] = Byte(m, k + (j - k))
      BY <3>2, <1>9
    <3>4. y[j - k] = Byte(m, j)
      BY <3>2, <3>3
    <3> QED
      BY <3>1, <3>4, <1>5
  <2>3. j <= k \/ j > k
    OBVIOUS
  <2> QED
    BY <2>1, <2>2, <2>3
<1>8. x \o y = z
  BY <1>5, <1>6, <1>7, SeqEqual
<1> QED
  BY <1>8 DEF x, y, z

\* A part taken out.
Cutting(d, k, l) == SubSeq(d, k + 1, l)
LEMMA TakenOut ==
  ASSUME NEW m \in Nat, NEW len \in Nat, NEW k \in Nat, NEW l \in Nat, k <= l, l <= len
  PROVE  Cutting(Bytes(m, 0, len), k, l) = Bytes(m, k, l)
<1> DEFINE x == Bytes(m, 0, len)
           y == Bytes(m, k, l)
           z == SubSeq(x, k + 1, l)
<1>0. 0 \in Nat /\ 0 <= len
  OBVIOUS
<1>1. AreBytes(x, m, 0, len - 0)
  BY <1>0, BytesAre
<1>2. AreBytes(y, m, k, l - k)
  BY BytesAre
<1> HIDE DEF x, y
<1>3. x \in Seq(Octet) /\ Len(x) = len /\ \A j \in 1 .. len : x[j] = Byte(m, j)
  BY <1>1 DEF AreBytes
<1>7. y \in Seq(Octet) /\ Len(y) = l - k /\ \A j \in 1 .. l - k : y[j] = Byte(m, k + j)
  BY <1>2 DEF AreBytes
<1>4. z \in Seq(Octet) /\ Len(z) = l - k /\ \A j \in 1 .. l - k : z[j] = x[k + j]
  <2>1. k + 1 \in 1 .. Len(x) + 1 /\ l \in (k + 1) - 1 .. Len(x)
    BY <1>3
  <2>2. z \in Seq(Octet) /\ Len(z) = l - (k + 1) + 1 /\ \A j \in 1 .. l - (k + 1) + 1 : z[j] = x[(k + 1) + j - 1]
    BY <1>3, <2>1, SubSeqProperties
  <2> QED
    BY <2>2
<1> HIDE DEF z
<1>5. ASSUME NEW j \in 1 .. l - k PROVE z[j] = y[j]
  <2>1. k + j \in 1 .. len
    OBVIOUS
  <2> QED
    BY <2>1, <1>7, <1>3, <1>4
<1>6. z = y
  BY <1>7, <1>4, <1>5, SeqEqual
<1> QED
  BY <1>6 DEF x, y, z, Cutting

-----------------------------------------------------------------------------
(* meshx_proxy_send *)

\* The bytes that the first i PDUs of a message carry.
Edge(len, i) == IF i <= len \div Mtu THEN i * Mtu ELSE len

LEMMA Edges ==
  ASSUME NEW len \in Nat, Mtu <= len
  PROVE  LET n == len \div Mtu
         IN  /\ n \in Nat \ {0} /\ Edge(len, 0) = 0 /\ Edge(len, n + 1) = len
             /\ \A i \in 0 .. n + 1 : Edge(len, i) \in Nat /\ Edge(len, i) <= len
             /\ \A i \in 1 .. n : Edge(len, i - 1) < Edge(len, i)
             /\ \A i \in 1 .. n : Edge(len, i) > 0
<1>1. Mtu \in Nat /\ Mtu > 0
  BY ProxyAssumption
<1> DEFINE n == len \div Mtu
<1>2. n \in Nat /\ n * Mtu <= len /\ n > 0
  BY <1>1
<1>3. \A i \in 0 .. n : i * Mtu \in Nat /\ i * Mtu <= n * Mtu
  BY <1>1, <1>2
<1>4. \A i \in 1 .. n : (i - 1) * Mtu < i * Mtu
  BY <1>1, <1>2
<1>5. 0 * Mtu = 0
  BY <1>1
<1>6. \A i \in 0 .. n : Edge(len, i) = i * Mtu
  BY <1>2 DEF Edge
<1>7. Edge(len, n + 1) = len
  BY <1>2 DEF Edge
<1> HIDE DEF n
<1>8. n * Mtu \in Nat
  BY <1>2, <1>3
<1>9. \A i \in 0 .. n + 1 : Edge(len, i) \in Nat /\ Edge(len, i) <= len
  <2> TAKE i \in 0 .. n + 1
  <2>1. CASE i = n + 1
    BY <1>7, <2>1
  <2>2. CASE i \in 0 .. n
    BY <1>2, <1>3, <1>6, <1>8, <2>2
  <2> QED
    BY <1>2, <2>1, <2>2
<1>10. \A i \in 1 .. n : Edge(len, i - 1) < Edge(len, i)
  <2> TAKE i \in 1 .. n
  <2>1. i \in 0 .. n /\ i - 1 \in 0 .. n
    BY <1>2
  <2>2. Edge(len, i) = i * Mtu /\ Edge(len, i - 1) = (i - 1) * Mtu
    BY <1>6, <2>1
  <2> QED
    BY <1>4, <2>2
<1>11. \A i \in 1 .. n : Edge(len, i) > 0
  <2> TAKE i \in 1 .. n
  <2>1. i - 1 \in 0 .. n + 1 /\ i \in 0 .. n + 1
    BY <1>2
  <2>2. Edge(len, i - 1) \in Nat /\ Edge(len, i) \in Nat
    BY <1>9, <2>1
  <2> QED
    BY <1>10, <2>2
<1>12. Edge(len, 0) = 0
  BY <1>2, <1>5, <1>6
<1> QED
  BY <1>2, <1>7, <1>9, <1>10, <1>11, <1>12 DEF n

\* What a log says of its messages stays when one is added.
LEMMA Grow ==
  ASSUME NEW R, NEW s \in Seq(R), NEW e \in R, NEW b, NEW p, NEW m, NEW k, NEW l, Part(s, b, p, m, k, l)
  PROVE  Part(Append(s, e), b, p, m, k, l)
<1> DEFINE r == Append(s, e)
<1>1. DOMAIN s \subseteq DOMAIN r /\ \A i \in DOMAIN s : r[i] = s[i]
  OBVIOUS
<1> HIDE DEF r
<1> QED
  BY <1>1 DEF Part, r

LEMMA GrowLost ==
  ASSUME NEW R, NEW s \in Seq(R), NEW e \in R, NEW b, NEW p, OfLost(s, b, p)
  PROVE  OfLost(Append(s, e), b, p)
<1>1. PICK m, k, l : Part(s, b, p, m, k, l) /\ ~s[m].whole
  BY DEF OfLost
<1>2. m \in DOMAIN s
  BY <1>1 DEF Part
<1>3. Append(s, e)[m] = s[m]
  BY <1>2
<1>4. Part(Append(s, e), b, p, m, k, l)
  BY <1>1, Grow
<1> QED
  BY <1>1, <1>3, <1>4 DEF OfLost

LEMMA GrowFlow ==
  ASSUME NEW R, NEW s \in Seq(R), NEW e \in R, NEW b, NEW a, Flow(s, b, a)
  PROVE  Flow(Append(s, e), b, a)
<1>1. \A p, m, k, l : Part(s, b, p, m, k, l) => Part(Append(s, e), b, p, m, k, l)
  BY Grow
<1>4. \A p : OfLost(s, b, p) => OfLost(Append(s, e), b, p)
  BY GrowLost
<1> HIDE DEF Part
<1>2. \A j \in DOMAIN a : \E m, k, l : Part(Append(s, e), b, a[j], m, k, l)
  BY <1>1 DEF Flow
<1>3. ASSUME NEW j \in DOMAIN a, j + 1 \in DOMAIN a PROVE Follows(Append(s, e), b, a[j], a[j + 1])
  <2>1. Follows(s, b, a[j], a[j + 1])
    BY <1>3 DEF Flow
  <2> QED
    BY <2>1, <1>1, <1>4 DEF Follows
<1> QED
  BY <1>2, <1>3 DEF Flow

\* The PDUs of a message, behind those that wait.
LEMMA Behind ==
  ASSUME NEW S, NEW s, NEW b, NEW a \in Seq(S), NEW c \in Seq(S),
         Flow(s, b, a), Flow(s, b, c), c # << >> => Starts(c[1]) \/ OfLost(s, b, c[1])
  PROVE  Flow(s, b, a \o c)
<1> DEFINE x == a \o c
<1>1. x \in Seq(S) /\ Len(x) = Len(a) + Len(c)
  OBVIOUS
<1>2. \A j \in 1 .. Len(a) : x[j] = a[j]
  OBVIOUS
<1>3. \A j \in Len(a) + 1 .. Len(a) + Len(c) : x[j] = c[j - Len(a)]
  OBVIOUS
<1>4. Len(a) \in Nat /\ Len(c) \in Nat /\ DOMAIN a = 1 .. Len(a) /\ DOMAIN c = 1 .. Len(c) /\ DOMAIN x = 1 .. Len(x)
  BY <1>1
<1> HIDE DEF x
<1>5. ASSUME NEW j \in DOMAIN x PROVE \E m, k, l : Part(s, b, x[j], m, k, l)
  <2>1. CASE j <= Len(a)
    <3>1. j \in DOMAIN a /\ x[j] = a[j]
      BY <1>1, <1>2, <1>4, <2>1
    <3> QED
      BY <3>1 DEF Flow
  <2>2. CASE j > Len(a)
    <3>1. j - Len(a) \in DOMAIN c /\ x[j] = c[j - Len(a)]
      BY <1>1, <1>3, <1>4, <2>2
    <3> QED
      BY <3>1 DEF Flow
  <2>3. j <= Len(a) \/ j > Len(a)
    BY <1>1, <1>4
  <2> QED
    BY <2>1, <2>2, <2>3
<1>6. ASSUME NEW j \in DOMAIN x, j + 1 \in DOMAIN x PROVE Follows(s, b, x[j], x[j + 1])
  <2>1. CASE j + 1 <= Len(a)
    <3>1. j \in DOMAIN a /\ j + 1 \in DOMAIN a /\ x[j] = a[j] /\ x[j + 1] = a[j + 1]
      BY <1>1, <1>2, <1>4, <2>1
    <3>2. Follows(s, b, a[j], a[j + 1])
      BY <3>1 DEF Flow
    <3> QED
      BY <3>1, <3>2
  <2>2. CASE j = Len(a)
    <3>1. x[j + 1] = c[1] /\ Len(c) >= 1
      BY <1>1, <1>3, <1>4, <1>6, <2>2
    <3>2. c # << >>
      BY <3>1
    <3> QED
      BY <3>1, <3>2 DEF Follows
  <2>3. CASE j > Len(a)
    <3> DEFINE i == j - Len(a)
    <3>4. j \in Len(a) + 1 .. Len(a) + Len(c) /\ j + 1 \in Len(a) + 1 .. Len(a) + Len(c)
      BY <1>1, <1>4, <1>6, <2>3
    <3>5. x[j] = c[i] /\ x[j + 1] = c[(j + 1) - Len(a)]
      BY <1>3, <3>4
    <3>6. i \in DOMAIN c /\ i + 1 \in DOMAIN c /\ (j + 1) - Len(a) = i + 1
      BY <1>4, <3>4
    <3>1. i \in DOMAIN c /\ i + 1 \in DOMAIN c /\ x[j] = c[i] /\ x[j + 1] = c[i + 1]
      BY <3>5, <3>6
    <3> HIDE DEF i
    <3>2. Follows(s, b, c[i], c[i + 1])
      BY <3>1 DEF Flow
    <3> QED
      BY <3>1, <3>2
  <2>4. j + 1 <= Len(a) \/ j = Len(a) \/ j > Len(a)
    BY <1>1, <1>4
  <2> QED
    BY <2>1, <2>2, <2>3, <2>4
<1> QED
  BY <1>5, <1>6 DEF Flow, x

\* What is left when the first PDU has been taken.
LEMMA Taken ==
  ASSUME NEW S, NEW s, NEW b, NEW a \in Seq(S), a # << >>, Flow(s, b, a)
  PROVE  /\ Flow(s, b, Tail(a)) /\ \E m, k, l : Part(s, b, Head(a), m, k, l)
         /\ (Tail(a) # << >>) => Follows(s, b, Head(a), Head(Tail(a)))
<1> DEFINE x == Tail(a)
<1>1. x \in Seq(S) /\ Len(x) = Len(a) - 1 /\ \A j \in 1 .. Len(a) - 1 : x[j] = a[j + 1]
  OBVIOUS
<1>2. Len(a) \in Nat \ {0} /\ DOMAIN a = 1 .. Len(a) /\ DOMAIN x = 1 .. Len(a) - 1 /\ Head(a) = a[1]
  BY <1>1
<1>3. x # << >> => (1 \in 1 .. Len(a) - 1 /\ Head(x) = x[1])
  BY <1>1
<1> HIDE DEF x
<1>4. ASSUME NEW j \in DOMAIN x PROVE \E m, k, l : Part(s, b, x[j], m, k, l)
  <2>1. j + 1 \in DOMAIN a /\ x[j] = a[j + 1]
    BY <1>1, <1>2
  <2> QED
    BY <2>1 DEF Flow
<1>5. ASSUME NEW j \in DOMAIN x, j + 1 \in DOMAIN x PROVE Follows(s, b, x[j], x[j + 1])
  <2> DEFINE i == j + 1
  <2>1. i \in DOMAIN a /\ i + 1 \in DOMAIN a /\ x[j] = a[i] /\ x[j + 1] = a[i + 1]
    BY <1>1, <1>2, <1>5
  <2> HIDE DEF i
  <2>2. Follows(s, b, a[i], a[i + 1])
    BY <2>1 DEF Flow
  <2> QED
    BY <2>1, <2>2
<1>6. 1 \in DOMAIN a
  BY <1>2
<1>7. \E m, k, l : Part(s, b, Head(a), m, k, l)
  BY <1>2, <1>6 DEF Flow
<1>8. ASSUME x # << >> PROVE Follows(s, b, Head(a), Head(x))
  <2>1. 1 \in DOMAIN a /\ 1 + 1 \in DOMAIN a /\ Head(x) = a[1 + 1]
    BY <1>1, <1>2, <1>3, <1>8
  <2>2. Follows(s, b, a[1], a[1 + 1])
    BY <2>1 DEF Flow
  <2> QED
    BY <1>2, <2>1, <2>2
<1>9. Flow(s, b, x)
  BY <1>4, <1>5 DEF Flow
<1> QED
  BY <1>7, <1>8, <1>9 DEF x

\* PDUs that are the parts of message m, in order, the first one first; and
\* PDUs that may go out on bearer b.
PartsOf(s, b, m, c) ==
  /\ c \in Seq(Pdu) /\ Len(c) >= 1 /\ Starts(c[1]) /\ Flow(s, b, c)
  /\ \A j \in DOMAIN c : \E k, l : Part(s, b, c[j], m, k, l)
GoesOut(s, b, t) ==
  /\ t \in Seq(Pdu) /\ Flow(s, b, t)
  /\ t # << >> => Starts(t[1]) \/ OfLost(s, b, t[1])

\* The PDUs of a new message are its parts.
LEMMA CutParts ==
  ASSUME NEW R, NEW s \in Seq(R), NEW b, NEW len \in Nat \ {0}, NEW kind \in PduType,
         NEW e \in R, e.bearer = b, e.len = len, e.type = kind
  PROVE  PartsOf(Append(s, e), b, Len(s) + 1, Cut([k \in 1 .. len |-> <<Len(s) + 1, k>>], kind))
<1> DEFINE m == Len(s) + 1
           r == Append(s, e)
           d == [k \in 1 .. len |-> <<m, k>>]
           c == Cut(d, kind)
           n == len \div Mtu
<1>1. m \in Nat /\ m \in DOMAIN r /\ r[m] = e
  OBVIOUS
<1>2. d = Bytes(m, 0, len)
  <2>1. ASSUME NEW k \in 1 .. len PROVE <<m, k>> = Byte(m, 0 + k)
    BY DEF Byte
  <2>2. 1 .. len - 0 = 1 .. len
    OBVIOUS
  <2> QED
    BY <2>1, <2>2 DEF Bytes
<1>3. d \in Seq(Octet) /\ Len(d) = len /\ len # 0
  <2>1. 0 \in Nat /\ 0 <= len
    OBVIOUS
  <2>2. AreBytes(d, m, 0, len - 0)
    BY <1>1, <1>2, <2>1, BytesAre
  <2> QED
    BY <2>2 DEF AreBytes
<1> HIDE DEF m, r, d
<1>4. CASE Mtu > len
  <2> DEFINE p == [sar |-> "complete", type |-> kind, data |-> d]
  <2>1. c = <<p>>
    BY <1>3, <1>4 DEF Cut
  <2>2. p \in Pdu
    BY <1>3 DEF Pdu
  <2>3. Part(r, b, p, m, 0, len)
    BY <1>1, <1>2, <1>3 DEF Part, Starts
  <2>4. Starts(p)
    BY DEF Starts
  <2> HIDE DEF p, c
  <2>5. c \in Seq(Pdu) /\ Len(c) = 1 /\ c[1] = p /\ DOMAIN c = {1}
    BY <2>1, <2>2
  <2>6. Flow(r, b, c)
    BY <2>3, <2>5 DEF Flow
  <2>7. \A j \in DOMAIN c : c[j] = p
    BY <2>5
  <2>8. PartsOf(r, b, m, c)
    BY <2>3, <2>4, <2>5, <2>6, <2>7 DEF PartsOf
  <2> QED
    BY <2>8 DEF c, m, r, d
<1>5. CASE ~(Mtu > len)
  <2> DEFINE lo(i) == Edge(len, i - 1)
             hi(i) == Edge(len, i)
             sar(i) == IF i = 1 THEN "first" ELSE IF i = n + 1 THEN "last" ELSE "continue"
             q == [i \in 1 .. n + 1 |-> [sar |-> sar(i), type |-> kind, data |-> Bytes(m, lo(i), hi(i))]]
  <2>0. Mtu <= len
    BY <1>5, ProxyAssumption
  <2>1. /\ n \in Nat \ {0} /\ Edge(len, 0) = 0 /\ Edge(len, n + 1) = len
        /\ \A i \in 0 .. n + 1 : Edge(len, i) \in Nat /\ Edge(len, i) <= len
        /\ \A i \in 1 .. n : Edge(len, i - 1) < Edge(len, i)
        /\ \A i \in 1 .. n : Edge(len, i) > 0
    BY <2>0, Edges
  <2> HIDE DEF n
  <2>2. ASSUME NEW i \in 1 .. n + 1
        PROVE lo(i) \in Nat /\ hi(i) \in Nat /\ lo(i) <= hi(i) /\ hi(i) <= len
    <3>1. i - 1 \in 0 .. n + 1 /\ i \in 0 .. n + 1
      BY <2>1
    <3>2. CASE i = n + 1
      BY <3>1, <3>2, <2>1
    <3>3. CASE i \in 1 .. n
      BY <3>1, <3>3, <2>1
    <3>4. i = n + 1 \/ i \in 1 .. n
      BY <2>1
    <3> QED
      BY <3>2, <3>3, <3>4
  <2>3. ASSUME NEW i \in 1 .. n + 1
        PROVE SubSeq(d, lo(i) + 1, hi(i)) = Bytes(m, lo(i), hi(i)) /\ Bytes(m, lo(i), hi(i)) \in Seq(Octet)
    <3> HIDE DEF lo, hi
    <3>1. lo(i) \in Nat /\ hi(i) \in Nat /\ lo(i) <= hi(i) /\ hi(i) <= len
      BY <2>2
    <3>4. m \in Nat /\ len \in Nat
      BY <1>1
    <3>5. Cutting(Bytes(m, 0, len), lo(i), hi(i)) = Bytes(m, lo(i), hi(i))
      BY <3>1, <3>4, TakenOut
    <3>2. SubSeq(d, lo(i) + 1, hi(i)) = Bytes(m, lo(i), hi(i))
      BY <1>2, <3>5 DEF Cutting
    <3>3. AreBytes(Bytes(m, lo(i), hi(i)), m, lo(i), hi(i) - lo(i))
      BY <1>1, <3>1, BytesAre
    <3> QED
      BY <3>2, <3>3 DEF AreBytes
  <2>4. ASSUME NEW i \in 1 .. n + 1
        PROVE (i - 1) * Mtu = lo(i) /\ (IF i - 1 < n THEN (i - 1 + 1) * Mtu ELSE len) = hi(i)
    <3>1. i - 1 <= n /\ i - 1 + 1 = i /\ (i - 1 < n <=> i <= n)
      BY <2>1
    <3> QED
      BY <3>1 DEF Edge, n
  <2>5. c = [i \in 1 .. n + 1 |-> [sar |-> sar(i), type |-> kind,
               data |-> SubSeq(d, (i - 1) * Mtu + 1, IF i - 1 < n THEN (i - 1 + 1) * Mtu ELSE len)]]
    BY <1>3, <1>5 DEF Cut, n
  <2> HIDE DEF c, lo, hi
  <2>6. c = [i \in 1 .. n + 1 |-> [sar |-> sar(i), type |-> kind, data |-> SubSeq(d, lo(i) + 1, hi(i))]]
    BY <2>4, <2>5
  <2>7. c = q
    BY <2>3, <2>6
  <2>8. \A i \in 1 .. n + 1 : q[i] \in Pdu
    BY <2>3 DEF Pdu
  <2>9. c \in Seq(Pdu) /\ Len(c) = n + 1 /\ DOMAIN c = 1 .. n + 1
    BY <2>1, <2>7, <2>8
  <2>10. ASSUME NEW i \in 1 .. n + 1
         PROVE c[i].sar = sar(i) /\ c[i].type = kind /\ c[i].data = Bytes(m, lo(i), hi(i))
    BY <2>7
  <2> HIDE DEF q
  <2>11. ASSUME NEW i \in 1 .. n + 1 PROVE Part(r, b, c[i], m, lo(i), hi(i))
    <3>1. lo(i) \in Nat /\ hi(i) \in Nat /\ lo(i) <= hi(i) /\ hi(i) <= len
      BY <2>2
    <3>2. i = 1 <=> lo(i) = 0
      <4>1. CASE i = 1
        BY <2>1, <4>1 DEF lo
      <4>2. CASE i # 1
        <5>1. i - 1 \in 1 .. n
          BY <2>1, <4>2
        <5> QED
          BY <2>1, <4>2, <5>1 DEF lo
      <4> QED
        BY <4>1, <4>2
    <3>3. i = n + 1 => hi(i) = len
      BY <2>1 DEF hi
    <3>4. i # n + 1 => lo(i) < hi(i)
      <4>1. SUFFICES ASSUME i # n + 1 PROVE lo(i) < hi(i)
        OBVIOUS
      <4>2. i \in 1 .. n
        BY <2>1, <4>1
      <4> QED
        BY <2>1, <4>2 DEF lo, hi
    <3>5. Starts(c[i]) <=> i = 1
      BY <2>10 DEF Starts
    <3>6. c[i].sar = "last" <=> i = n + 1
      <4>1. c[i].sar = sar(i) /\ 1 # n + 1
        BY <2>1, <2>10
      <4> QED
        BY <4>1
    <3>7. (Starts(c[i]) <=> (lo(i) = 0)) /\ ((c[i].sar = "last") => (hi(i) = len)) /\ ((lo(i) = hi(i)) => (c[i].sar = "last"))
      BY <3>1, <3>2, <3>3, <3>4, <3>5, <3>6
    <3> QED
      BY <1>1, <2>10, <3>1, <3>7 DEF Part
  <2>12. ASSUME NEW i \in 1 .. n + 1, i + 1 \in 1 .. n + 1 PROVE Follows(r, b, c[i], c[i + 1])
    <3>1. i # n + 1 /\ i + 1 - 1 = i
      BY <2>1, <2>12
    <3>2. c[i].sar # "last"
      BY <2>1, <2>10, <3>1
    <3>3. Part(r, b, c[i], m, lo(i), hi(i)) /\ Part(r, b, c[i + 1], m, lo(i + 1), hi(i + 1))
      BY <2>11, <2>12
    <3>4. lo(i + 1) = hi(i)
      BY <3>1 DEF lo, hi
    <3> QED
      BY <3>2, <3>3, <3>4 DEF Follows
  <2>13. Flow(r, b, c)
    BY <2>9, <2>11, <2>12 DEF Flow
  <2>14. 1 \in 1 .. n + 1
    BY <2>1
  <2>15. Starts(c[1])
    BY <2>10, <2>14 DEF Starts
  <2>16. Len(c) >= 1
    BY <2>1, <2>9
  <2>17. PartsOf(r, b, m, c)
    BY <2>9, <2>11, <2>13, <2>15, <2>16 DEF PartsOf
  <2> QED
    BY <2>17 DEF c, m, r, d
<1>6. Mtu > len \/ ~(Mtu > len)
  OBVIOUS
<1> QED
  BY <1>4, <1>5, <1>6

\* What the bearer takes of them: all, or parts of a message not taken whole.
LEMMA TakenParts ==
  ASSUME NEW s, NEW b, NEW m, NEW c, PartsOf(s, b, m, c), NEW t \in {c} \cup Refusals(c), s[m].whole = (t = c)
  PROVE  GoesOut(s, b, t)
<1>1. t \in {c} \cup Refusals(c)
  OBVIOUS
<1>2. c \in Seq(Pdu)
  BY DEF PartsOf
<1>4. CASE t = c
  BY <1>4, Zenon DEF PartsOf, GoesOut
<1>5. CASE t # c
  <2>0. PICK n \in 0 .. Len(c) - 1 : \E f \in Increasing(n, Len(c)) : t = [i \in 1 .. n |-> c[f[i]]]
    BY <1>1, <1>5 DEF Refusals
  <2>1. PICK f \in Increasing(n, Len(c)) : t = [i \in 1 .. n |-> c[f[i]]]
    BY <2>0
  <2>2. f \in [1 .. n -> 1 .. Len(c)] /\ n \in Nat /\ DOMAIN c = 1 .. Len(c)
    BY <1>2, <2>1 DEF Increasing
  <2>3. ASSUME NEW i \in 1 .. n PROVE t[i] = c[f[i]] /\ f[i] \in DOMAIN c /\ c[f[i]] \in Pdu
    <3>1. f[i] \in 1 .. Len(c) /\ t[i] = c[f[i]]
      BY <2>1, <2>2
    <3> QED
      BY <1>2, <2>2, <3>1
  <2>4. DOMAIN t = 1 .. n
    BY <2>1
  <2>5. t \in Seq(Pdu)
    <3>1. t \in [1 .. n -> Pdu]
      BY <2>1, <2>3
    <3> QED
      BY <2>2, <3>1
  <2>6. ASSUME NEW i \in 1 .. n PROVE OfLost(s, b, t[i])
    <3>1. PICK k, l : Part(s, b, c[f[i]], m, k, l)
      BY <2>3 DEF PartsOf
    <3> QED
      BY <1>5, <2>3, <3>1 DEF OfLost
  <2>7. \A j \in DOMAIN t : \E h, k, l : Part(s, b, t[j], h, k, l)
    BY <2>4, <2>6 DEF OfLost
  <2>8. \A j \in DOMAIN t : j + 1 \in DOMAIN t => Follows(s, b, t[j], t[j + 1])
    BY <2>4, <2>6 DEF Follows
  <2>9. t # << >> => OfLost(s, b, t[1])
    BY <2>2, <2>4, <2>5, <2>6
  <2>10. Flow(s, b, t)
    BY <2>7, <2>8 DEF Flow
  <2> QED
    BY <2>5, <2>9, <2>10 DEF GoesOut
<1> QED
  BY <1>4, <1>5

-----------------------------------------------------------------------------
(* meshx_proxy_receive: what is left after the next PDU of a bearer. *)

\* A PDU is taken and the context of its bearer becomes c.
LEMMA Arrives ==
  ASSUME ProxyInv, NEW b \in Bearer, NEW p, Arriving(b, p), NEW c \in Context \cup {NoCtx},
         ctx' = [ctx EXCEPT ![b] = c], made' \in Nat, Intact',
         Collects(sent, b, c, Tail(air[b]))
  PROVE  ProxyInv'
<1>1. ProxyTyped /\ \A x \in Bearer : Flow(sent, x, air[x]) /\ Collects(sent, x, ctx[x], air[x])
  BY DEF ProxyInv
<1>2. air[b] # << >> /\ air' = [air EXCEPT ![b] = Tail(@)] /\ sent' = sent
  BY DEF Arriving
<1>3. ProxyTyped'
  BY <1>1, <1>2 DEF ProxyTyped
<1>4. ASSUME NEW x \in Bearer PROVE Flow(sent, x, air'[x]) /\ Collects(sent, x, ctx'[x], air'[x])
  <2>1. CASE x = b
    <3>1. air'[x] = Tail(air[b]) /\ ctx'[x] = c /\ air[b] \in Seq(Pdu) /\ Flow(sent, b, air[b])
      BY <1>1, <1>2, <2>1 DEF ProxyTyped
    <3>2. Flow(sent, b, Tail(air[b]))
      BY <1>2, <3>1, Taken
    <3> QED
      BY <2>1, <3>1, <3>2
  <2>2. CASE x # b
    <3>1. air'[x] = air[x] /\ ctx'[x] = ctx[x]
      BY <1>1, <1>2, <2>2 DEF ProxyTyped
    <3> QED
      BY <1>1, <3>1
  <2> QED
    BY <2>1, <2>2
<1> QED
  BY <1>2, <1>3, <1>4 DEF ProxyInv

\* The PDU at the head and the one behind it.
LEMMA Next2 ==
  ASSUME ProxyInv, NEW b \in Bearer, NEW p, Arriving(b, p)
  PROVE  /\ p \in Pdu /\ air[b] # << >> /\ p = Head(air[b])
         /\ \E m, k, l : Part(sent, b, p, m, k, l)
         /\ (Tail(air[b]) # << >>) => Follows(sent, b, p, Head(Tail(air[b])))
         /\ DOMAIN sent \subseteq Nat
<1>1. air[b] \in Seq(Pdu) /\ Flow(sent, b, air[b]) /\ air[b] # << >> /\ p = Head(air[b])
  BY DEF ProxyInv, ProxyTyped, Arriving
<1>2. p \in Pdu
  BY <1>1
<1>3. DOMAIN sent \subseteq Nat
  BY DEF ProxyInv, ProxyTyped
<1> QED
  BY <1>1, <1>2, <1>3, Taken

\* A message, whole, as the log has it.
LEMMA Whole ==
  ASSUME ProxyTyped, NEW m \in DOMAIN sent
  PROVE  Message(m) = Bytes(m, 0, sent[m].len)
<1>4. sent[m] \in SentType
  BY DEF ProxyTyped
<1>1. sent[m].len \in Nat
  BY <1>4 DEF SentType
<1>2. 1 .. sent[m].len - 0 = 1 .. sent[m].len
  BY <1>1
<1>3. ASSUME NEW k \in 1 .. sent[m].len PROVE <<m, k>> = Byte(m, 0 + k)
  BY <1>1 DEF Byte
<1> QED
  BY <1>2, <1>3 DEF Message, Bytes

\* Nothing new is given.
LEMMA SameGiven ==
  ASSUME Intact, UNCHANGED <<given, sent>>
  PROVE  Intact'
<1>1. \A m : Message(m)' = Message(m)
  BY DEF Message
<1> QED
  BY <1>1 DEF Intact, IsMessage, OfPartly

LEMMA EmptyStep ==
  ASSUME ProxyInv, NEW b \in Bearer, NEW p, ReceiveEmpty(b, p)
  PROVE  ProxyInv'
<1>1. Arriving(b, p) /\ p.data = << >> /\ ctx' = ctx /\ given' = given /\ made' = made /\ sent' = sent
  BY DEF ReceiveEmpty, Arriving
<1>2. PICK m, k, l : Part(sent, b, p, m, k, l)
  BY <1>1, Next2
<1>3. m \in Nat /\ k \in Nat /\ l \in Nat /\ k <= l /\ Bytes(m, k, l) = << >>
  BY <1>1, <1>2, Next2 DEF Part
<1>4. k = l
  BY <1>3, BytesAre
<1>5. p.sar = "last"
  BY <1>2, <1>4 DEF Part
<1>6. (Tail(air[b]) # << >>) => Starts(Head(Tail(air[b]))) \/ OfLost(sent, b, Head(Tail(air[b])))
  BY <1>1, <1>5, Next2 DEF Follows
<1>7. Collects(sent, b, ctx[b], Tail(air[b]))
  BY <1>6 DEF ProxyInv, Collects, GoesOn
<1>8. ctx[b] \in Context \cup {NoCtx} /\ ctx' = [ctx EXCEPT ![b] = ctx[b]] /\ made' \in Nat
  BY <1>1 DEF ProxyInv, ProxyTyped
<1>9. Intact'
  BY <1>1, SameGiven DEF ProxyInv
<1> QED
  BY <1>1, <1>7, <1>8, <1>9, Arrives

LEMMA UnexpectedStep ==
  ASSUME ProxyInv, NEW b \in Bearer, NEW p, ReceiveUnexpected(b, p)
  PROVE  ProxyInv'
<1>1. Arriving(b, p) /\ ctx[b] = NoCtx /\ ctx' = ctx /\ given' = given /\ made' = made /\ sent' = sent
  BY DEF ReceiveUnexpected, Arriving
<1>2. Collects(sent, b, ctx[b], Tail(air[b]))
  BY <1>1 DEF Collects
<1>3. ctx[b] \in Context \cup {NoCtx} /\ ctx' = [ctx EXCEPT ![b] = ctx[b]] /\ made' \in Nat
  BY <1>1 DEF ProxyInv, ProxyTyped
<1>4. Intact'
  BY <1>1, SameGiven DEF ProxyInv
<1> QED
  BY <1>1, <1>2, <1>3, <1>4, Arrives

LEMMA MismatchStep ==
  ASSUME ProxyInv, NEW b \in Bearer, NEW p, ReceiveMismatch(b, p)
  PROVE  ProxyInv'
<1>1. Arriving(b, p) /\ ctx' = [ctx EXCEPT ![b] = NoCtx] /\ given' = given /\ made' = made /\ sent' = sent
  BY DEF ReceiveMismatch, Arriving
<1>2. Collects(sent, b, NoCtx, Tail(air[b]))
  BY DEF Collects
<1>3. made' \in Nat
  BY <1>1 DEF ProxyInv, ProxyTyped
<1>4. Intact'
  BY <1>1, SameGiven DEF ProxyInv
<1> QED
  BY <1>1, <1>2, <1>3, <1>4, Arrives

LEMMA StartStep ==
  ASSUME ProxyInv, NEW b \in Bearer, NEW p, ReceiveStart(b, p)
  PROVE  ProxyInv'
<1>1. Arriving(b, p) /\ Starts(p) /\ given' = given /\ sent' = sent
  BY DEF ReceiveStart, Arriving
<1>2. ctx[b] = NoCtx
  BY DEF ReceiveStart
<1>3. Intact'
  BY <1>1, SameGiven DEF ProxyInv
<1>4. CASE ctx' = [ctx EXCEPT ![b] = NewCtx(p)] /\ made' = made + 1
  <2> DEFINE c == NewCtx(p)
  <2>1. p \in Pdu
    BY <1>1, Next2
  <2>2. p.data \in Seq(Octet) /\ p.type \in PduType /\ made \in Nat
    BY <2>1 DEF Pdu, ProxyInv, ProxyTyped
  <2>3. Capacity(Len(p.data) + 1) \in Nat
    BY <2>2, ProxyAssumption DEF Capacity
  <2>4. c \in Context /\ c.type = p.type /\ c.data = p.data
    BY <2>2, <2>3 DEF NewCtx, CtxFor, Context
  <2>5. PICK m, k, l : Part(sent, b, p, m, k, l)
    BY <1>1, Next2
  <2>6. k = 0
    BY <1>1, <2>5 DEF Part
  <2> HIDE DEF c
  <2>7. Holds(sent, b, c, m, l)
    BY <2>4, <2>5, <2>6 DEF Part, Holds
  <2>8. GoesOn(sent, b, Tail(air[b]), m, l)
    <3> DEFINE r == Head(Tail(air[b]))
    <3>1. SUFFICES ASSUME Tail(air[b]) # << >>, ~Starts(r), ~OfLost(sent, b, r) PROVE \E h : Part(sent, b, r, m, l, h)
      BY DEF GoesOn
    <3>2. Follows(sent, b, p, r)
      BY <1>1, <3>1, Next2
    <3> HIDE DEF r
    <3>3. PICK n, f, g, h : Part(sent, b, p, n, f, g) /\ Part(sent, b, r, n, g, h)
      BY <3>1, <3>2 DEF Follows
    <3>4. p.data # << >>
      BY DEF ReceiveStart
    <3>5. n = m /\ g = l
      BY <1>1, <2>5, <3>3, <3>4, Next2, OnePart
    <3> QED
      BY <3>3, <3>5
  <2>9. Collects(sent, b, c, Tail(air[b]))
    BY <2>7, <2>8 DEF Collects
  <2>10. c \in Context \cup {NoCtx} /\ ctx' = [ctx EXCEPT ![b] = c]
    BY <1>4, <2>4 DEF c
  <2>11. made' \in Nat
    BY <1>4, <2>2
  <2> QED
    BY <1>1, <1>3, <2>9, <2>10, <2>11, Arrives
<1>5. CASE UNCHANGED <<ctx, made>>
  <2>1. Collects(sent, b, ctx[b], Tail(air[b]))
    BY <1>2 DEF Collects
  <2>2. ctx[b] \in Context \cup {NoCtx} /\ ctx' = [ctx EXCEPT ![b] = ctx[b]] /\ made' \in Nat
    BY <1>5 DEF ProxyInv, ProxyTyped
  <2> QED
    BY <1>1, <1>3, <2>1, <2>2, Arrives
<1> QED
  BY <1>4, <1>5 DEF ReceiveStart

\* A context takes the part that comes next.
LEMMA Joined ==
  ASSUME ProxyTyped, NEW b, NEW c, NEW p, NEW m, NEW l, NEW h, NEW e,
         Holds(sent, b, c, m, l), Part(sent, b, p, m, l, h), e.type = c.type, e.data = c.data \o p.data
  PROVE  Holds(sent, b, e, m, h)
<1>1. m \in Nat /\ l \in Nat /\ h \in Nat /\ l <= h
  BY DEF Part, ProxyTyped
<1>2. e.data = Bytes(m, 0, l) \o Bytes(m, l, h)
  BY DEF Holds, Part
<1>3. e.data = Bytes(m, 0, h)
  BY <1>1, <1>2, Together
<1> QED
  BY <1>1, <1>3 DEF Holds, Part

LEMMA Lengthened ==
  ASSUME NEW c \in Context, NEW d \in Seq(Octet)
  PROVE  LET e == [Expanded(c, Len(d)) EXCEPT !.data = @ \o d]
         IN  e \in Context /\ e.type = c.type /\ e.data = c.data \o d
<1> DEFINE x == Expanded(c, Len(d))
           more == Len(d) + Initial
<1>1. c.data \in Seq(Octet) /\ c.max \in Nat /\ Len(d) \in Nat /\ Initial \in Nat
  BY ProxyAssumption DEF Context
<1>2. c.max + Len(d) + Initial \in Nat /\ Len(c.data) + Len(d) + Initial \in Nat
  BY <1>1
<1>3. x \in Context /\ x.type = c.type /\ x.data = c.data
  <2>1. CASE Len(c.data) + Len(d) > c.max
    <3> DEFINE y == [c EXCEPT !.max = c.max + Len(d) + Initial, !.alloc = Len(c.data) + Len(d) + Initial]
    <3>1. x = y
      BY <2>1 DEF Expanded
    <3>2. y \in Context /\ y.type = c.type /\ y.data = c.data
      BY <1>2 DEF Context
    <3> QED
      BY <3>1, <3>2
  <2>2. CASE ~(Len(c.data) + Len(d) > c.max)
    BY <2>2 DEF Expanded
  <2> QED
    BY <2>1, <2>2
<1> HIDE DEF x
<1>4. x.data \o d \in Seq(Octet)
  BY <1>1, <1>3
<1> DEFINE e == [x EXCEPT !.data = x.data \o d]
<1>5. e \in Context /\ e.type = x.type /\ e.data = x.data \o d
  BY <1>3, <1>4 DEF Context
<1> QED
  BY <1>3, <1>5 DEF x

\* What is in a context stays when more comes to it.
LEMMA GapStays ==
  ASSUME NEW s, NEW c \in Seq(Octet), NEW d \in Seq(Octet), WithGap(s, c) \/ WithGap(s, d)
  PROVE  WithGap(s, c \o d)
<1> DEFINE e == c \o d
<1>1. /\ \A k \in DOMAIN c : k \in DOMAIN e /\ e[k] = c[k]
      /\ \A k \in DOMAIN d : Len(c) + k \in DOMAIN e /\ e[Len(c) + k] = d[k]
  OBVIOUS
<1> HIDE DEF e
<1>2. CASE WithGap(s, c)
  BY <1>1, <1>2 DEF WithGap, e
<1>3. CASE WithGap(s, d)
  BY <1>1, <1>3 DEF WithGap, e
<1> QED
  BY <1>2, <1>3

LEMMA LostHasGap ==
  ASSUME ProxyTyped, NEW b, NEW p, OfLost(sent, b, p), p.data # << >>
  PROVE  WithGap(sent, p.data)
<1>1. PICK m, k, l : Part(sent, b, p, m, k, l) /\ ~sent[m].whole
  BY DEF OfLost
<1>2. m \in Nat /\ m \in DOMAIN sent /\ k \in Nat /\ l \in Nat /\ k <= l /\ p.data = Bytes(m, k, l)
  BY <1>1 DEF Part, ProxyTyped
<1>3. AreBytes(p.data, m, k, l - k) /\ k # l
  BY <1>2, BytesAre
<1>4. 1 \in DOMAIN p.data /\ p.data[1] = Byte(m, k + 1)
  BY <1>2, <1>3 DEF AreBytes
<1>5. p.data[1][1] = m
  BY <1>4 DEF Byte
<1> QED
  BY <1>1, <1>2, <1>4, <1>5 DEF WithGap

\* A whole message is added to what was given, or data with a gap.
LEMMA GivenMore ==
  ASSUME Intact, sent' = sent, NEW g, given' = given \cup {g},
         (\E m \in DOMAIN sent : IsMessage(g, m)) \/ WithGap(sent, g.data)
  PROVE  Intact'
<1>1. \A m : Message(m)' = Message(m)
  BY DEF Message
<1>2. \A h \in given' : (\E m \in DOMAIN sent : IsMessage(h, m)) \/ OfPartly(h.data)
  BY DEF Intact, OfPartly, WithGap
<1> QED
  BY <1>1, <1>2 DEF Intact, IsMessage, OfPartly

LEMMA NextStep ==
  ASSUME ProxyInv, NEW b \in Bearer, NEW p, ReceiveNext(b, p)
  PROVE  ProxyInv'
<1> DEFINE c == [Expanded(ctx[b], Len(p.data)) EXCEPT !.data = @ \o p.data]
           g == [bearer |-> b, type |-> c.type, data |-> c.data]
<1>1. Arriving(b, p) /\ sent' = sent /\ made' = made /\ p.data # << >>
  BY DEF ReceiveNext, Arriving
<1>2. ctx[b] # NoCtx /\ ~Starts(p) /\ ctx[b].type = p.type
  BY DEF ReceiveNext, Mismatches
<1>3. p \in Pdu /\ ctx[b] \in Context /\ ProxyTyped /\ Intact
  BY <1>1, <1>2, Next2 DEF ProxyInv, ProxyTyped
<1>4. p.data \in Seq(Octet) /\ ctx[b].data \in Seq(Octet)
  BY <1>3 DEF Pdu, Context
<1>6. c \in Context /\ c.type = ctx[b].type /\ c.data = ctx[b].data \o p.data
  BY <1>3, <1>4, Lengthened
<1>7. made' \in Nat
  BY <1>1 DEF ProxyInv, ProxyTyped
<1>8. \/ /\ p.sar = "last"
         /\ given' = given \cup {g}
         /\ ctx' = [ctx EXCEPT ![b] = NoCtx]
      \/ /\ p.sar # "last"
         /\ ctx' = [ctx EXCEPT ![b] = c]
         /\ UNCHANGED given
      \/ ctx' = [ctx EXCEPT ![b] = NoCtx] /\ UNCHANGED given
  BY DEF ReceiveNext
<1>9. g.bearer = b /\ g.type = c.type /\ g.data = c.data
  OBVIOUS
<1> HIDE DEF c, g
<1>10. \/ WithGap(sent, c.data)
       \/ \E m, l, h : Holds(sent, b, ctx[b], m, l) /\ Part(sent, b, p, m, l, h)
  <2>1. WithGap(sent, ctx[b].data) \/ \E m, l : Holds(sent, b, ctx[b], m, l) /\ GoesOn(sent, b, air[b], m, l)
    BY <1>2 DEF ProxyInv, Collects
  <2>2. CASE WithGap(sent, ctx[b].data)
    BY <1>4, <1>6, <2>2, GapStays
  <2>3. CASE \E m, l : Holds(sent, b, ctx[b], m, l) /\ GoesOn(sent, b, air[b], m, l)
    <3>1. PICK m, l : Holds(sent, b, ctx[b], m, l) /\ GoesOn(sent, b, air[b], m, l)
      BY <2>3
    <3>2. OfLost(sent, b, p) \/ \E h : Part(sent, b, p, m, l, h)
      BY <1>1, <1>2, <3>1, Next2 DEF GoesOn
    <3>3. OfLost(sent, b, p) => WithGap(sent, c.data)
      BY <1>1, <1>3, <1>4, <1>6, LostHasGap, GapStays
    <3> QED
      BY <3>1, <3>2, <3>3
  <2> QED
    BY <2>1, <2>2, <2>3
<1>11. Collects(sent, b, NoCtx, Tail(air[b])) /\ NoCtx \in Context \cup {NoCtx}
  BY DEF Collects
<1>12. CASE p.sar = "last" /\ given' = given \cup {g} /\ ctx' = [ctx EXCEPT ![b] = NoCtx]
  <2>1. ASSUME NEW m, NEW l, NEW h, Holds(sent, b, ctx[b], m, l), Part(sent, b, p, m, l, h)
        PROVE m \in DOMAIN sent /\ IsMessage(g, m)
    <3>1. Holds(sent, b, c, m, h)
      BY <1>3, <1>6, <2>1, Joined
    <3>2. h = sent[m].len /\ m \in DOMAIN sent
      BY <1>12, <2>1 DEF Part
    <3>3. c.data = Message(m)
      BY <1>3, <3>1, <3>2, Whole DEF Holds
    <3> QED
      BY <1>9, <3>1, <3>2, <3>3 DEF Holds, IsMessage
  <2>2. (\E m \in DOMAIN sent : IsMessage(g, m)) \/ WithGap(sent, g.data)
    BY <1>9, <1>10, <2>1
  <2>3. Intact'
    BY <1>1, <1>3, <1>12, <2>2, GivenMore
  <2> QED
    BY <1>1, <1>7, <1>11, <1>12, <2>3, Arrives
<1>13. CASE p.sar # "last" /\ ctx' = [ctx EXCEPT ![b] = c] /\ UNCHANGED given
  <2>1. ASSUME NEW m, NEW l, NEW h, Holds(sent, b, ctx[b], m, l), Part(sent, b, p, m, l, h)
        PROVE Holds(sent, b, c, m, h) /\ GoesOn(sent, b, Tail(air[b]), m, h)
    <3> DEFINE r == Head(Tail(air[b]))
    <3>1. Holds(sent, b, c, m, h)
      BY <1>3, <1>6, <2>1, Joined
    <3>2. ASSUME Tail(air[b]) # << >>, ~Starts(r), ~OfLost(sent, b, r) PROVE \E f : Part(sent, b, r, m, h, f)
      <4>1. Follows(sent, b, p, r)
        BY <1>1, <3>2, Next2
      <4> HIDE DEF r
      <4>2. PICK n, f, i, j : Part(sent, b, p, n, f, i) /\ Part(sent, b, r, n, i, j)
        BY <3>2, <4>1 DEF Follows
      <4>3. n = m /\ i = h
        BY <1>1, <2>1, <4>2, Next2, OnePart
      <4> QED
        BY <4>2, <4>3
    <3> QED
      BY <3>1, <3>2 DEF GoesOn
  <2>2. Collects(sent, b, c, Tail(air[b]))
    BY <1>10, <2>1 DEF Collects
  <2>3. Intact'
    BY <1>1, <1>3, <1>13, SameGiven
  <2> QED
    BY <1>1, <1>6, <1>7, <1>13, <2>2, <2>3, Arrives
<1>14. CASE ctx' = [ctx EXCEPT ![b] = NoCtx] /\ UNCHANGED given
  <2>1. Intact'
    BY <1>1, <1>3, <1>14, SameGiven
  <2> QED
    BY <1>1, <1>7, <1>11, <1>14, <2>1, Arrives
<1> QED
  BY <1>8, <1>12, <1>13, <1>14

-----------------------------------------------------------------------------
(* The steps that take no PDU. *)

LEMMA ProxySendStep ==
  ASSUME ProxyInv, NEW b \in Bearer, NEW len \in Lengths, NEW kind \in PduType, Send(b, len, kind)
  PROVE  ProxyInv'
<1> DEFINE c == Cut([k \in 1 .. len |-> <<Len(sent) + 1, k>>], kind)
<1>0. PICK t \in {c} \cup Refusals(c) :
        /\ sent' = Append(sent, [bearer |-> b, len |-> len, type |-> kind, whole |-> t = c])
        /\ air' = [air EXCEPT ![b] = @ \o t]
  BY DEF Send
<1> DEFINE e == [bearer |-> b, len |-> len, type |-> kind, whole |-> t = c]
<1>1. ProxyTyped /\ Intact /\ \A x \in Bearer : Flow(sent, x, air[x]) /\ Collects(sent, x, ctx[x], air[x])
  BY DEF ProxyInv
<1>2. len \in Nat \ {0}
  BY ProxyAssumption
<1>3. sent \in Seq(SentType)
  BY <1>1 DEF ProxyTyped
<1>4. sent' = Append(sent, e) /\ ctx' = ctx /\ given' = given /\ made' = made
  BY <1>0 DEF Send
<1>5. air' = [air EXCEPT ![b] = @ \o t]
  BY <1>0
<1>6. e \in SentType /\ GoesOut(sent', b, t)
  <2>1. e \in SentType /\ e.bearer = b /\ e.len = len /\ e.type = kind /\ e.whole = (t = c)
    BY <1>2 DEF SentType
  <2>2. PartsOf(Append(sent, e), b, Len(sent) + 1, c)
    <3> HIDE DEF e
    <3> QED
      BY <1>2, <1>3, <2>1, CutParts
  <2>3. t \in {c} \cup Refusals(c)
    OBVIOUS
  <2> HIDE DEF e, c
  <2>4. Append(sent, e)[Len(sent) + 1] = e
    BY <1>3, <2>1
  <2>5. PICK r, m : r = Append(sent, e) /\ m = Len(sent) + 1
    OBVIOUS
  <2>6. r[m].whole = (t = c) /\ PartsOf(r, b, m, c)
    BY <2>1, <2>2, <2>4, <2>5
  <2>7. GoesOut(r, b, t)
    BY <2>3, <2>6, TakenParts
  <2> QED
    BY <1>4, <2>1, <2>5, <2>7
<1>17. /\ t \in Seq(Pdu) /\ Flow(sent', b, t)
       /\ t # << >> => Starts(t[1]) \/ OfLost(sent', b, t[1])
  BY <1>6 DEF GoesOut
<1> HIDE DEF e, c
<1>7. air \in [Bearer -> Seq(Pdu)] /\ air' \in [Bearer -> Seq(Pdu)]
  BY <1>1, <1>5, <1>6, <1>17 DEF ProxyTyped
<1>8. ProxyTyped'
  <2>1. sent' \in Seq(SentType)
    BY <1>3, <1>4, <1>6, <1>17
  <2> QED
    BY <1>1, <1>4, <1>7, <2>1 DEF ProxyTyped
<1>9. ASSUME NEW x \in Bearer PROVE Flow(sent', x, air[x])
  BY <1>1, <1>3, <1>4, <1>6, <1>17, GrowFlow
<1>10. ASSUME NEW x \in Bearer PROVE Flow(sent', x, air'[x])
  <2>1. CASE x = b
    <3>1. air'[x] = air[b] \o t /\ air[b] \in Seq(Pdu)
      BY <1>5, <1>7, <2>1
    <3>2. Flow(sent', b, air[b] \o t)
      BY <1>6, <1>17, <1>9, <3>1, Behind
    <3> QED
      BY <2>1, <3>1, <3>2
  <2>2. CASE x # b
    BY <1>5, <1>7, <1>9, <2>2
  <2> QED
    BY <2>1, <2>2
<1>11. /\ \A y, p, m, k, l : Part(sent, y, p, m, k, l) => Part(sent', y, p, m, k, l)
       /\ \A y, p : OfLost(sent, y, p) => OfLost(sent', y, p)
  BY <1>3, <1>4, <1>6, <1>17, Grow, GrowLost
<1>12. DOMAIN sent \subseteq DOMAIN sent' /\ \A m \in DOMAIN sent : sent'[m] = sent[m]
  BY <1>3, <1>4, <1>6, <1>17
<1>16. \A d : WithGap(sent, d) => WithGap(sent', d)
  BY <1>12 DEF WithGap
<1>13. ASSUME NEW x \in Bearer, ctx[x] # NoCtx, ~WithGap(sent, ctx[x].data)
       PROVE \E m, l : Holds(sent', x, ctx[x], m, l) /\ GoesOn(sent', x, air'[x], m, l)
  <2>1. PICK m, l : Holds(sent, x, ctx[x], m, l) /\ GoesOn(sent, x, air[x], m, l)
    BY <1>1, <1>13 DEF Collects
  <2>2. Holds(sent', x, ctx[x], m, l)
    BY <1>12, <2>1 DEF Holds
  <2>3. GoesOn(sent', x, air[x], m, l)
    BY <1>11, <2>1 DEF GoesOn
  <2>4. GoesOn(sent', x, air'[x], m, l)
    <3>1. CASE x = b /\ air[x] = << >>
      <4>1. air'[x] = << >> \o t
        BY <1>5, <1>7, <3>1
      <4>2. air'[x] = t
        BY <1>6, <1>17, <4>1
      <4>3. t # << >> => Head(t) = t[1]
        BY <1>6, <1>17
      <4> QED
        BY <1>6, <1>17, <3>1, <4>2, <4>3 DEF GoesOn
    <3>2. CASE x = b /\ air[x] # << >>
      <4>1. air'[x] = air[x] \o t /\ air[x] \in Seq(Pdu)
        BY <1>5, <1>7, <3>2
      <4>2. Head(air[x] \o t) = Head(air[x])
        BY <1>6, <1>17, <3>2, <4>1
      <4> QED
        BY <2>3, <3>2, <4>1, <4>2 DEF GoesOn
    <3>3. CASE x # b
      <4>1. air'[x] = air[x]
        BY <1>5, <1>7, <3>3
      <4> QED
        BY <2>3, <4>1
    <3> QED
      BY <3>1, <3>2, <3>3
  <2> QED
    BY <2>2, <2>4
<1>14. \A x \in Bearer : Collects(sent', x, ctx'[x], air'[x])
  BY <1>4, <1>13, <1>16 DEF Collects
<1>15. Intact'
  <2>1. \A m \in DOMAIN sent : Message(m)' = Message(m)
    BY <1>12 DEF Message
  <2>2. \A m \in DOMAIN sent : \A g : IsMessage(g, m) => IsMessage(g, m)'
    BY <1>12, <2>1 DEF IsMessage
  <2>3. \A d : OfPartly(d) => OfPartly(d)'
    BY <1>12 DEF OfPartly
  <2> QED
    BY <1>1, <1>4, <1>12, <2>2, <2>3 DEF Intact
<1> QED
  BY <1>8, <1>10, <1>14, <1>15 DEF ProxyInv

LEMMA ProxyTimerStep ==
  ASSUME ProxyInv, NEW b \in Bearer, TimerExpires(b)
  PROVE  ProxyInv'
<1>1. UNCHANGED <<air, given, sent, made>> /\ ctx[b] # NoCtx
  BY DEF TimerExpires
<1>2. ctx \in [Bearer -> Context \cup {NoCtx}] /\ ctx[b] \in Context
  BY <1>1 DEF ProxyInv, ProxyTyped
<1> DEFINE c == [ctx[b] EXCEPT !.timer = FALSE]
<1>3. ctx' = [ctx EXCEPT ![b] = c]
  BY DEF TimerExpires
<1>4. c \in Context /\ c.type = ctx[b].type /\ c.data = ctx[b].data
  BY <1>2 DEF Context
<1> HIDE DEF c
<1>5. ProxyTyped'
  BY <1>1, <1>2, <1>3, <1>4 DEF ProxyInv, ProxyTyped
<1>6. Intact'
  BY <1>1, SameGiven DEF ProxyInv
<1>7. ASSUME NEW x \in Bearer PROVE Flow(sent, x, air[x]) /\ Collects(sent, x, ctx'[x], air[x])
  <2>1. CASE x = b
    <3>1. ctx'[x] = c
      BY <1>2, <1>3, <2>1
    <3>2. Collects(sent, b, ctx[b], air[b])
      BY DEF ProxyInv
    <3>3. \A m, l : Holds(sent, b, ctx[b], m, l) => Holds(sent, b, c, m, l)
      BY <1>4 DEF Holds
    <3>4. Collects(sent, b, c, air[b])
      BY <1>1, <1>4, <3>2, <3>3 DEF Collects
    <3> QED
      BY <2>1, <3>1, <3>4 DEF ProxyInv
  <2>2. CASE x # b
    BY <1>2, <1>3, <2>2 DEF ProxyInv
  <2> QED
    BY <2>1, <2>2
<1> QED
  BY <1>1, <1>5, <1>6, <1>7 DEF ProxyInv

LEMMA ProxyTimeoutStep ==
  ASSUME ProxyInv, HandleTimeout
  PROVE  ProxyInv'
<1>1. UNCHANGED <<air, given, sent, made>>
  BY DEF HandleTimeout
<1>2. ctx \in [Bearer -> Context \cup {NoCtx}]
  BY DEF ProxyInv, ProxyTyped
<1>3. ctx' = ctx \/ \E b : ctx' = [ctx EXCEPT ![b] = NoCtx]
  BY DEF HandleTimeout
<1>4. ctx' \in [Bearer -> Context \cup {NoCtx}] /\ \A x \in Bearer : ctx'[x] = ctx[x] \/ ctx'[x] = NoCtx
  BY <1>2, <1>3
<1>5. ProxyTyped'
  BY <1>1, <1>4 DEF ProxyInv, ProxyTyped
<1>6. Intact'
  BY <1>1, SameGiven DEF ProxyInv
<1>7. \A x \in Bearer : Collects(sent, x, ctx'[x], air[x])
  BY <1>4 DEF ProxyInv, Collects
<1> QED
  BY <1>1, <1>5, <1>6, <1>7 DEF ProxyInv

-----------------------------------------------------------------------------
LEMMA ProxyInit0 == ProxyInit => ProxyInv
<1> SUFFICES ASSUME ProxyInit PROVE ProxyInv
  OBVIOUS
<1>1. /\ air = [x \in Bearer |-> << >>] /\ ctx = [x \in Bearer |-> NoCtx]
      /\ given = {} /\ sent = << >> /\ made = 0
  BY DEF ProxyInit
<1>2. ProxyTyped
  BY <1>1 DEF ProxyTyped
<1>3. ASSUME NEW x \in Bearer PROVE Flow(sent, x, air[x]) /\ Collects(sent, x, ctx[x], air[x])
  <2>1. air[x] = << >> /\ ctx[x] = NoCtx /\ DOMAIN << >> = {}
    BY <1>1
  <2> QED
    BY <2>1 DEF Flow, Collects
<1> QED
  BY <1>1, <1>2, <1>3 DEF ProxyInv, Intact

LEMMA ProxyInvNext == ProxyInv /\ [ProxyNext]_proxyVars => ProxyInv'
<1> SUFFICES ASSUME ProxyInv, [ProxyNext]_proxyVars PROVE ProxyInv'
  OBVIOUS
<1>1. CASE UNCHANGED proxyVars
  BY <1>1 DEF proxyVars, ProxyInv, ProxyTyped, Intact, IsMessage, OfPartly, Message
<1>2. CASE \E b \in Bearer, len \in Lengths, kind \in {"net", "beacon"} : Send(b, len, kind)
  BY <1>2, ProxySendStep DEF PduType
<1>3. CASE ProxyReceive
  BY <1>3, EmptyStep, UnexpectedStep, StartStep, MismatchStep, NextStep DEF ProxyReceive
<1>4. CASE \E b \in Bearer : TimerExpires(b)
  BY <1>4, ProxyTimerStep
<1>5. CASE HandleTimeout
  BY <1>5, ProxyTimeoutStep
<1> QED
  BY <1>1, <1>2, <1>3, <1>4, <1>5 DEF ProxyNext

\* What a bearer hands up is a whole message, as it was sent on it, or has a
\* byte of a message of which the bearer refused a PDU; for any PDU and
\* message lengths, whatever allocations fail and contexts time out, until a
\* timeout finds its context gone.
THEOREM WholeMessages == ProxySpec => []Intact
<1>1. ProxyInv => Intact
  BY DEF ProxyInv
<1> QED
  BY <1>1, ProxyInit0, ProxyInvNext, PTL DEF ProxySpec
=============================================================================
