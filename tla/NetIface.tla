----------------------------- MODULE NetIface -----------------------------
(***************************************************************************)
(* Network interfaces, mesh/network/meshx_net_iface.c, and how a network   *)
(* PDU finds its way out and in: meshx_net_send, meshx_net_loopback and    *)
(* meshx_net_send_to_bearer of mesh/network/meshx_net.c, and the bearer of *)
(* mesh/bearer/meshx_bearer_adv.c.  There is one advertising bearer; the   *)
(* repository cannot create a GATT bearer.                                 *)
(***************************************************************************)
EXTENDS Naturals, Sequences, FiniteSets, Functions, SequencesExt

CONSTANTS
  Iface,         \* interfaces a caller creates
  IfaceMax,      \* MESHX_NET_IFACE_MAX_NUM, the loopback interface included
  Unconnected,   \* whether PDUs are sent while an interface has no bearer
  Loopback, Null

ASSUME NetIfaceAssumption ==
  /\ IfaceMax \in Nat \ {0} /\ Unconnected \in BOOLEAN
  /\ Loopback \notin Iface /\ Null \notin Iface \cup {Loopback} /\ Iface # {}

VARIABLES
  list,     \* meshx_net_iface_list
  type,     \* of each interface: "invalid", "adv", "loopback"
  bearer,   \* what each interface points at: "none", "adv", or "stray" memory
  filter,   \* whether each interface has its filters
  exists,   \* whether the bearer exists
  stale,    \* whether some interface has held a pointer that nothing had cleared
  linked,   \* the interface the bearer points at, or Null
  copies,   \* copies of the PDU sent last that went to the bearer
  received  \* interfaces the PDUs sent or received last came in by
vars == <<list, type, bearer, filter, exists, stale, linked, copies, received>>

All == Iface \cup {Loopback}
Created == ToSet(list)

Init ==
  /\ list = <<Loopback>>
  /\ type = [i \in All |-> IF i = Loopback THEN "loopback" ELSE "invalid"]
  /\ bearer = [i \in All |-> "none"]
  /\ filter = [i \in All |-> i = Loopback]
  /\ exists = FALSE /\ stale = FALSE /\ linked = Null
  /\ copies = 0 /\ received = {}

Room == Len(list) < IfaceMax

\* Only the type of the new block is cleared (sizeof of the handle): the
\* bearer is what the memory held, which may have been this interface's.
Create(i) ==
  /\ i \notin Created /\ Room
  /\ list' = Append(list, i)
  /\ type' = [type EXCEPT ![i] = "invalid"]
  /\ \E b \in {"none", "stray", bearer[i]} :
       /\ bearer' = [bearer EXCEPT ![i] = b]
       /\ stale' = (stale \/ b # "none")
  /\ filter' = [filter EXCEPT ![i] = FALSE]
  /\ UNCHANGED <<exists, linked, copies, received>>

UnlinkedOnlyIface(i) == linked' = linked

\* The bearer an interface points at forgets its interface.
Unlinked(i) == linked' = IF bearer[i] = "adv" THEN Null ELSE linked

Delete(i) ==
  /\ i \in Created
  /\ \E k \in 1 .. Len(list) : list[k] = i /\ list' = RemoveAt(list, k)
  /\ Unlinked(i)
  /\ UNCHANGED <<type, bearer, filter, exists, stale, copies, received>>

Connectable(i) == i \in Created /\ exists /\ bearer[i] = "none" /\ linked = Null

Connect(i) ==
  /\ Connectable(i)
  /\ type' = [type EXCEPT ![i] = "adv"]
  /\ bearer' = [bearer EXCEPT ![i] = "adv"]
  /\ filter' = [filter EXCEPT ![i] = TRUE]
  /\ linked' = i
  /\ UNCHANGED <<list, exists, stale, copies, received>>

Disconnect(i) ==
  /\ i \in Created
  /\ type' = [type EXCEPT ![i] = "invalid"]
  /\ bearer' = [bearer EXCEPT ![i] = "none"]
  /\ filter' = [filter EXCEPT ![i] = FALSE]
  /\ Unlinked(i)
  /\ UNCHANGED <<list, exists, stale, copies, received>>

\* meshx_bearer_adv_create and meshx_bearer_adv_delete: the interface keeps
\* its pointer to the one bearer there is.
CreateBearer ==
  /\ ~exists
  /\ exists' = TRUE /\ linked' = Null
  /\ UNCHANGED <<stale, list, type, bearer, filter, copies, received>>

DeleteBearer ==
  /\ exists
  /\ exists' = FALSE /\ stale' = TRUE /\ linked' = Null
  /\ UNCHANGED <<list, type, bearer, filter, copies, received>>

-----------------------------------------------------------------------------
(* A network PDU.  own: whether it is for an address of this node. *)

Reaches(i) == type[i] # "loopback" /\ bearer[i] = "adv" /\ exists
Visited == {i \in Created : type[i] # "loopback"}
MaySend == Unconnected \/ \A i \in Visited : bearer[i] = "adv"

\* On every interface, or through the loopback one when it is for this node.
SendOnAll(own) ==
  /\ MaySend
  /\ IF own THEN copies' = 0 /\ received' = {Head(list)}
     ELSE copies' = Cardinality({i \in Visited : Reaches(i)}) /\ received' = {}
  /\ UNCHANGED <<list, type, bearer, filter, exists, stale, linked>>

\* On the interface the message names; meshx_upper_trans_send has refused one
\* that is not connected.
SendOn(i) ==
  /\ MaySend /\ i \in Created
  /\ type[i] = "loopback" \/ (type[i] # "invalid" /\ bearer[i] # "none")
  /\ IF type[i] = "loopback" THEN copies' = 0 /\ received' = {Head(list)}
     ELSE copies' = (IF Reaches(i) THEN 1 ELSE 0) /\ received' = {}
  /\ UNCHANGED <<list, type, bearer, filter, exists, stale, linked>>

\* A PDU from the bearer comes in by the interface the bearer points at.
Receive ==
  /\ exists /\ linked # Null
  /\ received' = {linked} /\ copies' = 0
  /\ UNCHANGED <<list, type, bearer, filter, exists, stale, linked>>

Next ==
  \/ \E i \in Iface : Create(i) \/ Delete(i) \/ Connect(i) \/ Disconnect(i)
  \/ CreateBearer \/ DeleteBearer
  \/ \E own \in BOOLEAN : SendOnAll(own)
  \/ \E i \in All : SendOn(i)
  \/ Receive
Spec == Init /\ [][Next]_vars

-----------------------------------------------------------------------------
(* Properties *)

\* The list keeps to its size, with the loopback interface first, where a
\* message to the node itself is looked for.
TypeOK ==
  /\ list \in Seq(All) /\ Len(list) \in 1 .. IfaceMax /\ Head(list) = Loopback
  /\ IsInjective(list)
  /\ type \in [All -> {"invalid", "adv", "loopback"}] /\ bearer \in [All -> {"none", "adv", "stray"}]
  /\ filter \in [All -> BOOLEAN] /\ exists \in BOOLEAN /\ stale \in BOOLEAN
  /\ linked \in All \cup {Null} /\ received \subseteq All /\ copies \in Nat

\* An interface and the bearer point at each other or not at all, so that
\* what goes out and what comes in use the same interface, until an
\* interface comes from memory that was not cleared, or the bearer is deleted.
Linked == ~stale => \A i \in Created : bearer[i] = "adv" <=> linked = i

\* A PDU comes in only by an interface that is there and has its filters.
ReceivedByLive == linked # Null => linked \in Created /\ filter[linked]

-----------------------------------------------------------------------------
(* What comments and messages of the code promise and the code does not    *)
(* keep; README.md, section 5, tells how each is refuted.                  *)

\* A PDU goes out at most once on a bearer, which is connected to one
\* interface only.
SentOnce == copies <= 1

\* Every interface that a message visits on its way out has an output filter,
\* the one that "hasn't been connected to any bearer" too.
FiltersSet == MaySend => \A i \in Visited : filter[i]

\* An interface that a connect finds to have "already been connected to
\* bearer" has been connected.
AlreadyConnected == \A i \in Created : bearer[i] # "none" => type[i] # "invalid"
=============================================================================
