----------------------------- MODULE KeyCalls -----------------------------
(***************************************************************************)
(* The key lists of one node and the calls that change them:               *)
(* mesh/node/meshx_key.c with the beacons of mesh/beacon/meshx_beacon.c.   *)
(* Keys of several indices, application keys that hold a pointer to the    *)
(* network key they are bound to, and device keys for ranges of addresses. *)
(***************************************************************************)
EXTENDS KeyStore, Integers, FiniteSetsExt, SequencesExt

CONSTANTS
  NetIndex, AppIndex,        \* key indices the caller uses
  NetMax, AppMax, DevMax,    \* net_key_num, app_key_num, dev_key_num
  Address, Elements,         \* primary addresses and element counts that are added
  Freed                      \* what a pointer refers to when its key was deleted

ASSUME KeyCallsAssumption ==
  /\ NetMax \in Nat /\ AppMax \in Nat /\ DevMax \in Nat
  /\ NetIndex \subseteq Nat /\ Address \subseteq Nat \ {0} /\ Elements \subseteq Nat \ {0}
  /\ Freed \notin NetIndex

VARIABLES
  nets,  \* network keys, in the order they were added
  apps,  \* application keys
  devs   \* device keys
vars == <<nets, apps, devs>>

Range1(d) == d.first .. d.first + d.count - 1

Indices(list) == {list[p].index : p \in DOMAIN list}
At(list, i) == CHOOSE p \in DOMAIN list : list[p].index = i

\* meshx_find_net_key leaves its loop with the last key when none fits.
Found(i) == IF i \in Indices(nets) THEN i ELSE Last(nets).index

Free(list, max) == Len(list) < max

Init == nets = <<>> /\ apps = <<>> /\ devs = <<>>

-----------------------------------------------------------------------------
(* Calls; one that is refused changes nothing and is left out. *)

AddNet(i, v) ==
  /\ i \notin Indices(nets) /\ Free(nets, NetMax)
  /\ nets' = Append(nets, [index |-> i, k |-> Added(v, 0)])
  /\ UNCHANGED <<apps, devs>>

UpdateNet(i, v) ==
  /\ i \in Indices(nets)
  /\ nets' = [nets EXCEPT ![At(nets, i)].k = NetUpdate(@, v)]
  /\ UNCHANGED <<apps, devs>>

\* The application keys bound to it keep their pointer.
DeleteNet(i) ==
  /\ i \in Indices(nets)
  /\ nets' = RemoveAt(nets, At(nets, i))
  /\ apps' = [p \in DOMAIN apps |-> IF apps[p].bind = i THEN [apps[p] EXCEPT !.bind = Freed] ELSE apps[p]]
  /\ UNCHANGED devs

AddApp(i, a, v) ==
  /\ a \notin Indices(apps) /\ Free(apps, AppMax)
  /\ nets # <<>>
  /\ apps' = Append(apps, [index |-> a, bind |-> Found(i), asked |-> i, k |-> Added(v, 0)])
  /\ UNCHANGED <<nets, devs>>

\* States the pointer may lead to: anything when it dangles.
BoundStates(a) == IF a.bind = Freed THEN State ELSE {nets[At(nets, a.bind)].k.state}

UpdateApp(a, v) ==
  /\ a \in Indices(apps)
  /\ \E s \in BoundStates(apps[At(apps, a)]) :
       apps' = [apps EXCEPT ![At(apps, a)].k = AppUpdate(@, s, v)]
  /\ UNCHANGED <<nets, devs>>

\* A beacon under a value of key i moves the keys bound to it along, and
\* perhaps one whose pointer dangles.
Hear(i, v, refresh) ==
  /\ i \in Indices(nets)
  /\ LET k == nets[At(nets, i)].k
     IN /\ Ordered(k, v, refresh) # "none"
        /\ nets' = [nets EXCEPT ![At(nets, i)].k = NetHeard(k, v, refresh)]
        /\ \E stray \in SUBSET {p \in DOMAIN apps : apps[p].bind = Freed} :
             apps' = [p \in DOMAIN apps |->
                        IF apps[p].bind = i \/ p \in stray
                        THEN [apps[p] EXCEPT !.k = AppHeard(@, k, v, refresh)] ELSE apps[p]]
  /\ UNCHANGED devs

OverlapsAtEnd(d, e) == Max(Range1(d)) \in Range1(e)

\* The new range d overlaps e when its first or last address lies in e.
Overlaps(d, e) == d.first \in Range1(e) \/ Max(Range1(d)) \in Range1(e)

AddDev(d) ==
  /\ Free(devs, DevMax)
  /\ \A p \in DOMAIN devs : ~Overlaps(d, devs[p])
  /\ devs' = Append(devs, d)
  /\ UNCHANGED <<nets, apps>>

\* The device key for an address: the first whose range has it.
DevGet(addr) == SelectInSeq(devs, LAMBDA d : addr \in Range1(d))

Next ==
  \/ \E i \in NetIndex : DeleteNet(i)
  \/ \E i \in NetIndex, v \in Value : AddNet(i, v) \/ UpdateNet(i, v)
  \/ \E i \in NetIndex, a \in AppIndex, v \in Value : AddApp(i, a, v)
  \/ \E a \in AppIndex, v \in Value : UpdateApp(a, v)
  \/ \E i \in NetIndex, v \in Value, r \in BOOLEAN : Hear(i, v, r)
  \/ \E d \in [first : Address, count : Elements] : AddDev(d)
Spec == Init /\ [][Next]_vars

-----------------------------------------------------------------------------
(* Properties *)

\* The lists keep to their sizes and hold no index twice.
TypeOK ==
  /\ nets \in Seq([index : NetIndex, k : Key]) /\ Len(nets) <= NetMax
  /\ apps \in Seq([index : AppIndex, bind : NetIndex \cup {Freed}, asked : NetIndex, k : Key])
  /\ Len(apps) <= AppMax /\ Len(devs) <= DevMax
  /\ \A list \in {nets, apps} : \A p, q \in DOMAIN list : list[p].index = list[q].index => p = q

\* An application key is refreshed only along with the network key it is
\* bound to: it is in no other phase than that key, whatever calls and
\* beacons come in whatever order.
AppFollowsNet ==
  \A p \in DOMAIN apps :
    apps[p].k.state # "normal" /\ apps[p].bind # Freed =>
      apps[p].k.state = nets[At(nets, apps[p].bind)].k.state

\* However the ranges were added, a node's primary address leads to its own
\* device key.
PrimaryFound == \A p \in DOMAIN devs : DevGet(devs[p].first) = p

-----------------------------------------------------------------------------
(* What comments and messages of the code promise and the code does not    *)
(* keep; README.md, section 5, tells how each is refuted.                  *)

\* An application key is bound to the network key it was added with.
BoundAsAsked == \A p \in DOMAIN apps : apps[p].bind = apps[p].asked

\* No address belongs to two device keys.
DevDisjoint ==
  \A p, q \in DOMAIN devs : p # q => Range1(devs[p]) \cap Range1(devs[q]) = {}
=============================================================================
