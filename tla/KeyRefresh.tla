---------------------------- MODULE KeyRefresh ----------------------------
(***************************************************************************)
(* A key refresh in a network: nodes that share one network key and one    *)
(* application key bound to it, and a configuration manager that hands out *)
(* the new values, then switches the network over and revokes the old      *)
(* ones with secure network beacons.                                       *)
(*                                                                         *)
(* The nodes are mesh/node/meshx_key.c, mesh/beacon/meshx_beacon.c and the *)
(* key choice of meshx_net_receive and meshx_upper_trans_decrypt.  The     *)
(* manager is outside the repository, which has the calls it would use.    *)
(* Values are numbered by the refresh that brought them.                   *)
(***************************************************************************)
EXTENDS KeyStore

CONSTANTS
  Node,
  MaxGen,       \* bound: refreshes
  LateBeacons,  \* whether beacons of an earlier stage may still arrive
  Junk          \* labels that uninitialised memory may hold

ASSUME KeyRefreshAssumption ==
  /\ MaxGen \in Nat /\ Value = 0 .. MaxGen /\ Blank \notin Value
  /\ LateBeacons \in BOOLEAN /\ Junk \subseteq Nat

VARIABLES
  net,    \* each node's network key
  app,    \* each node's application key
  gen,    \* the manager: latest values it hands out
  stage,  \* the manager: "idle", "phase1", "phase2"
  snb     \* whether the nodes send secure network beacons themselves
vars == <<net, app, gen, stage, snb>>

HasNew(n) == gen \in {net[n].key[i] : i \in Held(net[n])}
Switched(n) == net[n].state # "phase1" /\ HasNew(n)
Done(n) == net[n].state = "normal" /\ HasNew(n)

Init ==
  /\ net = [n \in Node |-> Added(0, 0)]
  /\ app \in [Node -> {Added(0, j) : j \in Junk}]
  /\ gen = 0
  /\ stage = "idle"
  /\ snb = FALSE

-----------------------------------------------------------------------------
(* The manager *)

Begin ==
  /\ stage = "idle" /\ \A n \in Node : Done(n)
  /\ gen < MaxGen
  /\ gen' = gen + 1
  /\ stage' = "phase1"
  /\ UNCHANGED <<net, app, snb>>

UpdateNet(n) ==
  /\ stage = "phase1"
  /\ net' = [net EXCEPT ![n] = NetUpdate(net[n], gen)]
  /\ UNCHANGED <<app, gen, stage, snb>>

UpdateApp(n) ==
  /\ stage = "phase1"
  /\ app' = [app EXCEPT ![n] = AppUpdate(app[n], net[n].state, gen)]
  /\ UNCHANGED <<net, gen, stage, snb>>

Switch ==
  /\ stage = "phase1" /\ \A n \in Node : HasNew(n) /\ app[n].key[1] = gen
  /\ stage' = "phase2"
  /\ UNCHANGED <<net, app, gen, snb>>

Revoke ==
  /\ stage = "phase2" /\ \A n \in Node : Switched(n)
  /\ stage' = "idle"
  /\ UNCHANGED <<net, app, gen, snb>>

\* The beacons of the manager: those of this stage, and of earlier ones.
Beacons ==
  LET now == IF stage = "phase1" THEN gen - 1 ELSE gen
      early == {b \in (1 .. MaxGen) \X BOOLEAN :
                  b[1] < gen \/ (b[1] = gen /\ b[2] /\ stage = "idle")}
  IN {<<now, stage = "phase2">>} \cup (IF LateBeacons THEN early ELSE {})

-----------------------------------------------------------------------------
(* The nodes *)

Heard(n, v, refresh) ==
  /\ net' = [net EXCEPT ![n] = NetHeard(net[n], v, refresh)]
  /\ app' = [app EXCEPT ![n] = AppHeard(app[n], net[n], v, refresh)]
  /\ UNCHANGED <<gen, stage, snb>>

HearManager(n) == \E b \in Beacons : Heard(n, b[1], b[2])
HearPresent(n) == Heard(n, IF stage = "phase1" THEN gen - 1 ELSE gen, stage = "phase2")

\* meshx_beacon_start on the nodes, at a time of the application's choice.
StartBeacons ==
  /\ ~snb /\ snb' = TRUE
  /\ UNCHANGED <<net, app, gen, stage>>

\* A node's own beacon, under the value it transmits with; its key refresh
\* flag is always 0.
HearNode(n, m) ==
  /\ snb /\ n # m
  /\ Heard(n, net[m].key[Tx(net[m])], FALSE)

Next ==
  \/ Begin \/ Switch \/ Revoke \/ StartBeacons
  \/ \E n \in Node : UpdateNet(n) \/ UpdateApp(n) \/ HearManager(n)
  \/ \E n, m \in Node : HearNode(n, m)

\* The manager retries until each node has answered, and its beacons are
\* periodic; nothing is assumed of the nodes' own beacons.
Fairness ==
  /\ WF_vars(Switch) /\ WF_vars(Revoke)
  /\ \A n \in Node : WF_vars(UpdateNet(n)) /\ WF_vars(UpdateApp(n)) /\ WF_vars(HearPresent(n))
Spec == Init /\ [][Next]_vars /\ Fairness

-----------------------------------------------------------------------------
(* Properties *)

\* The keys are well formed, and a key in an update has the value it is
\* being updated to.
TypeOK ==
  /\ net \in [Node -> Key] /\ app \in [Node -> Key]
  /\ gen \in Value /\ stage \in {"idle", "phase1", "phase2"} /\ snb \in BOOLEAN
  /\ \A n \in Node : \A k \in {net[n], app[n]} : k.state # "normal" => k.key[1] \in Value

\* Through the whole refresh every node receives the network PDUs of every
\* other, whatever subset has been updated, switched or finished, as long as
\* the manager's beacons are the only ones.
NetUnderstood ==
  ~snb => \A n, m \in Node : LET i == Tx(net[m]) IN Opens(net[n], net[m].key[i], net[m].label[i])

\* A node never goes back to an older network key for what it sends.
NetNeverBack ==
  [][\A n \in Node : net'[n].key[Tx(net'[n])] >= net[n].key[Tx(net[n])]]_vars

\* A refresh that has begun reaches every node and its old value is gone,
\* also when the other nodes send beacons of their own, as long as no beacon
\* of the manager is late: a late one and a repeated update keep it from
\* ending (README.md, section 5).
RefreshEnds ==
  \A g \in 1 .. MaxGen :
    gen = g ~> \A n \in Node : net[n].state = "normal" /\ net[n].key[0] >= g

-----------------------------------------------------------------------------
(* What comments and messages of the code promise and the code does not    *)
(* keep; README.md, section 5, tells how each is refuted.                  *)

\* Every PDU under a key that a node holds is decrypted, when labels of two
\* values collide too: no key it holds is one "that can't decrypt".
HeldOpens ==
  \A n \in Node : \A i \in Held(net[n]) : Opens(net[n], net[n].key[i], net[n].label[i])

\* Old keys are revoked only when no node sends with them any more.
RevokedUnused ==
  \A n, m \in Node :
    Done(n) => \E i \in Held(net[n]) : net[n].key[i] = net[m].key[Tx(net[m])]

\* Revoking the old keys revokes the application key's: a node never goes
\* back to an older application key for what it sends.
AppNeverBack ==
  [][\A n \in Node : app'[n].key[Tx(app'[n])] >= app[n].key[Tx(app[n])]]_vars

\* Every value that is held has the label derived from it, the application
\* key's as the network key's.
LabelsDerived ==
  \A n \in Node : \A i \in Held(app[n]) : app[n].label[i] = Label(app[n].key[i])
=============================================================================
