----------------------------- MODULE KeyStore -----------------------------
(***************************************************************************)
(* The keys of a node, mesh/node/meshx_key.c, and how the other files use  *)
(* them: which key a node transmits with, which keys it tries on what it   *)
(* receives, and what a secure network beacon does to their state          *)
(* (mesh/beacon/meshx_beacon.c).                                           *)
(*                                                                         *)
(* A network key and an application key hold two values: key[0] and        *)
(* key[1].  label is the identifier a value was derived to: the NID of a   *)
(* network key, the AID of an application key.                             *)
(***************************************************************************)
EXTENDS Naturals

CONSTANTS
  Value,     \* key values
  Blank,     \* no value: memory nothing was written to
  Label(_)   \* identifier derived from a value

State == {"normal", "phase1", "phase2"}
Key == [state : State, key : [0 .. 1 -> Value \cup {Blank}], label : [0 .. 1 -> Nat]]

\* A key that is added.  The second value is left as it was allocated.
Added(v, junk) ==
  [state |-> "normal",
   key   |-> [i \in 0 .. 1 |-> IF i = 0 THEN v ELSE Blank],
   label |-> [i \in 0 .. 1 |-> IF i = 0 THEN Label(v) ELSE junk]]

\* Which of the two values an update derives: for an application key that is
\* the first one, although the new value goes into the second.
DeriveNet == 1
DeriveApp == 0

WithValue(k, v, d) ==
  LET key == [k.key EXCEPT ![1] = v]
  IN [state |-> "phase1", key |-> key, label |-> [k.label EXCEPT ![d] = Label(key[d])]]

WithLostValue(k, v, d) == [k EXCEPT !.state = "phase1"]

\* Distributes a value; in phase 1 the same value is accepted without effect
\* and another one refused.
NetUpdate(k, v) == IF k.state = "normal" THEN WithValue(k, v, DeriveNet) ELSE k

AppUpdateUnbound(k, net, v) == IF k.state # "phase1" THEN WithValue(k, v, DeriveApp) ELSE k
AppUpdateLost(k, net, v) ==
  IF net = "phase1" /\ k.state # "phase1" THEN WithLostValue(k, v, DeriveApp) ELSE k

\* net is the state of the network key it is bound to.
AppUpdate(k, net, v) ==
  IF net = "phase1" /\ k.state # "phase1" THEN WithValue(k, v, DeriveApp) ELSE k

\* The state follows the network key's, the values stay.
AppTransit(k, s) == IF k.state = "normal" THEN k ELSE [k EXCEPT !.state = s]

TxInBothPhases(k) == IF k.state = "normal" THEN 0 ELSE 1

\* The value to transmit with, and the values to try on receipt, in order.
Tx(k) == IF k.state = "phase2" THEN 1 ELSE 0
HeldFirst(k) == {0}
Held(k) == IF k.state = "normal" THEN {0} ELSE {0, 1}

\* The first value with the label of the PDU is the only one that can open
\* it: an attempt with a wrong one spoils the copy the next would be tried on.
Opens(k, v, label) ==
  LET fits == {i \in Held(k) : k.label[i] = label}
  IN \E i \in fits : k.key[i] = v /\ \A j \in fits : j >= i

-----------------------------------------------------------------------------
(* A secure network beacon under value v with its key refresh flag.  The   *)
(* network identifier and the authentication value tell values apart.      *)

Fits(k, v) == {i \in Held(k) : k.key[i] = v}

\* What it makes of the state; "none" when it changes nothing.
Ordered(k, v, refresh) ==
  CASE Fits(k, v) = {}                                           -> "none"
    [] Fits(k, v) # {} /\ refresh                                -> IF k.state = "normal" THEN "none" ELSE "phase2"
    [] Fits(k, v) # {} /\ ~refresh /\ 0 \notin Fits(k, v)        -> "normal"
    [] Fits(k, v) # {} /\ ~refresh /\ 0 \in Fits(k, v)           -> "none"

NetHeardKeepsOld(k, v, refresh) ==
  IF Ordered(k, v, refresh) = "none" THEN k ELSE [k EXCEPT !.state = Ordered(k, v, refresh)]

\* On the return to normal the second value replaces the first.
NetHeard(k, v, refresh) ==
  CASE Ordered(k, v, refresh) = "none"   -> k
    [] Ordered(k, v, refresh) = "phase2" -> [k EXCEPT !.state = "phase2"]
    [] Ordered(k, v, refresh) = "normal" ->
         [state |-> "normal",
          key   |-> [k.key EXCEPT ![0] = k.key[1]],
          label |-> [k.label EXCEPT ![0] = k.label[1]]]

AppHeard(k, net, v, refresh) ==
  IF Ordered(net, v, refresh) = "none" THEN k ELSE AppTransit(k, Ordered(net, v, refresh))
=============================================================================
