---------------------------- MODULE ProvDialogue ----------------------------
(***************************************************************************)
(* What provisioning promises the applications of the two sides: the PDUs  *)
(* of the procedure reach them in the order of Script, each exactly once,  *)
(* until one side is told that the link ended.  Success may be reported    *)
(* only once the deliveries up to position Commit have been made.          *)
(***************************************************************************)
EXTENDS Naturals, Sequences, FiniteSets

CONSTANTS
  Party,     \* the two sides
  Script,    \* the PDUs in order, each with the party it is delivered to
  Commit,    \* position in Script from which success may be reported
  Success,   \* the outcome that reports success
  Failures,  \* the other outcomes
  Open       \* no outcome yet

VARIABLES
  heard,     \* PDUs delivered to each party
  outcome    \* what each party was told of the end of the link

Position == Cardinality(UNION {{n} \X DOMAIN heard[n] : n \in Party})

Init ==
  /\ heard = [n \in Party |-> <<>>]
  /\ outcome = [n \in Party |-> Open]

\* The next PDU of the script reaches its party.
Deliver(n) ==
  /\ outcome[n] = Open
  /\ Position < Len(Script)
  /\ LET next == Script[Position + 1]
     IN  next.to = n /\ heard' = [heard EXCEPT ![n] = Append(@, next.pdu)]
  /\ UNCHANGED outcome

\* A party learns that the link ended.
End(n) ==
  /\ outcome[n] = Open
  /\ \/ \E why \in Failures : outcome' = [outcome EXCEPT ![n] = why]
     \/ Position >= Commit /\ outcome' = [outcome EXCEPT ![n] = Success]
  /\ UNCHANGED heard

\* A link that ended before anything was delivered may be opened again.
Reopen(n) ==
  /\ heard[n] = <<>> /\ outcome[n] \in Failures
  /\ outcome' = [outcome EXCEPT ![n] = Open]
  /\ UNCHANGED heard

Next == \E n \in Party : Deliver(n) \/ End(n) \/ Reopen(n)

Spec == Init /\ [][Next]_<<heard, outcome>>
=============================================================================
