---------------------------- MODULE SegTransfer ----------------------------
(***************************************************************************)
(* What the lower transport promises of segmented messages, without tasks, *)
(* segments and timers: per destination one message at a time and in       *)
(* order, and a message counts as received only after it is delivered.     *)
(***************************************************************************)
EXTENDS Naturals

VARIABLES
  dest,      \* from messages, in the order of submission, to where they go
  outcome,   \* what became of each message
  delivered  \* messages handed up at the other end
Msg == DOMAIN dest

Rivals(m) == {k \in Msg \ {m} : dest[k] = dest[m]}
Free(m) == \A k \in Rivals(m) : outcome[k] # "sending"
First(m) == outcome[m] = "waiting" /\ \A k \in Rivals(m) : outcome[k] = "waiting" => m < k

Init == outcome = [m \in Msg |-> "new"] /\ delivered = {}

Take(m, how) == outcome[m] = "new" /\ outcome' = [outcome EXCEPT ![m] = how] /\ UNCHANGED delivered
Refuse(m) == Take(m, "refused")
Wait(m) == ~Free(m) /\ Take(m, "waiting")
Begin(m) ==
  /\ Free(m) /\ \A k \in Rivals(m) : outcome[k] # "waiting"
  /\ Take(m, "sending")

\* A message that was begun may be delivered, even after it was given up.
Deliver(m) ==
  /\ outcome[m] \in {"sending", "acked", "ended"}
  /\ delivered' = delivered \cup {m}
  /\ UNCHANGED outcome

\* The end of a message, which hands the destination to the first that waits.
End(m, how) ==
  /\ outcome[m] = "sending"
  /\ how = "acked" => m \in delivered
  /\ LET N == {k \in Rivals(m) : First(k)} IN
     outcome' = [k \in Msg |-> IF k = m THEN how ELSE IF k \in N THEN "sending" ELSE outcome[k]]
  /\ UNCHANGED delivered

Next == \E m \in Msg :
  \/ Refuse(m) \/ Wait(m) \/ Begin(m) \/ Deliver(m)
  \/ \E how \in {"acked", "ended"} : End(m, how)

Spec == Init /\ [][Next /\ UNCHANGED dest]_<<dest, outcome, delivered>>
=============================================================================
