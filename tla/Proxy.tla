------------------------------- MODULE Proxy -------------------------------
(***************************************************************************)
(* The proxy protocol, mesh/proxy/meshx_proxy.c: messages cut into PDUs    *)
(* that fit a GATT bearer and put together at the other end.  A bearer     *)
(* delivers in order what it takes, and may refuse a PDU, which the sender *)
(* does not notice; the receiver keeps one context per bearer, with a      *)
(* timer that its timer thread posts to the mesh thread.                   *)
(*                                                                         *)
(* The bytes of a message are told apart: byte k of message m is <<m, k>>. *)
(***************************************************************************)
EXTENDS Naturals, Sequences, FiniteSets, SequencesExt

CONSTANTS
  Bearer,
  Mtu,          \* data bytes in a PDU
  Initial,      \* MESHX_PROXY_INIT_PDU_LEN              (80)
  Lengths,      \* lengths of the messages that are sent
  BearerRefuses, \* whether meshx_bearer_gatt_send may fail
  MemoryFails,  \* whether an allocation of the receiver may fail
  MaxMsgs       \* bound: messages sent

ASSUME ProxyAssumption ==
  /\ Mtu \in Nat \ {0} /\ Initial \in Nat /\ MaxMsgs \in Nat
  /\ Lengths \subseteq Nat \ {0} /\ BearerRefuses \in BOOLEAN /\ MemoryFails \in BOOLEAN

VARIABLES
  air,    \* PDUs on their way on each bearer
  ctx,    \* the receive context of each bearer, or NoCtx
  inbox,  \* sar timeouts posted to the mesh thread: bearer and context
  given,  \* data handed to the layer above
  sent,   \* messages sent: bearer, length, message type, taken whole
  made,   \* contexts made so far, which tells them apart
  fault   \* the receiver has worked on a context that was freed
proxyVars == <<air, ctx, inbox, given, sent, made, fault>>

NoCtx == [id |-> 0]
Message(m) == [k \in 1 .. sent[m].len |-> <<m, k>>]

ProxyInit ==
  /\ air = [b \in Bearer |-> <<>>] /\ ctx = [b \in Bearer |-> NoCtx]
  /\ inbox = <<>> /\ given = {} /\ sent = <<>> /\ made = 0 /\ fault = FALSE

-----------------------------------------------------------------------------
(* meshx_proxy_send *)

\* PDUs of a message whose bytes are data.  The last one carries what is
\* left after len / mtu full ones, which may be nothing.
Cut(data, type) ==
  LET len == Len(data)
      n == len \div Mtu
      Piece(i) == SubSeq(data, i * Mtu + 1, IF i < n THEN (i + 1) * Mtu ELSE len)
  IN IF Mtu > len THEN <<[sar |-> "complete", type |-> type, data |-> data]>>
     ELSE [i \in 1 .. n + 1 |->
            [sar |-> IF i = 1 THEN "first" ELSE IF i = n + 1 THEN "last" ELSE "continue",
             type |-> type, data |-> Piece(i - 1)]]

\* The PDUs without those that the bearer refuses.
Increasing(n, k) == {f \in [1 .. n -> 1 .. k] : \A i, j \in 1 .. n : i < j => f[i] < f[j]}
Refusals(pdus) ==
  IF BearerRefuses
  THEN UNION {{[i \in 1 .. n |-> pdus[f[i]]] : f \in Increasing(n, Len(pdus))} : n \in 0 .. Len(pdus) - 1}
  ELSE {}

\* What the bearer answers is not looked at: the next PDU follows all the same.
Send(b, len, type) ==
  LET m == Len(sent) + 1
      pdus == Cut([k \in 1 .. len |-> <<m, k>>], type)
  IN /\ m <= MaxMsgs
     /\ \E taken \in {pdus} \cup Refusals(pdus) :
          /\ sent' = Append(sent, [bearer |-> b, len |-> len, type |-> type, whole |-> taken = pdus])
          /\ air' = [air EXCEPT ![b] = @ \o taken]
     /\ UNCHANGED <<ctx, inbox, given, made, fault>>

-----------------------------------------------------------------------------
(* meshx_proxy_receive *)

\* A buffer for len bytes of the first PDU, header included.
Capacity(len) == IF len > Initial THEN len + Initial ELSE Initial

CtxFor(p, timer) ==
  LET room == Capacity(Len(p.data) + 1)
  IN [id |-> made + 1, type |-> p.type, data |-> p.data, max |-> room, alloc |-> room, timer |-> timer]

\* Mutant: the timer is created and not started.
NewCtxUntimed(p) == CtxFor(p, FALSE)

NewCtx(p) == CtxFor(p, TRUE)

\* A larger buffer is allocated for the data, the new PDU and a reserve; the
\* recorded size grows by as much as the PDU and the reserve.
Expanded(c, len) ==
  IF Len(c.data) + len > c.max
  THEN [c EXCEPT !.max = @ + len + Initial, !.alloc = Len(c.data) + len + Initial]
  ELSE c

Starts(p) == p.sar \in {"complete", "first"}

Arriving(b, p) ==
  /\ ~fault
  /\ air[b] # <<>>
  /\ p = Head(air[b])
  /\ air' = [air EXCEPT ![b] = Tail(@)]
  /\ UNCHANGED <<inbox, sent, fault>>

ReceiveEmpty(b, p) ==
  /\ Arriving(b, p)
  /\ p.data = <<>>
  /\ UNCHANGED <<ctx, given, made>>

ReceiveUnexpected(b, p) ==
  /\ Arriving(b, p)
  /\ p.data # <<>> /\ ctx[b] = NoCtx /\ ~Starts(p)
  /\ UNCHANGED <<ctx, given, made>>

\* The first PDU of a message, a complete message included, opens a context.
ReceiveStart(b, p) ==
  /\ Arriving(b, p)
  /\ p.data # <<>> /\ ctx[b] = NoCtx /\ Starts(p)
  /\ \/ ctx' = [ctx EXCEPT ![b] = NewCtx(p)] /\ made' = made + 1
     \/ MemoryFails /\ UNCHANGED <<ctx, made>>
  /\ UNCHANGED given

MismatchesOnType(c, p) == c.type # p.type
Mismatches(c, p) == Starts(p) \/ c.type # p.type

\* A PDU that cannot go on with the message under way ends it.
ReceiveMismatch(b, p) ==
  /\ Arriving(b, p)
  /\ p.data # <<>> /\ ctx[b] # NoCtx /\ Mismatches(ctx[b], p)
  /\ ctx' = [ctx EXCEPT ![b] = NoCtx]
  /\ UNCHANGED <<given, made>>

ReceiveNext(b, p) ==
  /\ Arriving(b, p)
  /\ p.data # <<>> /\ ctx[b] # NoCtx /\ ~Mismatches(ctx[b], p)
  /\ LET c == [Expanded(ctx[b], Len(p.data)) EXCEPT !.data = @ \o p.data]
     IN \/ /\ p.sar = "last"
           /\ given' = given \cup {[bearer |-> b, type |-> c.type, data |-> c.data]}
           /\ ctx' = [ctx EXCEPT ![b] = NoCtx]
        \/ /\ p.sar # "last"
           /\ ctx' = [ctx EXCEPT ![b] = c]
           /\ UNCHANGED given
        \/ /\ MemoryFails /\ Len(c.data) > ctx[b].max
           /\ ctx' = [ctx EXCEPT ![b] = NoCtx]
           /\ UNCHANGED given
  /\ UNCHANGED made

-----------------------------------------------------------------------------
(* The timer of a context: started once, by its first PDU. *)

TimerExpires(b) ==
  /\ ~fault
  /\ ctx[b] # NoCtx /\ ctx[b].timer
  /\ ctx' = [ctx EXCEPT ![b].timer = FALSE]
  /\ inbox' = Append(inbox, [bearer |-> b, id |-> ctx[b].id])
  /\ UNCHANGED <<air, given, sent, made, fault>>

\* The context is released.  The handler does not check that it is still
\* there: when it has gone in the meantime its data, its timer and its place
\* in the list are freed memory.  What the node does from there on is not
\* modelled.
HandleTimeout ==
  /\ ~fault
  /\ inbox # <<>>
  /\ inbox' = Tail(inbox)
  /\ LET t == Head(inbox)
     IN \/ /\ ctx[t.bearer].id = t.id
           /\ ctx' = [ctx EXCEPT ![t.bearer] = NoCtx]
           /\ UNCHANGED fault
        \/ /\ ctx[t.bearer].id # t.id
           /\ fault' = TRUE
           /\ UNCHANGED ctx
  /\ UNCHANGED <<air, given, sent, made>>

ProxyReceive ==
  \E b \in Bearer : \E p \in ToSet(air[b]) :
    \/ ReceiveEmpty(b, p) \/ ReceiveUnexpected(b, p) \/ ReceiveStart(b, p)
    \/ ReceiveMismatch(b, p) \/ ReceiveNext(b, p)

ProxyNext ==
  \/ \E b \in Bearer, len \in Lengths, type \in {"net", "beacon"} : Send(b, len, type)
  \/ ProxyReceive
  \/ \E b \in Bearer : TimerExpires(b)
  \/ HandleTimeout

ProxySpec ==
  /\ ProxyInit /\ [][ProxyNext]_proxyVars
  /\ WF_proxyVars(ProxyReceive) /\ WF_proxyVars(HandleTimeout) /\ \A b \in Bearer : WF_proxyVars(TimerExpires(b))

-----------------------------------------------------------------------------
(* Properties *)

IsMessage(g, m) == g.data = Message(m) /\ g.bearer = sent[m].bearer /\ g.type = sent[m].type

\* There is a byte of a message in it of which the bearer refused a PDU.
OfPartly(data) == \E m \in DOMAIN sent : ~sent[m].whole /\ \E k \in DOMAIN data : data[k][1] = m

\* What is handed up is a whole message as it was sent, on its own bearer
\* and with its own type, whatever contexts were refused, timed out or failed
\* before: never a part, never two put together.  Data with a byte of a
\* message of which the bearer refused a PDU is excepted
\* (IntactThoughRefused), and what comes after a timeout has found its
\* context gone (TimeoutFindsCtx), where the model ends.
Intact == \A g \in given : (\E m \in DOMAIN sent : IsMessage(g, m)) \/ OfPartly(g.data)

\* A context is not kept for ever, even when the rest never comes; unless a
\* timeout of a context that has gone comes before.
CtxEnds == \A b \in Bearer : \A i \in 1 .. MaxMsgs : ctx[b].id = i ~> ctx[b].id # i \/ fault

-----------------------------------------------------------------------------
(* What comments and messages of the code promise and the code does not    *)
(* keep; README.md, section 5, tells how each is refuted.                  *)

\* A message of which all PDUs have been received is handed up: no context
\* holds a whole one.
WholeIsNotified ==
  \A b \in Bearer : ctx[b] # NoCtx => \A m \in DOMAIN sent : ctx[b].data # Message(m)

\* Every PDU that is sent is one the receiver does not refuse for its length.
PdusCarryData == \A b \in Bearer : \A p \in ToSet(air[b]) : p.data # <<>>

\* meshx_proxy_send answers success: the message was sent, not parts of it.
IntactThoughRefused == \A g \in given : \E m \in DOMAIN sent : IsMessage(g, m)

\* The assertions of meshx_proxy_rx_ctx_release and meshx_list_remove: what is
\* released is a context.
TimeoutFindsCtx == ~fault

\* The size recorded for the buffer of a context is the size it has.
SizeRecorded == \A b \in Bearer : ctx[b] # NoCtx => ctx[b].max = ctx[b].alloc
=============================================================================
