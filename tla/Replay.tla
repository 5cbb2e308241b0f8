------------------------------- MODULE Replay -------------------------------
(***************************************************************************)
(* Unsegmented messages from several sources to one node, through          *)
(* meshx_net_receive (mesh/network/meshx_net.c) and the unsegmented        *)
(* branches of meshx_lower_trans_receive, while the network updates its IV *)
(* index.  The medium repeats, delays and reorders: air holds every        *)
(* network PDU ever sent.                                                  *)
(***************************************************************************)
EXTENDS IvUpdate, SeenLists

CONSTANTS
  Source,     \* the nodes that send
  Rx,         \* the node that receives
  MaxSeq,     \* bound: numbers a source uses between two clears
  MaxGot,     \* bound: messages accepted
  MaxIndex    \* bound: last index of the network

ASSUME ReplayAssumption == Rx \notin Source /\ MaxSeq \in Nat /\ MaxGot \in Nat /\ MaxIndex \in Nat

VARIABLES
  iv,     \* the IV index of every node
  seq,    \* the sequence numbers of the sources
  air,    \* network PDUs sent
  rpl,    \* replay list of Rx
  nmc,    \* message cache of Rx
  got,    \* history: messages passed to the upper transport
  since,  \* history: how many of them before the list was cleared last
  lead    \* index and update state of the network
vars == <<iv, seq, air, rpl, nmc, got, since, lead>>

Message == [src : Source, seq : 0 .. MaxSeq - 1, iv : 0 .. MaxIndex]

TypeOK ==
  /\ iv \in [Source \cup {Rx} -> IvState]
  /\ seq \in [Source -> 0 .. MaxSeq]
  /\ air \subseteq Message
  /\ rpl \in Seq(Message) /\ Len(rpl) <= RplSize
  /\ nmc.slots \in Seq([src : Source, seq : Nat]) /\ Len(nmc.slots) <= NmcSize
  /\ nmc.at \in 0 .. NmcSize
  /\ got \in Seq(Message) /\ since \in 0 .. Len(got)
  /\ lead \in [index : 0 .. MaxIndex, updating : BOOLEAN]

Init ==
  /\ iv = [n \in Source \cup {Rx} |-> IvInit(0)]
  /\ seq = [s \in Source |-> 0]
  /\ air = {}
  /\ rpl = RplClear
  /\ nmc = NmcInit
  /\ got = <<>> /\ since = 0
  /\ lead = [index |-> 0, updating |-> FALSE]

-----------------------------------------------------------------------------
Send(s) ==
  /\ seq[s] < MaxSeq
  /\ air' = air \cup {[src |-> s, seq |-> seq[s], iv |-> TxIndex(iv[s])]}
  /\ seq' = [seq EXCEPT ![s] = @ + 1]
  /\ UNCHANGED <<iv, rpl, nmc, got, since, lead>>

\* The bit of the index in a network PDU selects the index it is decrypted
\* with; under another one decryption fails.
RxIndex(v, ivi) == IF v.index % 2 = ivi THEN v.index ELSE v.index - 1
Decrypts(v, m) == RxIndex(v, m.iv % 2) = m.iv

Entry(m) == [src |-> m.src, seq |-> m.seq]

Ignore(m) ==
  /\ m \in air /\ Decrypts(iv[Rx], m)
  /\ NmcMayMatch(nmc, Entry(m))
  /\ UNCHANGED vars

\* The message is cached whatever becomes of it.
Refuse(m) ==
  /\ m \in air /\ Decrypts(iv[Rx], m)
  /\ nmc' = NmcAdd(nmc, Entry(m))
  /\ RplPasses(rpl, m) => \E u \in RplUpdates(rpl, m) : ~u.ok
  /\ UNCHANGED <<iv, seq, air, rpl, got, since, lead>>

Accept(m) ==
  /\ m \in air /\ Decrypts(iv[Rx], m)
  /\ Len(got) < MaxGot
  /\ nmc' = NmcAdd(nmc, Entry(m))
  /\ RplPasses(rpl, m)
  /\ \E u \in RplUpdates(rpl, m) : u.ok /\ rpl' = u.rpl
  /\ got' = Append(got, m)
  /\ UNCHANGED <<iv, seq, air, since, lead>>

\* The index of a node moves to v.  The return to normal operation clears the
\* numbers of a source and the replay list of the receiver; messages of the
\* index before can still be decrypted.
Move(n, v, clears) ==
  /\ iv' = [iv EXCEPT ![n] = v]
  /\ seq' = [s \in Source |-> IF s = n /\ clears THEN 0 ELSE seq[s]]
  /\ rpl' = IF n = Rx /\ clears THEN RplClear ELSE rpl
  /\ since' = IF n = Rx /\ clears THEN Len(got) ELSE since
  /\ UNCHANGED <<air, nmc, got, lead>>

\* A beacon of the network, late ones included.
Hear(n, i, u) ==
  /\ Phase(i, u) <= Phase(lead.index, lead.updating)
  /\ Distance(iv[n], i, u) = 1
  /\ Move(n, IvUpdated(iv[n], i, u, FALSE), UpdateClears(iv[n], i, u, FALSE))

\* The tick of the clock at which a node ends an update by itself; other
\* ticks are left out.
Expire(n) ==
  /\ UpdateExpires(iv[n])
  /\ Move(n, IvTick(iv[n], FALSE), TickClears(iv[n], FALSE))

Lead ==
  /\ lead' = IF lead.updating THEN [lead EXCEPT !.updating = FALSE]
             ELSE [index |-> lead.index + 1, updating |-> TRUE]
  /\ lead'.index <= MaxIndex
  /\ UNCHANGED <<iv, seq, air, rpl, nmc, got, since>>

Next ==
  \/ \E s \in Source : Send(s)
  \/ \E m \in air : Ignore(m) \/ Refuse(m) \/ Accept(m)
  \/ \E n \in Source \cup {Rx}, i \in 0 .. MaxIndex, u \in BOOLEAN : Hear(n, i, u)
  \/ \E n \in Source \cup {Rx} : Expire(n)
  \/ Lead

Spec == Init /\ [][Next]_vars

-----------------------------------------------------------------------------
(* Properties *)

\* The messages accepted since the list was cleared, and the first of a source
\* among those with places in I.
Recent == since + 1 .. Len(got)
First(I, i) == \A h \in I : got[h].src = got[i].src => i <= h
Listed(m) == \E k \in DOMAIN rpl : rpl[k].src = m.src

FirstStandsIn(I) ==
  \A i, j \in I :
    i < j /\ got[i].src = got[j].src /\ First(I, i) /\ Listed(got[i])
    => got[i].seq < got[j].seq /\ got[i].iv <= got[j].iv

\* From one clearing of the list to the next, what was accepted first from a
\* source is not accepted again, nor is anything sent before it, when copies
\* come late and the source is an index ahead or behind.  It takes a place in
\* the list, which a source first heard when the list is full has not.  Of a
\* message accepted before a clearing nothing is said: FirstStandsForEver.
FirstStands == FirstStandsIn(Recent)

Follows(m, n) == m.iv > n.iv \/ (m.iv = n.iv /\ m.seq > n.seq)

\* The source has gone on to a new index, under which its numbers start over,
\* and one accepted under the old index is not smaller.
Restarted(m) == \E i \in Recent : got[i].src = m.src /\ got[i].iv < m.iv /\ got[i].seq >= m.seq

RefusedForOlder(m) ==
  \E i \in Recent : got[i].src = m.src /\ First(Recent, i) /\ ~Follows(m, got[i])

\* While the list has room, a message that follows the first one accepted from
\* its source since the list was cleared is not refused, whatever the other
\* sources sent; unless the numbers of the source start over (FreshByIndex).
FreshAccepted ==
  [][\A m \in air : Refuse(m) /\ ~RplFull(rpl) /\ ~Restarted(m) => RefusedForOlder(m)]_vars

-----------------------------------------------------------------------------
(* What comments and messages of the code promise and the code does not    *)
(* keep; README.md, section 5, tells how each is refuted.                  *)

\* The comment in meshx_rpl_update: an entry that exists is updated, one is
\* added only when there is none.
OneEntryPerSource ==
  \A i, j \in DOMAIN rpl : rpl[i].src = rpl[j].src => i = j

\* meshx_rpl_check, "rpl check failed", is to keep out what was accepted: also
\* what was accepted before the list was cleared.
FirstStandsForEver == FirstStandsIn(DOMAIN got)

\* A message of a newer index follows all those of an older one.
FreshByIndex ==
  [][\A m \in air : Refuse(m) /\ ~RplFull(rpl) => RefusedForOlder(m)]_vars

\* The comment in meshx_net_receive: a message already cached is ignored.
CachedIgnored ==
  [][\A m \in air : got' = Append(got, m) => ~Cached(nmc, Entry(m))]_vars
=============================================================================
