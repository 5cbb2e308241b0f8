------------------------------ MODULE SeenLists ------------------------------
(***************************************************************************)
(* What a node remembers of the messages it has received, as values with   *)
(* the operators on them: the replay protection list, mesh/node/meshx_rpl.c *)
(* and the network message cache, mesh/network/meshx_nmc.c.                *)
(***************************************************************************)
EXTENDS Integers, Sequences

CONSTANTS
  RplSize,   \* meshx_node_params.config.rpl_size   (16)
  NmcSize    \* meshx_node_params.config.nmc_size   (64)

ASSUME SeenAssumption == RplSize \in Nat \ {0} /\ NmcSize \in Nat \ {0}

-----------------------------------------------------------------------------
(* Replay list: entries [src, seq, iv] in the order they were added.       *)

RplClear == <<>>
RplFull(rpl) == Len(rpl) = RplSize

\* The first entry of a source, the only one that counts.
Guards(rpl, i) == \A j \in 1 .. i - 1 : rpl[j].src # rpl[i].src

\* Mutant: a number is compared with the first entry of the list, whoever
\* sent it.
RplPassesAnySource(rpl, m) ==
  rpl # <<>> => m.seq > rpl[1].seq /\ m.iv >= rpl[1].iv

\* Mutant: an equal number passes, and the IV index is not compared.
RplPassesSeqOnly(rpl, m) ==
  \A i \in DOMAIN rpl : rpl[i].src = m.src /\ Guards(rpl, i) => m.seq >= rpl[i].seq

\* meshx_rpl_check
RplPasses(rpl, m) ==
  \A i \in DOMAIN rpl :
    rpl[i].src = m.src /\ Guards(rpl, i) => m.seq > rpl[i].seq /\ m.iv >= rpl[i].iv

\* Mutant: the check for a full list is missing.
RplUpdatesUnbounded(rpl, m) == {[ok |-> TRUE, rpl |-> Append(rpl, m)]}

\* meshx_rpl_update: the source is looked for in the slot behind the last
\* entry, which is empty, so every update adds an entry.  In a full list the
\* slot lies behind the array: whatever is there may match.
RplUpdates(rpl, m) ==
  IF ~RplFull(rpl) THEN {[ok |-> TRUE, rpl |-> Append(rpl, m)]}
  ELSE [ok : BOOLEAN, rpl : {rpl}]

-----------------------------------------------------------------------------
(* Message cache: entries [src, seq] in their slots, and the slot written  *)
(* last.                                                                    *)

NmcInit == [slots |-> <<>>, at |-> 0]

\* meshx_nmc_add
NmcAdd(nmc, m) ==
  LET i == (IF nmc.at = NmcSize THEN 0 ELSE nmc.at) + 1 IN
  [slots |-> IF i \in DOMAIN nmc.slots THEN [nmc.slots EXCEPT ![i] = m] ELSE Append(nmc.slots, m),
   at |-> i]

\* meshx_nmc_check fails on a match of the first slot: the loop ends there.
\* The comparison takes in the padding of the structs, which is never set:
\* a match may also go unnoticed.
NmcMayMatch(nmc, m) == nmc.slots # <<>> /\ nmc.slots[1] = m
Cached(nmc, m) == \E i \in DOMAIN nmc.slots : nmc.slots[i] = m
=============================================================================
