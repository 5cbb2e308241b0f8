----------------------------- MODULE AsyncList -----------------------------
(***************************************************************************)
(* The asynchronous messages of mesh/common/meshx_async.c on the doubly    *)
(* linked lists of common/meshx_list.c.  Timer threads take a node of the  *)
(* idle list, fill it, append it to the active list and notify; the mesh   *)
(* thread takes it from there, handles it and gives it back.  Both lists   *)
(* are rings through their heads.  No lock protects them: the statements   *)
(* that change them are the steps of this module.                          *)
(***************************************************************************)
EXTENDS Naturals, Sequences, FiniteSets, SequencesExt

CONSTANTS
  Timer,    \* timer threads
  Mesh,     \* the mesh thread
  Node,     \* messages of the pool
  Idle, Active, Null,  \* the two list heads, and no pointer
  MaxPosts  \* bound: messages of each timer

VARIABLES
  next, prev,  \* the pointers of the heads and the nodes
  pc, node,    \* where each thread is, and the node it works on
  content,     \* message a node was filled with
  notices,     \* notifications the mesh thread has not read
  posted,      \* messages sent, in the order of their notifications
  handled,     \* messages handled, in order
  posts        \* messages each timer has begun to send
vars == <<next, prev, pc, node, content, notices, posted, handled, posts>>
pointers == <<next, prev>>

Thread == Timer \cup {Mesh}
Cell == Node \cup {Idle, Active}
From(t) == IF t = Mesh THEN Active ELSE Idle
To(t) == IF t = Mesh THEN Idle ELSE Active
Steps == {"rest", "pop", "unlink next", "unlink prev", "clear", "use",
          "link next", "set prev", "link prev", "set next", "done"}

\* The nodes of the list with head h, as its next pointers give them.
Ring(h) ==
  LET f[k \in 0 .. Cardinality(Node) + 1] == IF k = 0 THEN next[h] ELSE IF f[k - 1] \in Node THEN next[f[k - 1]] ELSE f[k - 1]
  IN {f[k] : k \in DOMAIN f}

\* All nodes in the idle list, in some order.
Init ==
  /\ \E order \in SetToSeqs(Node) :
       LET ring == <<Idle>> \o order \o <<Idle>>
           Pos(c) == CHOOSE p \in 2 .. Len(ring) : ring[p] = c
       IN /\ prev = [c \in Cell |-> IF c = Active THEN Active ELSE ring[Pos(c) - 1]]
          /\ next = [c \in Cell |-> IF c = Active THEN Active ELSE
                                      IF c = Idle THEN ring[2] ELSE ring[Pos(c) + 1]]
  /\ pc = [t \in Thread |-> "rest"] /\ node = [t \in Thread |-> Null]
  /\ content = [n \in Node |-> <<>>]
  /\ notices = 0 /\ posted = <<>> /\ handled = <<>> /\ posts = [t \in Timer |-> 0]

Broken(n, pointer) == n = Null \/ (n # Null /\ pointer[n] = Null)

\* A thread is about to follow a null pointer: the process ends there.
Crashed ==
  \E t \in Thread : \/ pc[t] = "unlink next" /\ Broken(node[t], prev)
                    \/ pc[t] = "unlink prev" /\ Broken(node[t], next)

Goes(t, from, to) == pc[t] = from /\ pc' = [pc EXCEPT ![t] = to] /\ ~Crashed

\* A timer runs out, or the mesh thread reads a notification.
Begin(t) ==
  /\ Goes(t, "rest", "pop")
  /\ IF t = Mesh THEN notices > 0 /\ notices' = notices - 1 /\ UNCHANGED posts
     ELSE posts[t] < MaxPosts /\ posts' = [posts EXCEPT ![t] = @ + 1] /\ UNCHANGED notices
  /\ UNCHANGED <<pointers, node, content, posted, handled>>

\* The list is empty: no message can be sent, or there is none to handle.
PopNothing(t) ==
  /\ Goes(t, "pop", "rest")
  /\ next[From(t)] = From(t)
  /\ UNCHANGED <<pointers, node, content, notices, posted, handled, posts>>

Pop(t) ==
  /\ Goes(t, "pop", "unlink next")
  /\ next[From(t)] # From(t)
  /\ node' = [node EXCEPT ![t] = next[From(t)]]
  /\ UNCHANGED <<pointers, content, notices, posted, handled, posts>>

SetNext(c, v) == next' = [next EXCEPT ![c] = v]
SetPrev(c, v) == prev' = [prev EXCEPT ![c] = v]
Rest == <<node, content, notices, posted, handled, posts>>

UnlinkNext(t) ==
  /\ Goes(t, "unlink next", "unlink prev")
  /\ SetNext(prev[node[t]], next[node[t]])
  /\ UNCHANGED <<prev, Rest>>
UnlinkPrev(t) ==
  /\ Goes(t, "unlink prev", "clear")
  /\ SetPrev(next[node[t]], prev[node[t]])
  /\ UNCHANGED <<next, Rest>>
Clear(t) == Goes(t, "clear", "use") /\ SetNext(node[t], Null) /\ SetPrev(node[t], Null) /\ UNCHANGED Rest

\* The message is copied into the node, or handled.
Use(t) ==
  /\ Goes(t, "use", "link next")
  /\ IF t = Mesh THEN handled' = Append(handled, content[node[t]]) /\ UNCHANGED content
     ELSE content' = [content EXCEPT ![node[t]] = <<t, posts[t]>>] /\ UNCHANGED handled
  /\ UNCHANGED <<pointers, node, notices, posted, posts>>

LinkNext(t) == Goes(t, "link next", "set prev") /\ SetNext(prev[To(t)], node[t]) /\ UNCHANGED <<prev, Rest>>

SetOwnPrev(t) == Goes(t, "set prev", "link prev") /\ SetPrev(node[t], prev[To(t)]) /\ UNCHANGED <<next, Rest>>
LinkPrev(t) == Goes(t, "link prev", "set next") /\ SetPrev(To(t), node[t]) /\ UNCHANGED <<next, Rest>>
SetOwnNext(t) == Goes(t, "set next", "done") /\ SetNext(node[t], To(t)) /\ UNCHANGED <<prev, Rest>>

\* A message that is on the list is notified.
Done(t) ==
  /\ Goes(t, "done", "rest")
  /\ IF t = Mesh THEN UNCHANGED <<notices, posted>>
     ELSE notices' = notices + 1 /\ posted' = Append(posted, content[node[t]])
  /\ UNCHANGED <<pointers, node, content, handled, posts>>

Step(t) ==
  \/ PopNothing(t) \/ Pop(t) \/ UnlinkNext(t) \/ UnlinkPrev(t) \/ Clear(t) \/ Use(t)
  \/ LinkNext(t) \/ SetOwnPrev(t) \/ LinkPrev(t) \/ SetOwnNext(t) \/ Done(t)

Next == \E t \in Thread : Begin(t) \/ Step(t)

Spec == Init /\ [][Next]_vars

-----------------------------------------------------------------------------
(* Properties *)

Quiet == \A t \in Thread : pc[t] = "rest"
ListOf(h) == Ring(h) \cap Node

\* A message whose sending did not report a lack of resource is on the active
\* list, or has been handled.
SentIsQueued ==
  Quiet => \A m \in ToSet(posted) : Contains(handled, m) \/ m \in {content[n] : n \in ListOf(Active)}
=============================================================================
