----------------------------- MODULE GapQueue -----------------------------
(***************************************************************************)
(* The action queue of mesh/gap/meshx_gap.c: advertisements of             *)
(* meshx_bearer_adv_send and scans wait for the radio.  The wrapper of     *)
(* platform/linux writes an advertisement at once and reports nothing.     *)
(* Other radios are outside the repository: they report with status events *)
(* when they start and stop.                                               *)
(***************************************************************************)
EXTENDS Naturals, Sequences, SequencesExt

CONSTANTS
  Slots,   \* gap_task_num
  MaxAsked, \* bound: actions asked for
  MaxEvents \* bound: status events on their way when the stack starts or a scan ends

ASSUME GapQueueAssumption == Slots \in Nat \ {0} /\ MaxAsked \in Nat /\ MaxEvents \in Nat

VARIABLES
  radio,    \* the radio: it reports nothing, before the call returns, or later
  enabled,  \* gap_state.enabled
  known,    \* gap_state: state of the radio as last reported, for "adv" and "scan"
  active,   \* gap_action_list_active
  idle,     \* length of gap_action_list_idle
  air,      \* the radio: what it is advertising, or None (always, when it is silent)
  events,   \* the radio: status events not yet handled
  asked,    \* actions accepted so far
  log       \* advertisements started, in order
vars == <<radio, enabled, known, active, idle, air, events, asked, log>>

None == 0
Kind == {"adv", "scan"}
Action == [type : Kind, n : 1 .. MaxAsked]

Init ==
  /\ radio \in {"silent", "prompt", "late"}
  /\ enabled = FALSE /\ known = [t \in Kind |-> "idle"]
  /\ active = <<>> /\ idle = Slots
  /\ air = None /\ events = <<>> /\ asked = 0 /\ log = <<>>

\* meshx_gap_adv_start and meshx_gap_scan_start, with states k and events e.
Starts(k, e, t) ==
  /\ known' = IF radio = "prompt" THEN [k EXCEPT ![t] = "active"] ELSE k
  /\ events' = IF radio = "late" THEN Append(e, <<t, "active">>) ELSE e

CanStartAlways(q, k) == q # <<>>

\* The first action waits for what it needs to be idle, as last reported.
CanStart(q, k) == q # <<>> /\ k[Head(q).type] = "idle"

\* meshx_run_actions does one action at most: what becomes of the radio when
\* the queue is q, the states k and the events e, and it advertises r.
RunsFirst(q, k, e, r) ==
  \/ /\ ~CanStart(q, k)
     /\ known' = k /\ events' = e /\ air' = r /\ log' = log
  \/ /\ CanStart(q, k)
     /\ Starts(k, e, Head(q).type)
     /\ IF Head(q).type = "adv"
        THEN air' = (IF radio = "silent" THEN r ELSE Head(q).n) /\ log' = Append(log, Head(q).n)
        ELSE air' = r /\ log' = log

\* With f free slots, to which that of the action returns.
RunActions(q, f, k, e) ==
  /\ RunsFirst(q, k, e, air)
  /\ IF CanStart(q, k) THEN active' = Tail(q) /\ idle' = f + 1 ELSE active' = q /\ idle' = f

InsertedFirst(q, a) == <<a>> \o q

\* An advertisement goes before the first scan, a scan to the end.
Place(q, a) ==
  CHOOSE i \in 1 .. Len(q) + 1 :
    /\ \A j \in 1 .. i - 1 : a.type = "scan" \/ q[j].type = "adv"
    /\ i <= Len(q) => a.type = "adv" /\ q[i].type = "scan"
Inserted(q, a) == InsertAt(q, Place(q, a), a)

\* meshx_gap_add_action; without a free slot it is refused.
Add(a) ==
  /\ enabled /\ idle > 0
  /\ a.n = asked + 1
  /\ RunActions(Inserted(active, a), idle - 1, known, events)
  /\ asked' = a.n
  /\ UNCHANGED <<radio, enabled>>

\* The stack is ready: scanning starts.
Start ==
  /\ ~enabled /\ Len(events) <= MaxEvents
  /\ enabled' = TRUE
  /\ Starts(known, events, "scan")
  /\ UNCHANGED <<radio, active, idle, air, asked, log>>

\* Mutant: the actions dropped are not given back to the idle list.
StoppedForgets == active' = <<>> /\ idle' = idle

Stopped == active' = <<>> /\ idle' = Slots

\* meshx_gap_stop: scanning stops, if the radio scans, then advertising, then
\* every waiting action is dropped.  A prompt radio reports the end of an
\* advertisement while they still wait, and the first one starts.
Stop ==
  /\ enabled
  /\ enabled' = FALSE
  /\ Stopped
  /\ \E scans \in BOOLEAN :
       LET k == IF scans THEN [known EXCEPT !["scan"] = "idle"] ELSE known
           scanEnd == IF scans THEN <<<<"scan", "idle">>>> ELSE <<>>
           advEnd == IF air # None THEN <<<<"adv", "idle">>>> ELSE <<>>
       IN \/ /\ radio = "silent"
             /\ UNCHANGED <<known, events, air, log>>
          \/ /\ radio = "late"
             /\ air' = None /\ events' = events \o scanEnd \o advEnd
             /\ UNCHANGED <<known, log>>
          \/ /\ radio = "prompt" /\ air = None
             /\ known' = k
             /\ UNCHANGED <<events, air, log>>
          \/ /\ radio = "prompt" /\ air # None
             /\ RunsFirst(active, [k EXCEPT !["adv"] = "idle"], events, None)
  /\ UNCHANGED <<radio, asked>>

\* The radio has sent an advertisement often enough, or ends a scan.
Sent ==
  /\ air # None
  /\ air' = None
  /\ events' = Append(events, <<"adv", "idle">>)
  /\ UNCHANGED <<radio, enabled, known, active, idle, asked, log>>

ScanEnds ==
  /\ known["scan"] = "active" /\ Len(events) <= MaxEvents /\ ~Contains(events, <<"scan", "idle">>)
  /\ events' = Append(events, <<"scan", "idle">>)
  /\ UNCHANGED <<radio, enabled, known, active, idle, air, asked, log>>

RunsAfterNothing(s) == FALSE

\* The end of an advertisement runs the next action; the end of a scan does
\* not.
RunsAfter(s) == s = <<"adv", "idle">>

\* meshx_gap_handle_bt_status.
HandleStatus ==
  /\ events # <<>>
  /\ LET s == Head(events)
         k == [known EXCEPT ![s[1]] = s[2]]
     IN IF RunsAfter(s) THEN RunActions(active, idle, k, Tail(events))
        ELSE known' = k /\ events' = Tail(events) /\ UNCHANGED <<active, idle, air, log>>
  /\ UNCHANGED <<radio, enabled, asked>>

Next ==
  \/ \E a \in Action : Add(a)
  \/ Start \/ Stop \/ Sent \/ ScanEnds \/ HandleStatus
Spec == Init /\ [][Next]_vars /\ WF_vars(Sent) /\ WF_vars(HandleStatus)

-----------------------------------------------------------------------------
(* Properties *)

Waiting(n) == \E p \in DOMAIN active : active[p] = [type |-> "adv", n |-> n]

\* Every slot is either free or holds a waiting action, across refusals,
\* stops and restarts.
TypeOK ==
  /\ idle \in 0 .. Slots /\ active \in Seq(Action) /\ idle + Len(active) = Slots
  /\ known \in [Kind -> {"idle", "active"}] /\ air \in 0 .. MaxAsked

\* Advertisements start in the order they were asked for.
InOrder == \A i, j \in DOMAIN log : i < j => log[i] < log[j]

\* An advertisement is not replaced by the next one before it has been sent,
\* unless the stack is stopped, by a radio that reports what a call changes,
\* and nothing else, before the call returns.
NotReplaced ==
  [][radio = "prompt" /\ air # None /\ enabled' = enabled => air' \in {air, None}]_vars

\* A waiting advertisement is started in the end, unless the queue is
\* dropped: the queue does not get stuck behind a scan or an event.
AdStarts == \A n \in 1 .. MaxAsked : Waiting(n) ~> ~Waiting(n)

-----------------------------------------------------------------------------
(* What names and calls of the code promise and the code does not keep;    *)
(* README.md, section 5, tells how each is refuted.                        *)

\* meshx_gap_stop stops the advertising: nothing is on the air after it.
StopSilences == [][enabled /\ ~enabled' => air' = None]_vars

\* The state of the radio keeps one advertisement from replacing another.
NeverReplaced == [][air # None /\ enabled' = enabled => air' \in {air, None}]_vars
=============================================================================
