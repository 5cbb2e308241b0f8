--------------------------- MODULE MC_LowerTrans ---------------------------
(* Settings for the run of LowerTrans: nodes a, b and c, and a group g.    *)
EXTENDS LowerTrans

CONSTANTS a, b, c, g

Message(s, d, l) == [src |-> s, dst |-> d, last |-> l]
Setting(script, stale, fails, duplicates) ==
  [script |-> script, stale |-> stale, timerFails |-> fails, rplRejects |-> fails, duplicates |-> duplicates]

\* Two messages to one destination, one to another.
Queueing == <<Message(a, b, 1), Message(a, b, 0), Message(a, g, 0)>>

\* Two sources that send messages to one receiver.
Sources == <<Message(a, b, 1), Message(c, b, 0)>>

\* Two messages to one destination, the second longer, or shorter.
Growing == <<Message(a, b, 0), Message(a, b, 1)>>
Shrinking == <<Message(a, b, 1), Message(a, b, 0)>>

\* A message that waits, and a message in segments, for the faults.
Waiting == <<Message(a, b, 0), Message(a, b, 0)>>
Alone == <<Message(a, b, 1)>>

MCSettings ==
  {Setting(Queueing, FALSE, FALSE, FALSE), Setting(Sources, FALSE, FALSE, FALSE),
   Setting(Growing, FALSE, FALSE, TRUE), Setting(Shrinking, FALSE, TRUE, FALSE),
   Setting(Waiting, TRUE, TRUE, FALSE), Setting(Alone, TRUE, TRUE, FALSE)}
=============================================================================
