------------------------- MODULE MC_TLSProfileTest -------------------------
(***************************************************************************)
(* Instances of TLSProfileTest for TLC.                                   *)
(***************************************************************************)
EXTENDS TLSProfileTest

(* Short polls, one time unit per tick, to explore how operator changes   *)
(* and failed calls interleave with the checks.                            *)
ShortInterval == [p \in Polls |-> 1]
ShortTimeout ==
    [progressing |-> 2, reconciled |-> 3, verify |-> 2,
     cleanupReconciled |-> 2, restored |-> 2]

(* The deadlines of the source in minutes: 5, 15 and 2 minutes in the     *)
(* body, 10 and 2 in the cleanup, TestTimeout 30 minutes.  The 5 s and    *)
(* 10 s intervals are coarsened to one check per minute.                   *)
MinuteInterval == [p \in Polls |-> 1]
MinuteTimeout ==
    [progressing |-> 5, reconciled |-> 15, verify |-> 2,
     cleanupReconciled |-> 10, restored |-> 2]
(* Ticks that do not divide the timeouts: a failed check at time 2 sleeps *)
(* only to the deadline at 3, where the context fires between two ticks.  *)
RaggedInterval == [p \in Polls |-> 2]
RaggedTimeout == [p \in Polls |-> 3]
=============================================================================
