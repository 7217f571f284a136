------------------------ MODULE PollRefinement_proofs ------------------------
(***************************************************************************)
(* The test's poll sessions implement the abstract poll session: every     *)
(* step of TLSProfileTest is a step of PollSession under the mapping       *)
(* SessionOf, ElapsedOf, ConvergedOf, or leaves the mapped state alone.    *)
(***************************************************************************)
EXTENDS TLSProfileTest_proofs

(* Inside a poll session the clock lies between the session's start and   *)
(* its deadline: a failed check sleeps at most to the deadline.            *)
PollInv ==
    /\ TypeInv
    /\ pc \in Polls => /\ pollStart <= now
                       /\ now <= Deadline(pc)

(* Facts about the poll names the refinement proof uses.                   *)
LEMMA PollNames ==
    /\ "idle" \notin Polls
    /\ \A l \in {"setup", "getAPIServer", "update", "cleanupGet", "cleanupUpdate", "done"} :
          l \notin Polls
  BY DEF Polls

LEMMA InitPollInv == Init => PollInv
<1> SUFFICES ASSUME Init PROVE PollInv
  OBVIOUS
<1>1. TypeInv
  BY InitTypeInv
<1>2. pc \notin Polls
  BY PollNames DEF Init
<1>3. QED
  BY <1>1, <1>2 DEF PollInv

(* Where a session starts, the clock is at the session's start.            *)
LEMMA NextPollInv == PollInv /\ [Next]_vars => PollInv'
<1> SUFFICES ASSUME PollInv, [Next]_vars PROVE PollInv'
  OBVIOUS
<1>0. TypeInv /\ TypeOK
  BY DEF PollInv, TypeInv
<1>1. TypeInv'
  BY <1>0, NextTypeInv
<1>2. now' \in Nat /\ pollStart' \in Nat
  BY <1>1 DEF TypeInv, TypeOK
<1>3. SUFFICES ASSUME pc' \in Polls
               PROVE  pollStart' <= now' /\ now' <= Deadline(pc)'
  BY <1>1 DEF PollInv
<1>4. Timeout[pc'] \in Nat
  BY <1>3, TimeoutAssumption
<1>5. CASE UNCHANGED <<pc, now, pollStart>>
  BY <1>3, <1>5 DEF PollInv, Deadline
<1>6. CASE pollStart' = now' /\ now' = now
  BY <1>2, <1>4, <1>6 DEF Deadline
<1>7. CASE PollCheck(pc) /\ UNCHANGED <<pc, pollStart>>
  <2>1. pc \in Polls /\ pollStart <= now /\ now <= Deadline(pc)
    BY <1>3, <1>7 DEF PollInv
  <2>2. Interval[pc] \in Nat \ {0}
    BY <2>1, IntervalAssumption
  <2>3. now' = now \/ now' = IF now + Interval[pc] <= Deadline(pc)
                             THEN now + Interval[pc] ELSE Deadline(pc)
    BY <1>7 DEF PollCheck
  <2>4. QED
    BY <1>0, <1>4, <1>7, <2>1, <2>2, <2>3 DEF Deadline, TypeOK
<1>8. QED
  <2>1. CASE ObserveConfig \/ ReportStatus \/ EnsureOperatorUp \/ GetAPIServer
             \/ CleanupGet
    <3>1. pc' \notin Polls \/ UNCHANGED <<pc, now, pollStart>>
      BY <2>1, PollNames
      DEF ObserveConfig, ReportStatus, EnsureOperatorUp, GetAPIServer, CleanupGet
    <3>2. QED
      BY <1>3, <1>5, <3>1
  <2>2. CASE HarnessTimeout
    BY <1>3, <1>5, <2>2, PollNames DEF HarnessTimeout
  <2>3. CASE UpdateModern \/ CleanupUpdate
    BY <1>6, <2>3 DEF UpdateModern, CleanupUpdate
  <2>4. ASSUME NEW p \in Polls, PollCheck(p)
        PROVE  pollStart' <= now' /\ now' <= Deadline(pc)'
    <3>1. PICK ok \in CallOutcomes :
              IF ok /\ Holds(p)
              THEN now' = now /\ pollStart' = now
              ELSE UNCHANGED <<pc, pollStart>>
      BY <2>4 DEF PollCheck
    <3>2. pc = p
      BY <2>4 DEF PollCheck
    <3>3. QED
      BY <1>6, <1>7, <2>4, <3>1, <3>2
  <2>5. ASSUME NEW p \in Polls, PollTimeout(p)
        PROVE  pollStart' <= now' /\ now' <= Deadline(pc)'
    BY <1>6, <2>5 DEF PollTimeout
  <2>6. CASE UNCHANGED vars
    BY <1>5, <2>6 DEF vars
  <2>7. QED
    BY <2>1, <2>2, <2>3, <2>4, <2>5, <2>6 DEF Next, TestStep, Environment

(* The mapped state of a step that keeps the test out of every poll       *)
(* session, or keeps the poll, the clock and the condition as they are.   *)
LEMMA StutterMapped ==
    ASSUME pc \notin Polls, pc' \notin Polls
    PROVE  UNCHANGED PS!avars
  BY DEF SessionOf, ElapsedOf, ConvergedOf, PS!avars

(* The observation of the condition is a Boolean.                         *)
LEMMA ConvergedBoolean == ConvergedOf' \in BOOLEAN
  BY DEF ConvergedOf

(* A clock before a deadline, and a tick that does not pass it, measured  *)
(* from the session's start.                                               *)
LEMMA ElapsedArith ==
    ASSUME NEW n \in Nat, NEW s \in Nat, NEW t \in Nat, NEW m,
           n < s + t, m \in n + 1 .. s + t
    PROVE  n - s < t /\ m - s \in (n - s) + 1 .. t
  OBVIOUS

(* Every step of the test or of its environment is a step of PollSession *)
(* or leaves the mapped state unchanged.                                   *)
LEMMA StepRefines == PollInv /\ [Next]_vars => [PS!Next]_PS!avars
<1> SUFFICES ASSUME PollInv, [Next]_vars PROVE [PS!Next]_PS!avars
  OBVIOUS
<1>0. TypeOK /\ (pc \in Polls => pollStart <= now /\ now <= Deadline(pc))
  BY DEF PollInv, TypeInv
<1>9. TypeOK'
  BY NextTypeInv DEF PollInv, TypeInv
<1>1. CASE ObserveConfig \/ ReportStatus
  <2>1. UNCHANGED <<pc, now, pollStart>>
    BY <1>1 DEF ObserveConfig, ReportStatus
  <2>2. PS!Observe
    BY <2>1, ConvergedBoolean DEF PS!Observe, SessionOf, ElapsedOf
  <2>3. QED
    BY <2>2 DEF PS!Next
<1>2. CASE HarnessTimeout
  <2>1. pc' \in {pc, "done"} /\ UNCHANGED <<now, pollStart>>
    BY <1>2 DEF HarnessTimeout
  <2>2. CASE pc' = pc
    <3>1. UNCHANGED <<SessionOf, ElapsedOf>>
      BY <2>1, <2>2 DEF SessionOf, ElapsedOf
    <3>2. PS!Observe
      BY <3>1, ConvergedBoolean DEF PS!Observe
    <3>3. QED
      BY <3>2 DEF PS!Next
  <2>3. CASE pc' = "done" /\ pc \in Polls
    <3>1. PS!Abandon
      BY <2>3, PollNames, ConvergedBoolean DEF PS!Abandon, PS!Idle, SessionOf, ElapsedOf
    <3>2. QED
      BY <3>1 DEF PS!Next
  <2>4. CASE pc' = "done" /\ pc \notin Polls
    BY <2>4, PollNames, StutterMapped
  <2>5. QED
    BY <2>1, <2>2, <2>3, <2>4
<1>3. CASE EnsureOperatorUp \/ GetAPIServer \/ CleanupGet
  <2>1. pc \notin Polls /\ pc' \notin Polls
    BY <1>3, PollNames DEF EnsureOperatorUp, GetAPIServer, CleanupGet
  <2>2. QED
    BY <2>1, StutterMapped
<1>4. CASE UpdateModern \/ CleanupUpdate
  <2>1. pc \notin Polls /\ pollStart' = now /\ now' = now
    BY <1>4, PollNames DEF UpdateModern, CleanupUpdate
  <2>2. pc' \in {"progressing", "cleanupReconciled", "done"}
    BY <1>4 DEF UpdateModern, CleanupUpdate
  <2>3. CASE pc' = "done"
    BY <2>1, <2>3, PollNames, StutterMapped
  <2>4. CASE pc' \in Polls
    <3>0. now \in Nat
      BY <1>0 DEF TypeOK
    <3>1. PS!Start
      BY <2>1, <2>4, <3>0, PollNames, ConvergedBoolean DEF PS!Start, PS!Idle, SessionOf, ElapsedOf
    <3>2. QED
      BY <3>1 DEF PS!Next
  <2>5. QED
    BY <2>2, <2>3, <2>4 DEF Polls
<1>5. ASSUME NEW p \in Polls, PollCheck(p)
      PROVE  [PS!Next]_PS!avars
  <2>1. PICK ok \in CallOutcomes :
            IF ok /\ Holds(p)
            THEN /\ now' = now
                 /\ pollStart' = now
                 /\ AfterPoll(p, TRUE)
            ELSE /\ now' = IF now + Interval[p] <= Deadline(p)
                           THEN now + Interval[p] ELSE Deadline(p)
                 /\ UNCHANGED <<pc, pollStart>>
    BY <1>5 DEF PollCheck
  <2>2. /\ pc = p
        /\ UNCHANGED <<conds, observed, original>>
    BY <1>5 DEF PollCheck
  <2>3. /\ pollStart <= now /\ now <= Deadline(p)
        /\ now \in Nat /\ pollStart \in Nat
        /\ Interval[p] \in Nat \ {0} /\ Timeout[p] \in Nat
    BY <1>0, <2>2, IntervalAssumption, TimeoutAssumption DEF TypeOK
  <2>4. UNCHANGED ConvergedOf \/ pc' # pc
    BY <2>2 DEF ConvergedOf, Holds, ProgressingSeen, ReconcileDone,
               TLSConfigPropagated, CleanupReconcileDone, TLSProfileRestored
  <2>5. CASE ok /\ Holds(p)
    <3>1. AfterPoll(p, TRUE) /\ pollStart' = now /\ now' = now
      BY <2>1, <2>5
    <3>2. pc' # p
      BY <3>1, <1>5, Zenon DEF AfterPoll, EndBody, Polls
    <3>3. ElapsedOf' = 0 /\ SessionOf' \in Polls \cup {"idle"}
      BY <3>1, <2>3 DEF ElapsedOf, SessionOf
    <3>4. PS!Finish
      BY <2>2, <2>5, <3>3, ConvergedBoolean DEF PS!Finish, PS!Idle, SessionOf, ConvergedOf
    <3>5. QED
      BY <3>4 DEF PS!Next
  <2>6. CASE ~(ok /\ Holds(p)) /\ now < Deadline(p)
    <3>1. UNCHANGED <<pc, pollStart>>
      BY <2>1, <2>6
    <3>2. now' = IF now + Interval[p] <= Deadline(p)
                 THEN now + Interval[p] ELSE Deadline(p)
      BY <2>1, <2>6
    <3>3. now' \in now + 1 .. Deadline(p)
      BY <2>3, <2>6, <3>2 DEF Deadline
    <3>4. SessionOf = p /\ SessionOf' = p
      BY <2>2, <3>1, <1>5 DEF SessionOf
    <3>5. ElapsedOf = now - pollStart /\ ElapsedOf' = now' - pollStart
      BY <2>2, <3>1, <1>5 DEF ElapsedOf
    <3>11. now < pollStart + Timeout[p]
      BY <2>6, Zenon DEF Deadline
    <3>12. now' \in now + 1 .. pollStart + Timeout[p]
      BY <3>3, Zenon DEF Deadline
    <3>13. now \in Nat /\ pollStart \in Nat /\ Timeout[p] \in Nat
      BY <2>3
    <3>6. /\ now - pollStart < Timeout[p]
          /\ now' - pollStart \in (now - pollStart) + 1 .. Timeout[p]
      BY <3>11, <3>12, <3>13, ElapsedArith
    <3>10. ElapsedOf < Timeout[p] /\ ElapsedOf' \in ElapsedOf + 1 .. Timeout[p]
      BY <3>5, <3>6
    <3>7. UNCHANGED ConvergedOf
      BY <2>4, <3>1
    <3>8. PS!Wait
      BY <3>4, <3>10, <3>7, <1>5 DEF PS!Wait
    <3>9. QED
      BY <3>8 DEF PS!Next
  <2>7. CASE ~(ok /\ Holds(p)) /\ now = Deadline(p)
    <3>0. /\ now' = IF now + Interval[p] <= Deadline(p)
                   THEN now + Interval[p] ELSE Deadline(p)
          /\ UNCHANGED <<pc, pollStart>>
      BY <2>1, <2>7
    <3>1. UNCHANGED <<pc, pollStart, now>>
      BY <2>3, <2>7, <3>0 DEF Deadline
    <3>2. QED
      BY <2>4, <3>1 DEF PS!avars, SessionOf, ElapsedOf
  <2>8. QED
    BY <2>3, <2>5, <2>6, <2>7 DEF Deadline
<1>6. ASSUME NEW p \in Polls, PollTimeout(p)
      PROVE  [PS!Next]_PS!avars
  <2>1. /\ pc = p /\ now >= Deadline(p) /\ pollStart' = now /\ now' = now
        /\ AfterPoll(p, FALSE)
    BY <1>6 DEF PollTimeout
  <2>2. now - pollStart = Timeout[p]
    BY <1>0, <2>1, TimeoutAssumption DEF Deadline, TypeOK
  <2>3. ElapsedOf' = 0 /\ SessionOf' \in Polls \cup {"idle"}
    BY <2>1, <1>0 DEF ElapsedOf, SessionOf, TypeOK
  <2>4. PS!TimeOut
    BY <2>1, <2>2, <2>3, ConvergedBoolean DEF PS!TimeOut, PS!Idle, SessionOf, ElapsedOf
  <2>5. QED
    BY <2>4 DEF PS!Next
<1>7. CASE UNCHANGED vars
  BY <1>7 DEF vars, PS!avars, SessionOf, ElapsedOf, ConvergedOf, Holds, ProgressingSeen,
             ReconcileDone, TLSConfigPropagated, CleanupReconcileDone, TLSProfileRestored
<1>8. QED
  BY <1>1, <1>2, <1>3, <1>4, <1>5, <1>6, <1>7 DEF Next, TestStep, Environment

(* The five PollUntilContextTimeout sessions of the test, with the Get    *)
(* errors swallowed by their conditions, the capped sleeps and the        *)
(* deadline race, never do what the spec's poll session may not: this is *)
(* the safety part of PollSessionRefined, for every value of the constants.*)
THEOREM PollSessionSafety == Spec => PS!SafeSpec
<1>1. Init => PollInv
  BY InitPollInv
<1>2. PollInv /\ [Next]_vars => PollInv'
  BY NextPollInv
<1>3. Init => PS!Init
  BY PollNames DEF Init, PS!Init, PS!Idle, SessionOf, ElapsedOf, ConvergedOf
<1>4. PollInv /\ [Next]_vars => [PS!Next]_PS!avars
  BY StepRefines
<1>5. QED
  BY <1>1, <1>2, <1>3, <1>4, PTL DEF Spec, PS!SafeSpec

=============================================================================
