---------------------- MODULE RestoredOrReported_proofs ----------------------
(***************************************************************************)
(* The deferred cleanup restores the original TLS profile or reports an    *)
(* error, for every value of the constants whose body deadlines fit in    *)
(* the suite's TestTimeout and whose failed writes are never applied.     *)
(***************************************************************************)
EXTENDS PollRefinement_proofs

(* The time the body's three poll sessions may take at most.              *)
BodyBudget ==
    Timeout["progressing"] + Timeout["reconciled"] + Timeout["verify"]

(* The locations from which the test can still reach the restore.         *)
BeforeRestore == {"cleanupGet", "cleanupUpdate"}

(* The locations once the restore has been tried.                          *)
AfterRestore == {"cleanupReconciled", "restored", "done"}

(* Time passes only in poll sessions, each ending by its deadline, so the *)
(* body reaches the restore within BodyBudget of the start.               *)
TimingInv ==
    /\ pc \in PreWrite => now = 0
    /\ pc = "progressing" => pollStart = 0
    /\ pc = "reconciled" => pollStart <= Timeout["progressing"]
    /\ pc = "verify" => pollStart <= Timeout["progressing"] + Timeout["reconciled"]
    /\ pc \in BeforeRestore => now <= BodyBudget

(* originalTLSProfile holds the starting profile from the Get to the      *)
(* restore, the cleanup is registered during the body's polls, and once   *)
(* the restore was tried the profile is back or an error was logged.      *)
ProfileInv ==
    /\ pc \in PreWrite => apiProfile = before
    /\ pc \in {"update"} \cup BodyPolls \cup BeforeRestore => original = before
    /\ pc \in BodyPolls => cleanupReg
    /\ pc \in AfterRestore => (apiProfile = before \/ cleanupErr)

(* The inductive invariant behind RestoredOrReported.                      *)
RestoreInv == PollInv /\ TimingInv /\ ProfileInv

(* The deadlines are numbers.                                               *)
LEMMA TimeoutNumbers ==
    /\ Timeout["progressing"] \in Nat
    /\ Timeout["reconciled"] \in Nat
    /\ Timeout["verify"] \in Nat
    /\ BodyBudget \in Nat
    /\ \A p \in Polls : Timeout[p] \in Nat
  BY TimeoutAssumption DEF Polls, BodyBudget

(* Until the restore has been tried, the clock stays within BodyBudget.    *)
LEMMA NotYetRestored ==
    ASSUME PollInv, TimingInv, pc \notin AfterRestore
    PROVE  now <= BodyBudget
<1>0. /\ TypeOK
      /\ pc \in Polls => pollStart <= now /\ now <= pollStart + Timeout[pc]
  BY DEF PollInv, TypeInv, Deadline
<1>1. pc \in PreWrite \cup BodyPolls \cup BeforeRestore
  BY <1>0 DEF TypeOK, Locs, BodyLocs, CleanupLocs, PreWrite, BodyPolls,
              BeforeRestore, AfterRestore
<1>2. now \in Nat /\ pollStart \in Nat
  BY <1>0 DEF TypeOK
<1>3. CASE pc \in PreWrite
  BY <1>3, TimeoutNumbers DEF TimingInv
<1>4. CASE pc = "progressing"
  BY <1>0, <1>2, <1>4, TimeoutNumbers DEF TimingInv, Polls, BodyBudget
<1>5. CASE pc = "reconciled"
  BY <1>0, <1>2, <1>5, TimeoutNumbers DEF TimingInv, Polls, BodyBudget
<1>6. CASE pc = "verify"
  BY <1>0, <1>2, <1>6, TimeoutNumbers DEF TimingInv, Polls, BodyBudget
<1>7. CASE pc \in BeforeRestore
  BY <1>7 DEF TimingInv
<1>8. QED
  BY <1>1, <1>3, <1>4, <1>5, <1>6, <1>7 DEF BodyPolls

(* A poll session that returns hands control on without touching the      *)
(* profile: the body's sessions start within their budget and lead to the  *)
(* restore in time, the cleanup's sessions only add to cleanupErr.         *)
LEMMA AfterPollRestore ==
    ASSUME NEW p \in Polls, NEW ok \in BOOLEAN, PollInv, TimingInv, ProfileInv,
           pc = p, AfterPoll(p, ok), now' = now, pollStart' = now,
           UNCHANGED <<apiProfile, original, cleanupReg, before>>
    PROVE  TimingInv' /\ ProfileInv'
<1>0. /\ TypeOK
      /\ pollStart <= now /\ now <= pollStart + Timeout[p]
      /\ now \in Nat /\ pollStart \in Nat
  BY DEF PollInv, TypeInv, Deadline, TypeOK
<1>1. CASE p = "progressing"
  <2>1. pc' = "reconciled"
    BY <1>1 DEF AfterPoll
  <2>2. pollStart' <= Timeout["progressing"]
    BY <1>0, <1>1, TimeoutNumbers DEF TimingInv
  <2>3. QED
    BY <1>1, <2>1, <2>2 DEF TimingInv, ProfileInv, PreWrite, BodyPolls,
                            BeforeRestore, AfterRestore
<1>2. CASE p = "reconciled"
  <2>1. pc' \in {"verify", "cleanupGet"}
    BY <1>2 DEF AfterPoll, EndBody, ProfileInv, BodyPolls
  <2>2. pollStart' <= Timeout["progressing"] + Timeout["reconciled"]
    BY <1>0, <1>2, TimeoutNumbers DEF TimingInv
  <2>3. now' <= BodyBudget
    BY <1>0, <1>2, TimeoutNumbers DEF TimingInv, BodyBudget
  <2>4. QED
    BY <1>2, <2>1, <2>2, <2>3 DEF TimingInv, ProfileInv, PreWrite, BodyPolls,
                                  BeforeRestore, AfterRestore
<1>3. CASE p = "verify"
  <2>1. pc' = "cleanupGet"
    BY <1>3 DEF AfterPoll, EndBody, ProfileInv, BodyPolls
  <2>2. now' <= BodyBudget
    BY <1>0, <1>3, TimeoutNumbers DEF TimingInv, BodyBudget
  <2>3. QED
    BY <1>3, <2>1, <2>2 DEF TimingInv, ProfileInv, PreWrite, BodyPolls,
                            BeforeRestore, AfterRestore
<1>4. CASE p \in {"cleanupReconciled", "restored"}
  <2>1. pc' \in {"restored", "done"}
    BY <1>4 DEF AfterPoll
  <2>2. cleanupErr => cleanupErr'
    BY DEF AfterPoll
  <2>3. QED
    BY <1>4, <2>1, <2>2 DEF TimingInv, ProfileInv, PreWrite, BodyPolls,
                            BeforeRestore, AfterRestore
<1>5. QED
  BY <1>1, <1>2, <1>3, <1>4 DEF Polls


LEMMA InitRestoreInv == Init => RestoreInv
<1> SUFFICES ASSUME Init PROVE RestoreInv
  OBVIOUS
<1>1. PollInv
  BY InitPollInv
<1>2. pc = "setup" /\ now = 0 /\ apiProfile = before
  BY DEF Init
<1>3. QED
  BY <1>1, <1>2 DEF RestoreInv, TimingInv, ProfileInv, PreWrite, BodyPolls,
                    BeforeRestore, AfterRestore

(* Every step keeps RestoreInv, when the body's deadlines fit in           *)
(* TestTimeout and a failed write is never applied.                        *)
LEMMA NextRestoreInv ==
    ASSUME BodyBudget < TestTimeout, ~AmbiguousWrites
    PROVE  RestoreInv /\ [Next]_vars => RestoreInv'
<1> SUFFICES ASSUME RestoreInv, [Next]_vars PROVE RestoreInv'
  OBVIOUS
<1>0. /\ PollInv /\ TimingInv /\ ProfileInv /\ TypeOK
      /\ TestTimeout \in Nat
  BY TestTimeoutAssumption DEF RestoreInv, PollInv, TypeInv
<1>1. PollInv'
  BY <1>0, NextPollInv
<1>2. SUFFICES TimingInv' /\ ProfileInv'
  BY <1>1 DEF RestoreInv
<1>3. CASE ObserveConfig \/ ReportStatus
  BY <1>0, <1>3 DEF ObserveConfig, ReportStatus, TimingInv, ProfileInv
<1>4. CASE HarnessTimeout
  <2>1. pc \in AfterRestore
    BY <1>0, <1>4, NotYetRestored, TimeoutNumbers DEF HarnessTimeout, TypeOK
  <2>2. pc' \in AfterRestore
    BY <1>4, <2>1 DEF HarnessTimeout, AfterRestore
  <2>3. QED
    BY <1>0, <1>4, <2>1, <2>2 DEF HarnessTimeout, TimingInv, ProfileInv,
       PreWrite, BodyPolls, BeforeRestore, AfterRestore
<1>5. CASE EnsureOperatorUp
  <2>1. pc' \in {"getAPIServer", "done"}
    BY <1>5 DEF EnsureOperatorUp
  <2>2. QED
    BY <1>0, <1>5, <2>1 DEF EnsureOperatorUp, TimingInv, ProfileInv,
       PreWrite, BodyPolls, BeforeRestore, AfterRestore
<1>6. CASE GetAPIServer
  <2>1. PICK ok \in CallOutcomes :
            /\ pc' = IF ok THEN "update" ELSE "done"
            /\ original' = IF ok THEN apiProfile ELSE original
    BY <1>6 DEF GetAPIServer
  <2>2. QED
    BY <1>0, <1>6, <2>1 DEF GetAPIServer, TimingInv, ProfileInv,
       PreWrite, BodyPolls, BeforeRestore, AfterRestore
<1>7. CASE UpdateModern
  <2>1. PICK ok \in CallOutcomes, applied \in BOOLEAN :
            /\ applied \in IF ok THEN {TRUE}
                           ELSE IF AmbiguousWrites THEN BOOLEAN ELSE {FALSE}
            /\ apiProfile' = IF applied THEN "Modern" ELSE apiProfile
            /\ cleanupReg' = ok
            /\ pc' = IF ok THEN "progressing" ELSE "done"
    BY <1>7 DEF UpdateModern
  <2>2. ok \in BOOLEAN
    BY <1>0, <2>1, BoundsAssumption, ErrsBound DEF TypeOK
  <2>3. ~ok => apiProfile' = apiProfile
    BY <2>1, <2>2
  <2>4. QED
    BY <1>0, <1>7, <2>1, <2>2, <2>3 DEF UpdateModern, TimingInv, ProfileInv,
       PreWrite, BodyPolls, BeforeRestore, AfterRestore
<1>8. CASE CleanupGet
  <2>1. PICK ok \in CallOutcomes :
            /\ pc' = IF ok THEN "cleanupUpdate" ELSE "done"
            /\ cleanupErr' = ~ok
    BY <1>8 DEF CleanupGet
  <2>2. QED
    BY <1>0, <1>8, <2>1 DEF CleanupGet, TimingInv, ProfileInv,
       PreWrite, BodyPolls, BeforeRestore, AfterRestore
<1>9. CASE CleanupUpdate
  <2>1. PICK ok \in CallOutcomes, applied \in BOOLEAN :
            /\ applied \in IF ok THEN {TRUE}
                           ELSE IF AmbiguousWrites THEN BOOLEAN ELSE {FALSE}
            /\ apiProfile' = IF applied THEN original ELSE apiProfile
            /\ pc' = IF ok THEN "cleanupReconciled" ELSE "done"
            /\ cleanupErr' = ~ok
    BY <1>9 DEF CleanupUpdate
  <2>2. ok \in BOOLEAN
    BY <1>0, <2>1, BoundsAssumption, ErrsBound DEF TypeOK
  <2>3. ok => apiProfile' = before
    BY <1>0, <1>9, <2>1, <2>2 DEF CleanupUpdate, ProfileInv, BeforeRestore
  <2>4. QED
    BY <1>0, <1>9, <2>1, <2>2, <2>3 DEF CleanupUpdate, TimingInv, ProfileInv,
       PreWrite, BodyPolls, BeforeRestore, AfterRestore
<1>10. ASSUME NEW p \in Polls, PollCheck(p)
       PROVE  TimingInv' /\ ProfileInv'
  <2>1. PICK ok \in CallOutcomes :
            IF ok /\ Holds(p)
            THEN /\ now' = now
                 /\ pollStart' = now
                 /\ AfterPoll(p, TRUE)
            ELSE UNCHANGED <<pc, pollStart, cleanupErr>>
    BY <1>10 DEF PollCheck
  <2>2. /\ pc = p
        /\ UNCHANGED <<apiProfile, original, cleanupReg, before>>
    BY <1>10 DEF PollCheck
  <2>3. CASE ok /\ Holds(p)
    BY <1>0, <2>1, <2>2, <2>3, AfterPollRestore
  <2>4. CASE ~(ok /\ Holds(p))
    <3>1. pc \in Polls /\ pc' = pc
      BY <2>1, <2>2, <2>4
    <3>2. QED
      BY <1>0, <2>1, <2>2, <2>4, <3>1 DEF TimingInv, ProfileInv, PreWrite,
         BodyPolls, BeforeRestore, AfterRestore, Polls
  <2>5. QED
    BY <2>3, <2>4
<1>11. ASSUME NEW p \in Polls, PollTimeout(p)
       PROVE  TimingInv' /\ ProfileInv'
  <2>1. /\ pc = p /\ now' = now /\ pollStart' = now /\ AfterPoll(p, FALSE)
        /\ UNCHANGED <<apiProfile, original, cleanupReg, before>>
    BY <1>11 DEF PollTimeout
  <2>2. QED
    BY <1>0, <2>1, AfterPollRestore
<1>12. CASE UNCHANGED vars
  BY <1>0, <1>12 DEF vars, TimingInv, ProfileInv, BodyBudget
<1>13. QED
  BY <1>3, <1>4, <1>5, <1>6, <1>7, <1>8, <1>9, <1>10, <1>11, <1>12
  DEF Next, TestStep, Environment

(* For every value of the constants whose body deadlines (5, 15 and 2     *)
(* minutes in the source) add up to less than the serial suite's           *)
(* TestTimeout (30 minutes), and where a write that reports an error was   *)
(* not applied, a finished test has left the APIServer on the profile it   *)
(* started with, or its cleanup has logged an error: the Update, the       *)
(* DeferCleanup registered after it and the cleanup's Get and Update never *)
(* leave the Modern profile behind silently.                               *)
THEOREM RestoreOrReport ==
    ASSUME BodyBudget < TestTimeout, ~AmbiguousWrites
    PROVE  Spec => []RestoredOrReported
<1>1. Init => RestoreInv
  BY InitRestoreInv
<1>2. RestoreInv /\ [Next]_vars => RestoreInv'
  BY NextRestoreInv
<1>3. RestoreInv => RestoredOrReported
  BY DEF RestoreInv, ProfileInv, RestoredOrReported, AfterRestore
<1>4. QED
  BY <1>1, <1>2, <1>3, PTL DEF Spec

=============================================================================
