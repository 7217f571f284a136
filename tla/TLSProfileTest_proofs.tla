------------------------ MODULE TLSProfileTest_proofs ------------------------
(***************************************************************************)
(* Proofs about TLSProfileTest, for every value of its constants.          *)
(***************************************************************************)
EXTENDS TLSProfileTest, TLAPS

(* Locations the test reaches only after GetAPIServer saved the profile.   *)
AfterGet == {"update"} \cup Polls \cup CleanupLocs

(* TypeOK alone is not inductive: CleanupUpdate writes originalTLSProfile  *)
(* into the APIServer, so original must have been saved at every location *)
(* from which the cleanup can be reached.                                  *)
TypeInv ==
    /\ TypeOK
    /\ pc \in AfterGet => original \in ProfileValues

(* The observer writes only well-formed servingInfo sections.             *)
LEMMA ObservedForType ==
    ASSUME NEW prof \in ProfileValues
    PROVE  ObservedFor(prof) \subseteq ObservedConfigs
<1>1. MinVersion(prof) \in Versions \cup {Absent}
  BY DEF MinVersion, Versions
<1>2. ProfileCiphers(prof) \in SUBSET Ciphers
  BY DEF ProfileCiphers, Ciphers, ModernCiphers
<1>3. [minTLS |-> MinVersion(prof), hasCiphers |-> TRUE,
       ciphers |-> ProfileCiphers(prof)] \in ObservedConfigs
  BY <1>1, <1>2 DEF ObservedConfigs
<1>4. [minTLS |-> Absent, hasCiphers |-> FALSE, ciphers |-> {}] \in ObservedConfigs
  BY DEF ObservedConfigs
<1>5. QED
  BY <1>3, <1>4 DEF ObservedFor

(* Where a poll session hands control when it returns.                    *)
LEMMA AfterPollLoc ==
    ASSUME NEW p \in Polls, NEW ok \in BOOLEAN, AfterPoll(p, ok), cleanupReg \in BOOLEAN
    PROVE  /\ pc' \in Locs
           /\ pc' \in AfterGet \cup {"done"}
<1>1. EndBody \in {"cleanupGet", "done"}
  BY DEF EndBody
<1>2. pc' \in {"reconciled", "verify", "cleanupGet", "restored", "done"}
  BY <1>1 DEF AfterPoll, Polls
<1>3. QED
  BY <1>2 DEF Locs, AfterGet, Polls, CleanupLocs, BodyLocs

(* Init establishes TypeInv.                                               *)
LEMMA InitTypeInv == Init => TypeInv
<1> SUFFICES ASSUME Init PROVE TypeInv
  OBVIOUS
<1>1. apiProfile \in ProfileValues
  BY OriginalsAssumption DEF Init
<1>2. observed \in ObservedConfigs
  BY <1>1, ObservedForType DEF Init
<1>3. conds \in [CondTypes -> Status]
  <2>1. Settled \in [CondTypes -> Status]
    BY DEF Settled, CondTypes, Status
  <2>2. CASE OtherRollouts
    BY <2>2 DEF Init, StartConds, Status
  <2>3. CASE ~OtherRollouts
    BY <2>1, <2>3 DEF Init, StartConds
  <2>4. QED
    BY <2>2, <2>3
<1>4. pc \in Locs /\ ~(pc \in AfterGet)
  BY DEF Init, Locs, BodyLocs, AfterGet, Polls, CleanupLocs
<1>5. before \in ProfileValues /\ original \in ProfileValues \cup {Unset}
  BY <1>1 DEF Init
<1>6. errs \in 0..MaxErrors /\ opSteps \in 0..MaxOperatorSteps /\ now \in Nat /\ pollStart \in Nat
  BY BoundsAssumption DEF Init
<1>7. TypeOK
  BY <1>1, <1>2, <1>3, <1>4, <1>5, <1>6 DEF Init, TypeOK
<1>8. QED
  BY <1>4, <1>7 DEF TypeInv

(* A call outcome is a Boolean, and counting a failed call keeps errs     *)
(* within MaxErrors.                                                       *)
LEMMA ErrsBound ==
    ASSUME MaxErrors \in Nat, errs \in 0..MaxErrors, NEW ok \in CallOutcomes
    PROVE  /\ ok \in BOOLEAN
           /\ (IF ok THEN errs ELSE errs + 1) \in 0..MaxErrors
<1>1. ok \in BOOLEAN /\ (~ok => errs < MaxErrors)
  BY DEF CallOutcomes
<1>2. QED
  BY <1>1

(* Every step preserves TypeInv.                                           *)
LEMMA NextTypeInv == TypeInv /\ [Next]_vars => TypeInv'
<1> SUFFICES ASSUME TypeInv, [Next]_vars PROVE TypeInv'
  OBVIOUS
<1> USE BoundsAssumption
<1>0. TypeOK /\ (pc \in AfterGet => original \in ProfileValues)
  BY DEF TypeInv
<1>1. CASE ObserveConfig
  <2>1. observed' \in ObservedConfigs
    BY <1>0, <1>1, ObservedForType DEF ObserveConfig, TypeOK
  <2>2. conds' \in [CondTypes -> Status]
    BY <1>0, <1>1 DEF ObserveConfig, TypeOK, Status, CondTypes
  <2>3. QED
    BY <1>0, <1>1, <2>1, <2>2 DEF ObserveConfig, TypeInv, TypeOK
<1>2. CASE ReportStatus
  BY <1>0, <1>2 DEF ReportStatus, TypeInv, TypeOK
<1>3. CASE HarnessTimeout
  BY <1>0, <1>3 DEF HarnessTimeout, TypeInv, TypeOK, Locs, AfterGet, Polls, CleanupLocs
<1>4. CASE EnsureOperatorUp
  <2>1. PICK ok \in CallOutcomes :
            /\ pc' = IF ok THEN "getAPIServer" ELSE "done"
            /\ failed' = ~ok
            /\ errs' = IF ok THEN errs ELSE errs + 1
    BY <1>4 DEF EnsureOperatorUp
  <2>2. ok \in BOOLEAN /\ errs' \in 0..MaxErrors
    BY <1>0, <2>1, ErrsBound DEF TypeOK
  <2>3. pc' \in Locs /\ pc' \notin AfterGet
    BY <2>1, <2>2 DEF Locs, BodyLocs, AfterGet, Polls, CleanupLocs
  <2>4. QED
    BY <1>0, <1>4, <2>1, <2>2, <2>3 DEF EnsureOperatorUp, TypeInv, TypeOK
<1>5. CASE GetAPIServer
  <2>1. PICK ok \in CallOutcomes :
            /\ pc' = IF ok THEN "update" ELSE "done"
            /\ original' = IF ok THEN apiProfile ELSE original
            /\ failed' = ~ok
            /\ errs' = IF ok THEN errs ELSE errs + 1
    BY <1>5 DEF GetAPIServer
  <2>2. ok \in BOOLEAN /\ errs' \in 0..MaxErrors
    BY <1>0, <2>1, ErrsBound DEF TypeOK
  <2>3. pc' \in Locs /\ (pc' \in AfterGet => ok)
    BY <2>1, <2>2 DEF Locs, BodyLocs, AfterGet, Polls, CleanupLocs
  <2>4. QED
    BY <1>0, <1>5, <2>1, <2>2, <2>3 DEF GetAPIServer, TypeInv, TypeOK, Unset
<1>6. CASE UpdateModern
  <2>1. PICK ok \in CallOutcomes, applied \in BOOLEAN :
            /\ apiProfile' = IF applied THEN "Modern" ELSE apiProfile
            /\ cleanupReg' = ok
            /\ pc' = IF ok THEN "progressing" ELSE "done"
            /\ failed' = ~ok
            /\ errs' = IF ok THEN errs ELSE errs + 1
    BY <1>6 DEF UpdateModern
  <2>2. ok \in BOOLEAN /\ errs' \in 0..MaxErrors
    BY <1>0, <2>1, ErrsBound DEF TypeOK
  <2>3. pc' \in Locs /\ apiProfile' \in ProfileValues
    BY <1>0, <2>1, <2>2 DEF Locs, BodyLocs, TypeOK, ProfileValues, Profiles
  <2>4. original \in ProfileValues
    BY <1>0, <1>6 DEF UpdateModern, AfterGet
  <2>5. QED
    BY <1>0, <1>6, <2>1, <2>2, <2>3, <2>4 DEF UpdateModern, TypeInv, TypeOK
<1>7. CASE CleanupGet
  <2>1. PICK ok \in CallOutcomes :
            /\ pc' = IF ok THEN "cleanupUpdate" ELSE "done"
            /\ cleanupErr' = ~ok
            /\ errs' = IF ok THEN errs ELSE errs + 1
    BY <1>7 DEF CleanupGet
  <2>2. ok \in BOOLEAN /\ errs' \in 0..MaxErrors
    BY <1>0, <2>1, ErrsBound DEF TypeOK
  <2>3. pc' \in Locs /\ original \in ProfileValues
    BY <1>0, <1>7, <2>1, <2>2 DEF CleanupGet, Locs, CleanupLocs, AfterGet
  <2>4. QED
    BY <1>0, <1>7, <2>1, <2>2, <2>3 DEF CleanupGet, TypeInv, TypeOK
<1>8. CASE CleanupUpdate
  <2>1. PICK ok \in CallOutcomes, applied \in BOOLEAN :
            /\ apiProfile' = IF applied THEN original ELSE apiProfile
            /\ pc' = IF ok THEN "cleanupReconciled" ELSE "done"
            /\ cleanupErr' = ~ok
            /\ errs' = IF ok THEN errs ELSE errs + 1
    BY <1>8 DEF CleanupUpdate
  <2>2. ok \in BOOLEAN /\ errs' \in 0..MaxErrors
    BY <1>0, <2>1, ErrsBound DEF TypeOK
  <2>3. original \in ProfileValues
    BY <1>0, <1>8 DEF CleanupUpdate, AfterGet, CleanupLocs
  <2>4. pc' \in Locs /\ apiProfile' \in ProfileValues
    BY <1>0, <2>1, <2>2, <2>3 DEF Locs, CleanupLocs, TypeOK
  <2>5. QED
    BY <1>0, <1>8, <2>1, <2>2, <2>3, <2>4 DEF CleanupUpdate, TypeInv, TypeOK
<1>9. ASSUME NEW p \in Polls, PollCheck(p)
      PROVE  TypeInv'
  <2>1. PICK ok \in CallOutcomes :
            /\ errs' = IF ok THEN errs ELSE errs + 1
            /\ IF ok /\ Holds(p)
               THEN /\ now' = now
                    /\ pollStart' = now
                    /\ AfterPoll(p, TRUE)
               ELSE /\ now' = IF now + Interval[p] <= Deadline(p)
                              THEN now + Interval[p] ELSE Deadline(p)
                    /\ UNCHANGED <<pc, pollStart, failed, cleanupErr, passed>>
    BY <1>9 DEF PollCheck
  <2>2. ok \in BOOLEAN /\ errs' \in 0..MaxErrors
    BY <1>0, <2>1, ErrsBound DEF TypeOK
  <2>3. original \in ProfileValues
    BY <1>0, <1>9 DEF PollCheck, AfterGet
  <2>4. UNCHANGED <<apiProfile, observed, conds, before, original, cleanupReg,
                    killed, propagated, opSteps>>
    BY <1>9 DEF PollCheck
  <2>5. CASE ok /\ Holds(p)
    <3>1. AfterPoll(p, TRUE) /\ now' = now /\ pollStart' = now
      BY <2>1, <2>5
    <3>2. pc' \in Locs /\ pc' \in AfterGet \cup {"done"}
      BY <1>0, <3>1, AfterPollLoc DEF TypeOK
    <3>3. failed' \in BOOLEAN /\ cleanupErr' \in BOOLEAN /\ passed' \in BOOLEAN
      BY <1>0, <3>1 DEF AfterPoll, TypeOK
    <3>4. QED
      BY <1>0, <2>2, <2>3, <2>4, <3>1, <3>2, <3>3 DEF TypeInv, TypeOK
  <2>6. CASE ~(ok /\ Holds(p))
    <3>1. Interval[p] \in Nat /\ Timeout[p] \in Nat
      BY IntervalAssumption, TimeoutAssumption
    <3>2. /\ now' = IF now + Interval[p] <= Deadline(p)
                     THEN now + Interval[p] ELSE Deadline(p)
          /\ UNCHANGED <<pc, pollStart, failed, cleanupErr, passed>>
      BY <2>1, <2>6
    <3>3. now' \in Nat
      BY <1>0, <3>1, <3>2 DEF Deadline, TypeOK
    <3>4. QED
      BY <1>0, <2>2, <2>3, <2>4, <3>2, <3>3 DEF TypeInv, TypeOK
  <2>7. QED
    BY <2>5, <2>6
<1>10. ASSUME NEW p \in Polls, PollTimeout(p)
       PROVE  TypeInv'
  <2>1. original \in ProfileValues
    BY <1>0, <1>10 DEF PollTimeout, AfterGet
  <2>2. pc' \in Locs /\ pc' \in AfterGet \cup {"done"}
    BY <1>0, <1>10, AfterPollLoc DEF PollTimeout, TypeOK
  <2>3. failed' \in BOOLEAN /\ cleanupErr' \in BOOLEAN /\ passed' \in BOOLEAN
    BY <1>0, <1>10 DEF PollTimeout, AfterPoll, TypeOK
  <2>4. QED
    BY <1>0, <1>10, <2>1, <2>2, <2>3 DEF PollTimeout, TypeInv, TypeOK
<1>11. CASE UNCHANGED vars
  BY <1>0, <1>11 DEF vars, TypeInv, TypeOK
<1>12. QED
  BY <1>1, <1>2, <1>3, <1>4, <1>5, <1>6, <1>7, <1>8, <1>9, <1>10, <1>11
  DEF Next, TestStep, Environment

(* The variables of the test and of the cluster always have their types.  *)
THEOREM TypeCorrect == Spec => []TypeOK
<1>1. Init => TypeInv
  BY InitTypeInv
<1>2. TypeInv /\ [Next]_vars => TypeInv'
  BY NextTypeInv
<1>3. TypeInv => TypeOK
  BY DEF TypeInv
<1>4. QED
  BY <1>1, <1>2, <1>3, PTL DEF Spec
-----------------------------------------------------------------------------
(***************************************************************************)
(* A passing body has seen its own write propagated.                       *)
(***************************************************************************)

(* Locations before the Update that writes the Modern profile.             *)
PreWrite == {"setup", "getAPIServer", "update"}
(* The poll sessions of the test body.                                      *)
BodyPolls == {"progressing", "reconciled", "verify"}

(* Before the write the APIServer keeps its starting profile, so the       *)
(* operator cannot have observed VersionTLS13; during the body's polls the *)
(* Modern profile is in place and the cleanup registered, so whatever the  *)
(* operator observes from then on counts as propagated.                    *)
PropInv ==
    /\ TypeInv
    /\ before # "Modern"
    /\ pc \in PreWrite => /\ apiProfile = before
                          /\ observed.minTLS # "VersionTLS13"
    /\ pc \in BodyPolls => /\ apiProfile = "Modern"
                           /\ cleanupReg
                           /\ (observed.minTLS = "VersionTLS13" => propagated)
    /\ passed => propagated

(* Only the Modern profile makes the observer write VersionTLS13.          *)
LEMMA ObservedForNotModern ==
    ASSUME NEW prof \in ProfileValues, prof # "Modern",
           NEW cfg \in ObservedFor(prof)
    PROVE  cfg.minTLS # "VersionTLS13"
<1>1. MinVersion(prof) # "VersionTLS13"
  BY DEF MinVersion
<1>2. QED
  BY <1>1 DEF ObservedFor, Absent

(* Where a poll session of the test hands control, and what it may pass.  *)
LEMMA AfterPollProp ==
    ASSUME NEW p \in Polls, NEW ok \in BOOLEAN, AfterPoll(p, ok), pc = p,
           passed \in BOOLEAN
    PROVE  /\ pc' \notin PreWrite
           /\ pc' \in BodyPolls => pc \in BodyPolls
           /\ passed' => (passed \/ (p = "verify" /\ ok))
<1>1. EndBody \in {"cleanupGet", "done"}
  BY DEF EndBody
<1>2. /\ p \in BodyPolls => pc' \in {"reconciled", "verify", "cleanupGet", "done"}
      /\ p \notin BodyPolls => pc' \in {"restored", "done"}
  BY <1>1 DEF AfterPoll, Polls, BodyPolls
<1>3. QED
  BY <1>2 DEF AfterPoll, PreWrite, BodyPolls

(* Init establishes PropInv when the cluster does not start on Modern.     *)
LEMMA InitPropInv ==
    ASSUME "Modern" \notin Originals
    PROVE  Init => PropInv
<1> SUFFICES ASSUME Init PROVE PropInv
  OBVIOUS
<1>1. TypeInv
  BY InitTypeInv
<1>2. before # "Modern" /\ apiProfile = before /\ apiProfile \in ProfileValues
  BY OriginalsAssumption DEF Init
<1>3. observed.minTLS # "VersionTLS13"
  BY <1>2, ObservedForNotModern DEF Init
<1>4. QED
  BY <1>1, <1>2, <1>3 DEF Init, PropInv, PreWrite, BodyPolls

(* Every step preserves PropInv.                                           *)
LEMMA NextPropInv == PropInv /\ [Next]_vars => PropInv'
<1> SUFFICES ASSUME PropInv, [Next]_vars PROVE PropInv'
  OBVIOUS
<1>0. /\ TypeInv /\ TypeOK
      /\ before # "Modern"
      /\ pc \in PreWrite => /\ apiProfile = before
                            /\ observed.minTLS # "VersionTLS13"
      /\ pc \in BodyPolls => /\ apiProfile = "Modern"
                             /\ cleanupReg
                             /\ (observed.minTLS = "VersionTLS13" => propagated)
      /\ passed => propagated
  BY DEF PropInv, TypeInv
<1>1. TypeInv'
  BY <1>0, NextTypeInv
<1>2. CASE ObserveConfig
  <2>1. PICK cfg \in ObservedFor(apiProfile) : observed' = cfg
    BY <1>2 DEF ObserveConfig
  <2>2. pc \in PreWrite => cfg.minTLS # "VersionTLS13"
    BY <1>0, <2>1, ObservedForNotModern DEF TypeOK
  <2>3. pc \in BodyPolls => propagated'
    BY <1>0, <1>2 DEF ObserveConfig
  <2>4. propagated => propagated'
    BY <1>2 DEF ObserveConfig
  <2>5. QED
    BY <1>0, <1>1, <1>2, <2>1, <2>2, <2>3, <2>4 DEF ObserveConfig, PropInv
<1>3. CASE ReportStatus
  BY <1>0, <1>1, <1>3 DEF ReportStatus, PropInv
<1>4. CASE HarnessTimeout
  BY <1>0, <1>1, <1>4 DEF HarnessTimeout, PropInv, PreWrite, BodyPolls
<1>5. CASE EnsureOperatorUp
  <2>1. pc' \in {"getAPIServer", "done"}
    BY <1>5 DEF EnsureOperatorUp
  <2>2. QED
    BY <1>0, <1>1, <1>5, <2>1 DEF EnsureOperatorUp, PropInv, PreWrite, BodyPolls
<1>6. CASE GetAPIServer
  <2>1. pc' \in {"update", "done"}
    BY <1>6 DEF GetAPIServer
  <2>2. QED
    BY <1>0, <1>1, <1>6, <2>1 DEF GetAPIServer, PropInv, PreWrite, BodyPolls
<1>7. CASE UpdateModern
  <2>1. PICK ok \in CallOutcomes, applied \in BOOLEAN :
            /\ applied \in IF ok THEN {TRUE}
                           ELSE IF AmbiguousWrites THEN BOOLEAN ELSE {FALSE}
            /\ apiProfile' = IF applied THEN "Modern" ELSE apiProfile
            /\ cleanupReg' = ok
            /\ pc' = IF ok THEN "progressing" ELSE "done"
    BY <1>7 DEF UpdateModern
  <2>2. ok \in BOOLEAN
    BY <1>0, <2>1, BoundsAssumption, ErrsBound DEF TypeOK
  <2>3. pc' \in BodyPolls => apiProfile' = "Modern" /\ cleanupReg'
    BY <2>1, <2>2 DEF BodyPolls
  <2>4. pc' \notin PreWrite
    BY <2>1, <2>2 DEF PreWrite
  <2>5. observed.minTLS # "VersionTLS13"
    BY <1>0, <1>7 DEF UpdateModern, PreWrite
  <2>6. QED
    BY <1>0, <1>1, <1>7, <2>3, <2>4, <2>5 DEF UpdateModern, PropInv
<1>8. CASE CleanupGet
  <2>1. pc' \in {"cleanupUpdate", "done"}
    BY <1>8 DEF CleanupGet
  <2>2. QED
    BY <1>0, <1>1, <1>8, <2>1 DEF CleanupGet, PropInv, PreWrite, BodyPolls
<1>9. CASE CleanupUpdate
  <2>1. pc' \in {"cleanupReconciled", "done"}
    BY <1>9 DEF CleanupUpdate
  <2>2. QED
    BY <1>0, <1>1, <1>9, <2>1 DEF CleanupUpdate, PropInv, PreWrite, BodyPolls
<1>10. ASSUME NEW p \in Polls, PollCheck(p)
       PROVE  PropInv'
  <2>1. PICK ok \in CallOutcomes :
            IF ok /\ Holds(p)
            THEN AfterPoll(p, TRUE)
            ELSE UNCHANGED <<pc, passed>>
    BY <1>10 DEF PollCheck
  <2>2. UNCHANGED <<apiProfile, observed, before, cleanupReg, propagated>>
    BY <1>10 DEF PollCheck
  <2>3. CASE ok /\ Holds(p)
    <3>1. /\ pc' \notin PreWrite
          /\ pc' \in BodyPolls => pc \in BodyPolls
          /\ passed' => (passed \/ (p = "verify" /\ TRUE))
      BY <1>0, <1>10, <2>1, <2>3, AfterPollProp DEF PollCheck, TypeOK
    <3>2. p = "verify" => observed.minTLS = "VersionTLS13"
      BY <2>3 DEF Holds, TLSConfigPropagated
    <3>3. p = "verify" => propagated
      BY <1>0, <1>10, <3>2 DEF PollCheck, BodyPolls
    <3>4. QED
      BY <1>0, <1>1, <2>2, <3>1, <3>3 DEF PropInv
  <2>4. CASE ~(ok /\ Holds(p))
    BY <1>0, <1>1, <2>1, <2>2, <2>4 DEF PropInv
  <2>5. QED
    BY <2>3, <2>4
<1>11. ASSUME NEW p \in Polls, PollTimeout(p)
       PROVE  PropInv'
  <2>1. /\ pc' \notin PreWrite
        /\ pc' \in BodyPolls => pc \in BodyPolls
        /\ passed' => passed
    BY <1>0, <1>11, AfterPollProp DEF PollTimeout, TypeOK
  <2>2. QED
    BY <1>0, <1>1, <1>11, <2>1 DEF PollTimeout, PropInv
<1>12. CASE UNCHANGED vars
  BY <1>0, <1>1, <1>12 DEF vars, PropInv
<1>13. QED
  BY <1>2, <1>3, <1>4, <1>5, <1>6, <1>7, <1>8, <1>9, <1>10, <1>11, <1>12
  DEF Next, TestStep, Environment

(* A test body that passed has seen the operator observe the Modern       *)
(* profile the test wrote (the observedConfig check after the Update and *)
(* the reconcile wait), whenever the cluster did not already run Modern.  *)
THEOREM PassPropagates ==
    ASSUME "Modern" \notin Originals
    PROVE  Spec => []PassImpliesPropagated
<1>1. Init => PropInv
  BY InitPropInv
<1>2. PropInv /\ [Next]_vars => PropInv'
  BY NextPropInv
<1>3. PropInv => PassImpliesPropagated
  BY DEF PropInv, PassImpliesPropagated
<1>4. QED
  BY <1>1, <1>2, <1>3, PTL DEF Spec
=============================================================================
