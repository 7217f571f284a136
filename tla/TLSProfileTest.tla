--------------------------- MODULE TLSProfileTest ---------------------------
(***************************************************************************)
(* The e2e test "should propagate Modern TLS profile from APIServer to     *)
(* OpenShift Controller Manager" (testTLSSecurityProfilePropagation in     *)
(* src/unnamed/part_000), together with the cluster it drives.             *)
(*                                                                         *)
(* The test goroutine is the pc-driven part: it saves the APIServer's TLS  *)
(* profile, writes the Modern profile, registers a deferred cleanup, and   *)
(* then runs five wait.PollUntilContextTimeout sessions (three in the body,*)
(* two in the cleanup).  The cluster is the environment: the APIServer     *)
(* spec, the observedConfig of the OpenShiftControllerManager resource and *)
(* the conditions of the ClusterOperator, changed by the operator at times *)
(* the test does not control.  API calls may fail; the harness may end the *)
(* test once the suite's TestTimeout has elapsed.                          *)
(*                                                                         *)
(* Time is a natural number; a poll session checks its condition at its    *)
(* start (immediate = true) and then every Interval[p] until Timeout[p]    *)
(* has elapsed.  API calls themselves take no time in the model.           *)
(***************************************************************************)
EXTENDS Naturals

CONSTANTS
    Interval,          \* Interval[p]: interval argument of poll p
    Timeout,           \* Timeout[p]: timeout argument of poll p
    TestTimeout,       \* TestTimeout of the serial suite (main.go)
    Originals,         \* TLS profiles the APIServer may have when the test starts
    MaxErrors,         \* bound on failed API calls in one behaviour
    MaxOperatorSteps,  \* bound on changes the operator makes in one behaviour
    AmbiguousWrites,   \* whether an Update may be applied yet reported as failed
    OtherRollouts      \* whether the operator may roll out for reasons other than the test

(* The five poll sessions of the test, named after what they wait for.    *)
Polls == {"progressing", "reconciled", "verify", "cleanupReconciled", "restored"}

(* Locations of the test goroutine.                                        *)
BodyLocs == {"setup", "getAPIServer", "update", "progressing", "reconciled", "verify"}
CleanupLocs == {"cleanupGet", "cleanupUpdate", "cleanupReconciled", "restored"}
Locs == BodyLocs \cup CleanupLocs \cup {"done"}

(* apiServer.Spec.TLSSecurityProfile: a named profile or nil.              *)
Nil == "nil"
Profiles == {"Old", "Intermediate", "Modern"}
ProfileValues == Profiles \cup {Nil}
(* originalTLSProfile before the test has read it.                         *)
Unset == "unset"

Versions == {"VersionTLS10", "VersionTLS12", "VersionTLS13"}
Absent == "absent"   \* a field missing from observedConfig.servingInfo

(* Cipher suite names: expectedCiphers of the test and two that only the  *)
(* Intermediate and Old profiles allow.                                    *)
ModernCiphers == {"TLS_AES_128_GCM_SHA256", "TLS_AES_256_GCM_SHA384",
                  "TLS_CHACHA20_POLY1305_SHA256"}
Ciphers == ModernCiphers \cup {"ECDHE-RSA-AES128-GCM-SHA256", "AES128-SHA"}

(* The servingInfo part of observedConfig: minTLSVersion (or Absent) and   *)
(* cipherSuites (hasCiphers is FALSE when the key is missing).             *)
ObservedConfigs == [minTLS : Versions \cup {Absent}, hasCiphers : BOOLEAN,
                    ciphers : SUBSET Ciphers]

CondTypes == {"Available", "Progressing", "Degraded"}
Status == {"True", "False", "Unknown"}

(* A settled operator: Available, not Progressing, not Degraded.          *)
Settled == [Available |-> "True", Progressing |-> "False", Degraded |-> "False"]

(* The conditions the cluster may start in: any settled-or-not mix when    *)
(* the operator may be rolling out for other reasons, else settled.        *)
StartConds == IF OtherRollouts THEN [CondTypes -> {"True", "False"}] ELSE {Settled}

ASSUME IntervalAssumption == Interval \in [Polls -> Nat \ {0}]
ASSUME TimeoutAssumption == Timeout \in [Polls -> Nat \ {0}]
ASSUME TestTimeoutAssumption == TestTimeout \in Nat \ {0}
ASSUME OriginalsAssumption == Originals \subseteq ProfileValues /\ Originals # {}
ASSUME BoundsAssumption == MaxErrors \in Nat /\ MaxOperatorSteps \in Nat
ASSUME AmbiguousAssumption == AmbiguousWrites \in BOOLEAN
ASSUME OtherRolloutsAssumption == OtherRollouts \in BOOLEAN

VARIABLES
    pc,          \* location of the test goroutine
    apiProfile,  \* APIServer "cluster" Spec.TLSSecurityProfile
    observed,    \* OpenShiftControllerManager "cluster" Spec.ObservedConfig.servingInfo
    conds,       \* ClusterOperator "openshift-controller-manager" condition statuses
    before,      \* (history) the APIServer profile when the test started
    original,    \* originalTLSProfile
    cleanupReg,  \* the DeferCleanup closure has been registered
    failed,      \* an assertion of the test body has failed
    cleanupErr,  \* the cleanup has logged an error
    killed,      \* the harness has ended the test at its TestTimeout
    passed,      \* the test body returned without a failed assertion
    propagated,  \* (history) the operator observed the Modern profile the test wrote
    now,         \* current time
    pollStart,   \* start time of the current poll session
    errs,        \* failed API calls so far
    opSteps      \* operator changes so far

vars == <<pc, apiProfile, observed, conds, before, original, cleanupReg, failed,
          cleanupErr, killed, passed, propagated, now, pollStart, errs, opSteps>>

-----------------------------------------------------------------------------
(***************************************************************************)
(* The operator (environment).                                             *)
(***************************************************************************)

(* What the operator's TLS observer writes to servingInfo for a profile.   *)
MinVersion(prof) ==
    CASE prof = "Old" -> "VersionTLS10"
      [] prof = "Modern" -> "VersionTLS13"
      [] OTHER -> "VersionTLS12"

ProfileCiphers(prof) ==
    CASE prof = "Modern" -> ModernCiphers
      [] prof = "Old" -> Ciphers
      [] OTHER -> Ciphers \ {"AES128-SHA"}

(* For a nil profile the observer either writes the Intermediate defaults  *)
(* or leaves the TLS keys out (cluster defaults); the test accepts both.   *)
ObservedFor(prof) ==
    {[minTLS |-> MinVersion(prof), hasCiphers |-> TRUE,
      ciphers |-> ProfileCiphers(prof)]}
    \cup (IF prof = Nil
          THEN {[minTLS |-> Absent, hasCiphers |-> FALSE, ciphers |-> {}]}
          ELSE {})

(* The operator observes the current APIServer profile into observedConfig *)
(* and starts rolling it out (Progressing=True).                           *)
ObserveConfig ==
    /\ opSteps < MaxOperatorSteps
    /\ \E cfg \in ObservedFor(apiProfile) :
          /\ cfg # observed
          /\ observed' = cfg
    /\ conds' = [conds EXCEPT !["Progressing"] = "True"]
    /\ propagated' = (propagated \/ (apiProfile = "Modern" /\ cleanupReg))
    /\ opSteps' = opSteps + 1
    /\ UNCHANGED <<pc, apiProfile, before, original, cleanupReg, failed,
                   cleanupErr, killed, passed, now, pollStart, errs>>

(* The operator reports any new set of condition statuses; without other *)
(* rollouts it reports Progressing=True only for the rollout it started   *)
(* on observing a configuration.                                          *)
ReportStatus ==
    /\ opSteps < MaxOperatorSteps
    /\ \E c \in [CondTypes -> Status] :
          /\ c # conds
          /\ OtherRollouts \/ c["Progressing"] = "True" => conds["Progressing"] = "True"
          /\ conds' = c
    /\ opSteps' = opSteps + 1
    /\ UNCHANGED <<pc, apiProfile, observed, before, original, cleanupReg,
                   failed, cleanupErr, killed, passed, propagated, now, pollStart, errs>>

(* The harness ends a test that has run for TestTimeout: the test is       *)
(* reported failed and its goroutine may or may not get to run further.    *)
HarnessTimeout ==
    /\ ~killed
    /\ pc # "done"
    /\ now >= TestTimeout
    /\ killed' = TRUE
    /\ pc' \in {pc, "done"}
    /\ UNCHANGED <<apiProfile, observed, conds, before, original, cleanupReg,
                   failed, cleanupErr, passed, propagated, now, pollStart, errs, opSteps>>

-----------------------------------------------------------------------------
(***************************************************************************)
(* The conditions polled by the test, each a pure function of what one Get *)
(* returned.                                                               *)
(***************************************************************************)

(* Some condition has Type Progressing and Status True.                    *)
ProgressingSeen(c) == c["Progressing"] = "True"

(* The body's completion check: not Degraded, Available and not           *)
(* Progressing (isProgressing stays true unless Progressing is False).    *)
ReconcileDone(c) ==
    /\ c["Degraded"] # "True"
    /\ c["Available"] = "True"
    /\ c["Progressing"] = "False"

(* The cleanup's completion check, which does not look at Degraded.        *)
CleanupReconcileDone(c) ==
    /\ c["Available"] = "True"
    /\ c["Progressing"] = "False"

(* Mutant: the minTLSVersion == VersionTLS13 check left out.               *)
TLSConfigAnyVersion(cfg) ==
    /\ cfg.minTLS # Absent
    /\ cfg.hasCiphers
    /\ cfg.ciphers # {}
    /\ ModernCiphers \subseteq cfg.ciphers

(* The body's observedConfig check: both keys present, minTLSVersion is    *)
(* VersionTLS13 and cipherSuites is non-empty and holds expectedCiphers.   *)
TLSConfigPropagated(cfg) ==
    /\ cfg.minTLS # Absent
    /\ cfg.hasCiphers
    /\ cfg.minTLS = "VersionTLS13"
    /\ cfg.ciphers # {}
    /\ ModernCiphers \subseteq cfg.ciphers

(* The cleanup's observedConfig check against originalTLSProfile.          *)
TLSProfileRestored(cfg, orig) ==
    IF orig = Nil
    THEN \/ cfg.minTLS = "VersionTLS12"
         \/ cfg.minTLS = Absent
    ELSE /\ cfg.minTLS # Absent
         /\ cfg.minTLS # "VersionTLS13"

(* The condition of poll p on the current cluster state.                   *)
Holds(p) ==
    CASE p = "progressing" -> ProgressingSeen(conds)
      [] p = "reconciled" -> ReconcileDone(conds)
      [] p = "verify" -> TLSConfigPropagated(observed)
      [] p = "cleanupReconciled" -> CleanupReconcileDone(conds)
      [] p = "restored" -> TLSProfileRestored(observed, original)

-----------------------------------------------------------------------------
(***************************************************************************)
(* The test goroutine.                                                     *)
(***************************************************************************)

(* Outcomes of one API call: TRUE when it succeeds; failures are bounded.  *)
CallOutcomes == IF errs < MaxErrors THEN BOOLEAN ELSE {TRUE}

(* Mutant: the restore runs only after the last check of the body, as if  *)
(* it were plain code at the end of the function rather than deferred.    *)
EndBodyAtEnd == IF cleanupReg /\ pc = "verify" THEN "cleanupGet" ELSE "done"

(* Where the body goes when it returns or an Expect fails: the registered  *)
(* cleanup runs, or the test is over.                                      *)
EndBody == IF cleanupReg THEN "cleanupGet" ELSE "done"

(* MustNewClientset and MustEnsureClusterOperatorStatusIsSet: either fails *)
(* the test, or the operator is up.                                        *)
EnsureOperatorUp ==
    /\ pc = "setup"
    /\ \E ok \in CallOutcomes :
          /\ pc' = IF ok THEN "getAPIServer" ELSE "done"
          /\ failed' = ~ok
          /\ errs' = IF ok THEN errs ELSE errs + 1
    /\ UNCHANGED <<apiProfile, observed, conds, before, original, cleanupReg,
                   cleanupErr, killed, passed, propagated, now, pollStart, opSteps>>

(* Mutant: the APIServer is read but its profile is not saved.             *)
GetAPIServerNoSave ==
    /\ pc = "getAPIServer"
    /\ \E ok \in CallOutcomes :
          /\ pc' = IF ok THEN "update" ELSE "done"
          /\ failed' = ~ok
          /\ errs' = IF ok THEN errs ELSE errs + 1
    /\ UNCHANGED <<apiProfile, observed, conds, before, original, cleanupReg,
                   cleanupErr, killed, passed, propagated, now, pollStart, opSteps>>

(* Get the APIServer and save its profile as originalTLSProfile.           *)
GetAPIServer ==
    /\ pc = "getAPIServer"
    /\ \E ok \in CallOutcomes :
          /\ pc' = IF ok THEN "update" ELSE "done"
          /\ original' = IF ok THEN apiProfile ELSE original
          /\ failed' = ~ok
          /\ errs' = IF ok THEN errs ELSE errs + 1
    /\ UNCHANGED <<apiProfile, observed, conds, before, cleanupReg, cleanupErr,
                   killed, passed, propagated, now, pollStart, opSteps>>

(* Update the APIServer with the Modern profile; on success register the   *)
(* cleanup and start the first poll.  A failed Update fails the test       *)
(* before the cleanup is registered; with AmbiguousWrites the failed      *)
(* Update may still have been applied.                                     *)
UpdateModern ==
    /\ pc = "update"
    /\ \E ok \in CallOutcomes, applied \in BOOLEAN :
          /\ applied \in IF ok THEN {TRUE} ELSE IF AmbiguousWrites THEN BOOLEAN ELSE {FALSE}
          /\ apiProfile' = IF applied THEN "Modern" ELSE apiProfile
          /\ cleanupReg' = ok
          /\ pc' = IF ok THEN "progressing" ELSE "done"
          /\ failed' = ~ok
          /\ errs' = IF ok THEN errs ELSE errs + 1
    /\ pollStart' = now
    /\ UNCHANGED <<observed, conds, before, original, cleanupErr, killed, passed,
                   propagated, now, opSteps>>

(* The deferred cleanup Gets the APIServer; an error is logged and ends   *)
(* the cleanup.                                                           *)
CleanupGet ==
    /\ pc = "cleanupGet"
    /\ \E ok \in CallOutcomes :
          /\ pc' = IF ok THEN "cleanupUpdate" ELSE "done"
          /\ cleanupErr' = ~ok
          /\ errs' = IF ok THEN errs ELSE errs + 1
    /\ UNCHANGED <<apiProfile, observed, conds, before, original, cleanupReg,
                   failed, killed, passed, propagated, now, pollStart, opSteps>>

(* The cleanup writes originalTLSProfile back; an error is logged and     *)
(* ends the cleanup.                                                      *)
CleanupUpdate ==
    /\ pc = "cleanupUpdate"
    /\ \E ok \in CallOutcomes, applied \in BOOLEAN :
          /\ applied \in IF ok THEN {TRUE} ELSE IF AmbiguousWrites THEN BOOLEAN ELSE {FALSE}
          /\ apiProfile' = IF applied THEN original ELSE apiProfile
          /\ pc' = IF ok THEN "cleanupReconciled" ELSE "done"
          /\ cleanupErr' = ~ok
          /\ errs' = IF ok THEN errs ELSE errs + 1
    /\ pollStart' = now
    /\ UNCHANGED <<observed, conds, before, original, cleanupReg, failed,
                   killed, passed, propagated, now, opSteps>>

(* What the code does once wait.PollUntilContextTimeout of poll p returns, *)
(* ok being err == nil.                                                    *)
AfterPoll(p, ok) ==
    /\ pc' = CASE p = "progressing" -> "reconciled"
               [] p = "reconciled" -> IF ok THEN "verify" ELSE EndBody
               [] p = "verify" -> EndBody
               [] p = "cleanupReconciled" -> IF ok THEN "restored" ELSE "done"
               [] p = "restored" -> "done"
    /\ failed' = (failed \/ (p \in {"reconciled", "verify"} /\ ~ok))
    /\ cleanupErr' = (cleanupErr \/ (p \in {"cleanupReconciled", "restored"} /\ ~ok))
    /\ passed' = (passed \/ (p = "verify" /\ ok))

Deadline(p) == pollStart + Timeout[p]

(* Mutant: the sleep after a failed check not capped at the deadline.    *)
PollCheckNoCap(p) ==
    /\ pc = p
    /\ (now - pollStart) % Interval[p] = 0
    /\ now <= Deadline(p)
    /\ \E ok \in CallOutcomes :
          /\ errs' = IF ok THEN errs ELSE errs + 1
          /\ IF ok /\ Holds(p)
             THEN /\ now' = now
                  /\ pollStart' = now
                  /\ AfterPoll(p, TRUE)
             ELSE /\ now' = now + Interval[p]
                  /\ UNCHANGED <<pc, pollStart, failed, cleanupErr, passed>>
    /\ UNCHANGED <<apiProfile, observed, conds, before, original, cleanupReg,
                   killed, propagated, opSteps>>

(* One check of poll p at a tick of its ticker.  A Get error makes the     *)
(* condition return (false, nil); the session then sleeps to the next    *)
(* tick, or to its deadline if that comes first.                           *)
PollCheck(p) ==
    /\ pc = p
    /\ (now - pollStart) % Interval[p] = 0
    /\ now <= Deadline(p)
    /\ \E ok \in CallOutcomes :
          /\ errs' = IF ok THEN errs ELSE errs + 1
          /\ IF ok /\ Holds(p)
             THEN /\ now' = now
                  /\ pollStart' = now
                  /\ AfterPoll(p, TRUE)
             ELSE /\ now' = IF now + Interval[p] <= Deadline(p)
                            THEN now + Interval[p] ELSE Deadline(p)
                  /\ UNCHANGED <<pc, pollStart, failed, cleanupErr, passed>>
    /\ UNCHANGED <<apiProfile, observed, conds, before, original, cleanupReg,
                   killed, propagated, opSteps>>

(* Mutant: the deadline compared with > instead of >=.                    *)
PollTimeoutStrict(p) ==
    /\ pc = p
    /\ now > Deadline(p)
    /\ pollStart' = now
    /\ AfterPoll(p, FALSE)
    /\ UNCHANGED <<apiProfile, observed, conds, before, original, cleanupReg,
                   killed, propagated, now, errs, opSteps>>

(* The context deadline of poll p fires: the session returns its error.   *)
(* At a tick that falls on the deadline either may win.                    *)
PollTimeout(p) ==
    /\ pc = p
    /\ now >= Deadline(p)
    /\ pollStart' = now
    /\ AfterPoll(p, FALSE)
    /\ UNCHANGED <<apiProfile, observed, conds, before, original, cleanupReg,
                   killed, propagated, now, errs, opSteps>>

-----------------------------------------------------------------------------

Init ==
    /\ pc = "setup"
    /\ apiProfile \in Originals
    /\ observed \in ObservedFor(apiProfile)
    /\ conds \in StartConds
    /\ before = apiProfile
    /\ original = Unset
    /\ cleanupReg = FALSE
    /\ failed = FALSE
    /\ cleanupErr = FALSE
    /\ killed = FALSE
    /\ passed = FALSE
    /\ propagated = FALSE
    /\ now = 0
    /\ pollStart = 0
    /\ errs = 0
    /\ opSteps = 0

TestStep ==
    \/ EnsureOperatorUp
    \/ GetAPIServer
    \/ UpdateModern
    \/ CleanupGet
    \/ CleanupUpdate
    \/ \E p \in Polls : PollCheck(p) \/ PollTimeout(p)

Environment == ObserveConfig \/ ReportStatus \/ HarnessTimeout

Next == TestStep \/ Environment

(* The test goroutine runs whenever it can; the operator and the harness  *)
(* get no fairness.                                                        *)
Spec == Init /\ [][Next]_vars /\ WF_vars(TestStep)

-----------------------------------------------------------------------------
(***************************************************************************)
(* The test's poll sessions as the abstract sessions of PollSession: the   *)
(* session is the poll the test is in, its elapsed time is now minus the   *)
(* session's start, and its condition is the poll's condition on the       *)
(* current cluster state.                                                  *)
(***************************************************************************)
SessionOf == IF pc \in Polls THEN pc ELSE "idle"
ElapsedOf == IF pc \in Polls THEN now - pollStart ELSE 0
ConvergedOf == pc \in Polls /\ Holds(pc)

PS == INSTANCE PollSession
        WITH Sessions <- Polls, Limit <- Timeout, session <- SessionOf,
             elapsed <- ElapsedOf, converged <- ConvergedOf

-----------------------------------------------------------------------------
(***************************************************************************)
(* Properties.                                                             *)
(***************************************************************************)

TypeOK ==
    /\ pc \in Locs
    /\ apiProfile \in ProfileValues
    /\ observed \in ObservedConfigs
    /\ conds \in [CondTypes -> Status]
    /\ before \in ProfileValues
    /\ original \in ProfileValues \cup {Unset}
    /\ cleanupReg \in BOOLEAN
    /\ failed \in BOOLEAN
    /\ cleanupErr \in BOOLEAN
    /\ killed \in BOOLEAN
    /\ passed \in BOOLEAN
    /\ propagated \in BOOLEAN
    /\ now \in Nat
    /\ pollStart \in Nat
    /\ errs \in 0..MaxErrors
    /\ opSteps \in 0..MaxOperatorSteps

(* When the test is over, the APIServer has the TLS profile it had before  *)
(* the test, unless the cleanup logged an error: the Modern profile the    *)
(* test writes never outlives the test silently (Update, DeferCleanup and  *)
(* the cleanup's Get/Update, whatever assertion or call fails).            *)
RestoredOrReported == pc = "done" => (apiProfile = before \/ cleanupErr)

(* A test whose body passed has seen the operator propagate the Modern     *)
(* profile that the test itself wrote: the final observedConfig check     *)
(* cannot be satisfied by a configuration observed before the write.      *)
PassImpliesPropagated == passed => propagated

(* Each of the five PollUntilContextTimeout sessions of the test behaves  *)
(* as the spec's poll session: it never waits past its timeout, returns    *)
(* success only when its condition holds, a timeout only at its deadline,  *)
(* and always returns, whatever Get errors and operator changes happen.    *)
PollSessionRefined == PS!Spec

(* The test, cleanup included, always comes to an end.                    *)
TestTerminates == <>(pc = "done")

(* Cleanup errors are only logged, never fail the test (the spec's error  *)
(* policy): once the body has passed, the test is not reported failed.    *)
CleanupNeverFailsTest == passed => ~killed

(* The cleanup's restore check ends with "not properly restored" only     *)
(* when the observedConfig is not the one for originalTLSProfile (the     *)
(* comment: "If original profile was set, it should match").              *)
RestoreCheckMatchesOriginal ==
    [][(pc = "restored" /\ ~cleanupErr /\ cleanupErr') =>
          observed \notin ObservedFor(original)]_vars

(* The wait for "reconciliation complete" succeeds only once the operator *)
(* has picked up the Modern profile the test wrote.                        *)
ReconcileSeesChange ==
    [][(pc = "reconciled" /\ pc' = "verify") => propagated]_vars

=============================================================================
