# TLA+ models of the TLS security profile propagation test

This directory holds the formal models of the OpenShift Controller Manager
operator's end-to-end test extension. The repository under `src/` holds two pieces:

* `src/unnamed/part_000` holds the e2e test "should propagate Modern TLS profile
  from APIServer to OpenShift Controller Manager". It comes in two variants of
  `testTLSSecurityProfilePropagation`:
  * a `testing.TB` variant (lines 45-311), using `require` and `t.Cleanup`;
  * a Ginkgo variant (lines 338-603), using `Expect` and `g.DeferCleanup`.

  The two variants have the same control flow. The `TestE2E`/`TestMain` entry
  points come first, at lines 1-18.
* `src/cmd/.../main.go` builds the OTE registry. It registers the serial suite,
  which has `Parallelism: 1` and `TestTimeout: 30 min`.

## How the parts interact

The test runs as one goroutine against a live cluster. It takes these steps in
order:

1. Makes sure the operator is up.
2. Reads the APIServer and saves `originalTLSProfile`.
3. Writes the Modern profile.
4. Registers a deferred cleanup, but only once the Update has succeeded.
5. Runs three `wait.PollUntilContextTimeout` sessions:
   * "Progressing=True", 5 min. A timeout here is only logged.
   * "reconciliation complete", 15 min. A timeout fails the test.
   * "observedConfig has VersionTLS13 and the Modern ciphers", 2 min. A timeout
     fails the test.

The cleanup then runs, whether the body passed or failed. It takes these steps:

1. Gets the APIServer and writes the original profile back.
2. Runs two more sessions: reconcile (10 min) and "restored" (2 min).

Every cleanup error is only logged.

The operator (not in this repository) acts concurrently. It watches the
APIServer, writes `observedConfig.servingInfo`, and reports the ClusterOperator
conditions. The OTE harness ends a test once the suite's TestTimeout has elapsed.

## Modules

| module | models |
|---|---|
| `TLSProfileTest` | the test goroutine (both variants) and its environment: the operator and the harness |
| `MC_TLSProfileTest` | the constant definitions TLC uses: short deadlines, and the source's deadlines in minutes |
| `TLSProfileTest_proofs` | the TLAPS proofs of type correctness and propagation |
| `PollSession` | the abstract poll session: what `wait.PollUntilContextTimeout` promises its caller (spec §4.1) |
| `PollRefinement_proofs` | the TLAPS proof that the test's sessions implement `PollSession` (safety part) |
| `RestoredOrReported_proofs` | the TLAPS proof that the cleanup restores the profile or reports an error |
| `SerialSuite` | the extension binary `main.go`, from `main()` to `os.Exit`, and the OTE runner running the serial suite |
| `MC_SerialSuite` | the specs, tags, version strings and invocations TLC uses for `SerialSuite` |
| `SerialSuite_proofs` | the TLAPS proofs about the exit status and the types of the binary and the runner |

### State of `TLSProfileTest`

* **`pc`**: the location of the test goroutine. These are the statements
  between API calls and poll sessions, in the body and in the cleanup.
* **`apiProfile`**: the APIServer's `Spec.TLSSecurityProfile`. It is `"nil"` or
  one of Old, Intermediate or Modern.
* **`observed`**: the servingInfo part of the OpenShiftControllerManager
  `observedConfig`, as a record of `minTLSVersion` (or absent), whether
  `cipherSuites` is present, and the cipher set.
* **`conds`**: the Available/Progressing/Degraded statuses of the ClusterOperator.
* **`original`**: `originalTLSProfile`, which is `"unset"` until it has been read.
* **`cleanupReg`**: whether the DeferCleanup/`t.Cleanup` closure is registered.
* **`failed`, `passed`, `cleanupErr`, `killed`**: the test outcome, a logged
  cleanup error, and the harness having ended the test.
* **`before`, `propagated`**: history variables used only by properties.
  `before` is the profile at the start. `propagated` says the operator observed
  the Modern profile after the test wrote it.
* **`now`, `pollStart`**: a discrete clock, and the start of the current poll
  session.
* **`errs`, `opSteps`**: counters bounding failed API calls (`MaxErrors`) and
  operator changes (`MaxOperatorSteps`).

### Actions

* One action per API call of the test, each with success and failure outcomes:
  * `EnsureOperatorUp` (lines 339-342);
  * `GetAPIServer` (lines 345-349);
  * `UpdateModern` (lines 358-362);
  * `CleanupGet` and `CleanupUpdate`, for the cleanup's own Get and Update.
* **`UpdateModern`** sets `cleanupReg` only on success, exactly as the code
  registers the cleanup after `Expect(err)`. With `AmbiguousWrites` a failed
  Update may still have been applied.
* **`PollCheck(p)`** is one check of poll session `p`, at its start
  (`immediate = true`) or at a tick. A Get error makes the condition return
  `(false, nil)`. A false check sleeps to the next tick or to the deadline.
* **`PollTimeout(p)`** is the context deadline firing. At a tick on the
  deadline, `PollCheck` and `PollTimeout` are both enabled, which is the race of
  `PollUntilContextTimeout`.
* **`AfterPoll`** is what the code does with the session's `err`:
  * the progressing timeout is ignored;
  * a reconcile or verify timeout fails the body and starts the cleanup;
  * a cleanup timeout is logged.
* **The condition predicates** are `ProgressingSeen`, `ReconcileDone`,
  `TLSConfigPropagated`, `CleanupReconcileDone` and `TLSProfileRestored`. Each
  translates its closure: which condition types and statuses it looks at, and
  which servingInfo keys and values it requires.
* **`ObserveConfig` and `ReportStatus`** are the operator, modelled from the
  spec. It has no fairness, so the test must cope with an operator that never
  converges. `ObserveConfig` starts a rollout (Progressing=True). The constant
  `OtherRollouts` says whether the operator may also be rolling out for other
  reasons:
  * When it is TRUE, the cluster starts in any condition mix (`StartConds`),
    and `ReportStatus` may report any statuses.
  * When it is FALSE, the cluster starts `Settled`. Progressing=True then comes
    only from the rollout of an observed configuration.
* **`HarnessTimeout`** models the serial suite's TestTimeout (main.go line 61).

### The abstract poll session and the refinement

`PollSession` states what a caller of `PollUntilContextTimeout(ctx, interval,
timeout, true, cond)` may rely on, one session after another. Its state is:

* `session`: the session in progress, or `"idle"`;
* `elapsed`: the time since the session started;
* `converged`: whether the condition holds on the current cluster state.

A session can do four things:

* `Wait`: it waits, but never past its `Limit`;
* `Finish`: it returns only when `converged` holds;
* `TimeOut`: it times out only at `elapsed = Limit`;
* `Abandon`: it is abandoned when the caller is ended from outside.

`Observe` lets the cluster change the condition at any time. Weak fairness on
`Wait \/ Finish \/ TimeOut` says a running session always returns.

`TLSProfileTest` maps onto it with `PS == INSTANCE PollSession WITH ...`:

* `SessionOf` is `pc` when `pc` is a poll location, and `"idle"` otherwise.
* `ElapsedOf` is `now - pollStart`.
* `ConvergedOf` is the poll's condition (`Holds(pc)`).
* `Limit` is the poll's `Timeout`.

A failed check, an API error swallowed by the condition, and a capped sleep are
all `Wait` steps, or stutters when the clock is already at the deadline.
`PollCheck` on a true condition is `Finish`, and `PollTimeout` is `TimeOut`. The
harness ending the test in a poll is `Abandon`. The operator is `Observe`.

### `SerialSuite`: the extension binary and the serial suite

State:

* `invocation`: the subcommand on the command line.
* `phase`: `main`, `registered`, `command`, `running` or `exited`.
* `registered`: the specs added to the extension.
* `version`: `cmd.Version`.
* `selected`, `running`, `result`, `elapsed`: the runner's view of the suite.
* `exitCode`: the status passed to `os.Exit`.

Actions from `main.go`:

* `PrepareOperatorTestsRegistry` (lines 51-78) registers the specs, or exits with
  status 255 through `klog.Fatalf` when the Ginkgo specs cannot be built.
* `NewOperatorTestCommand` (27-49) sets `cmd.Version` to the build version, or
  to `"<unknown>"` when it is empty (`VersionOf`, 40-44).
* `RunRoot` (33-37) prints the help, or exits 255 through `klog.Fatal`.
* `ExitWith` (21-25) is `os.Exit(cli.Run(command))`.
* `Qualifies` (64-68) is the suite's CEL qualifier.
* `Parallelism` (69) is the suite's `Parallelism: 1`.

The OTE runner is not in this repository, so its actions are modelled from the
spec:

* `RunSuite` selects the registered specs that qualify.
* `StartSpec` starts one if fewer than `Parallelism` are running.
* `SpecEnds` passes or fails a spec, and has no fairness, because a spec may hang.
* `Tick` advances the clock of the running specs.
* `TimeOutSpec` fails a spec that reached `SuiteTimeout` (the suite's
  `TestTimeout`, lines 61 and 70).
* `SuiteDone` exits 1 if any selected spec did not pass, and 0 otherwise.
* `RunListing` covers list and info.

Fairness: weak fairness for the binary's own steps, for starting specs, for the
clock and for the timeout. These are code that keeps running, or time that
passes. A spec's own completion gets none.

## Runs

| run | cfg | expect | what it shows |
|---|---|---|---|
| short | `MC_Short.cfg` | pass | Deadlines are 2-3 ticks, with up to 2 failed API calls and 3 operator changes. `TypeOK`, `RestoredOrReported`, `PassImpliesPropagated` and `TestTerminates` hold. With an interval of 1, ticks fall on the deadlines, so the race between `PollCheck` and `PollTimeout` occurs. |
| budget | `MC_Budget.cfg` | pass | The source's deadlines in minutes, with TestTimeout 30. `RestoredOrReported` holds: the profile is restored, or a cleanup error is reported, even when the harness ends the test. |
| budget_overrun | `MC_BudgetViolation.cfg` | violation | `CleanupNeverFailsTest` fails. The deadlines add up to 34 min, more than 30. |
| ambiguous_update | `MC_AmbiguousUpdate.cfg` | violation | `RestoredOrReported` fails. An applied-but-errored Update leaves Modern in place with no cleanup. |
| modern_original | `MC_ModernOriginal.cfg` | violation | `RestoreCheckMatchesOriginal` fails. A cluster that started on Modern is reported "not properly restored". |
| stale_reconcile | `MC_StaleReconcile.cfg` | violation | `ReconcileSeesChange` fails. The cluster starts settled and only the test's change is rolled out (`OtherRollouts = FALSE`). The operator is slower than the progressing wait, which times out and is only logged. The reconcile wait then passes at its first check on the Available, not-Progressing status from before the write. |
| poll_refinement | `MC_PollRefinement.cfg` | pass | `PollSessionRefined` (`PS!Spec`, fairness included) holds. Intervals of 2 do not divide the timeouts of 3, so the last sleep of every failed session is capped at the deadline. No tick falls on a deadline here; the `short` run covers that race. |
| serial_suite | `MC_SerialSuite.cfg` | pass | `TypeOK`, `ExitCodeReflectsResults` and `EveryInvocationExits` hold, for every invocation, build outcome and spec result, with hanging specs. |

The four violations are recorded as findings in `PROJECT.json`.

### Bounds

* **Short deadlines** (2-3 ticks with an interval of 1) let every session do
  three things: pass at its first check, fail a check and retry, or time out.
  The operator can act between any two checks.
* **The minute-scale run** keeps the source's deadline ratios, with each 5 s or
  10 s interval coarsened to one check per minute. This is enough to show the
  34-minute worst case against the 30-minute budget.
* **`MaxErrors = 2` and `MaxOperatorSteps = 3`** let a failure hit:
  * the write or the cleanup write;
  * a poll's Get;
  * the operator before, between and after the test's writes.

* **`MC_SerialSuite`** has four specs:
  * this repository's `[Operator][TLS][Serial]` test;
  * a `[Build][Serial]` spec;
  * a `[Serial]` spec with no component tag, which the qualifier drops;
  * a parallel `[Operator][TLS]` spec, which a precedence slip in the qualifier
    would add.

  Two serial specs let one wait while the other runs. `SuiteTimeout = 2` lets a spec
  pass, fail, or hang until it is timed out.

### Fairness

`WF_vars(TestStep)` applies only to the test goroutine. A Go goroutine that is
not blocked keeps running, and every poll session sleeps only until its next
tick or deadline.

The operator and the harness get no fairness. The test must end even if the
operator never reports a useful status (`TestTerminates`).

`CHECK_DEADLOCK FALSE` is set because the test process really does stop at
`pc = "done"`.

## Proofs (`TLSProfileTest_proofs`, checked by `tlapm`)

* **`TypeCorrect`: `Spec => []TypeOK`**, for all constants satisfying the named
  ASSUMEs.
  * TypeOK alone is not inductive. `CleanupUpdate` writes `original` into the
    APIServer, so the inductive invariant `TypeInv` adds that `original` is a
    real profile at every location after `GetAPIServer`.
  * The step lemma has one case per action.
  * Lemmas:
    * `ObservedForType`: the observer writes only well-formed servingInfo.
    * `AfterPollLoc`: where a session hands control.
    * `ErrsBound`: the error counter stays within `MaxErrors`.
* **`PassPropagates`: `Spec => []PassImpliesPropagated`**, under the hypothesis
  `"Modern" \notin Originals`. The inductive invariant `PropInv` says:
  * before the Update, the APIServer keeps its starting profile, so observedConfig
    cannot hold VersionTLS13;
  * during the body's polls, the Modern profile is in place and the cleanup is
    registered, so a VersionTLS13 observedConfig was observed after the write;
  * the verify poll passes only on VersionTLS13 (`TLSConfigPropagated`).

  The hypothesis is needed: with Modern as the original, the final check can pass
  on the configuration that existed before the test. `PropInv` was
  model-checked on the `short` instance before it was proved.

* **`PollSessionSafety`: `Spec => PS!SafeSpec`**, in `PollRefinement_proofs`. This
  is the safety part of the refinement, for every value of the constants.
  * The invariant `PollInv` adds to `TypeInv` that inside a session
    `pollStart <= now <= Deadline(pc)`. This holds because the sleep after a
    failed check is capped at the deadline. Without it, a `PollCheck` step could
    take `elapsed` past `Limit`.
  * `StepRefines` has one case per action. Each case names the abstract step it
    maps to.
* **`ExitCodeCorrect`: `Spec => []ExitCodeReflectsResults`**, in
  `SerialSuite_proofs`. It holds for every set of specs, tagging and timeout, under `Specs # {}`
  (the binary imports `test/e2e`, which registers the TLS test).
  * The inductive invariant `IInv` says:
    * the phases come in order;
    * the specs are registered from the build on;
    * the runner selects exactly `SerialSuiteSpecs`;
    * only selected specs get results;
    * at most one spec runs;
    * an exited run-suite either died in the spec build or summed the results of
      every selected spec.
  * The lemma `QualifierMatchesReference` shows that the CEL qualifier selects
    the reference set.

* **`RestoreOrReport`: `Spec => []RestoredOrReported`**, in
  `RestoredOrReported_proofs`. It has two hypotheses, and each is needed:
  * `BodyBudget < TestTimeout`: the progressing, reconcile and verify deadlines
    add up to less than the suite's TestTimeout. This is 5+15+2 = 22 < 30
    minutes in the source.
  * `~AmbiguousWrites`: a write that reports an error was not applied. The
    `ambiguous_update` run shows the property fails without it.

  The inductive invariant `RestoreInv` is `PollInv /\ TimingInv /\ ProfileInv`.
  * `TimingInv`: time passes only in poll sessions, and each session ends by its
    deadline. So the clock is 0 before the write, each body session starts
    within the sum of the deadlines before it, and the restore
    (`cleanupGet`/`cleanupUpdate`) is reached by `BodyBudget`. The lemma
    `NotYetRestored` turns this into "the harness cannot fire before the
    restore".
  * `ProfileInv`:
    * the profile is untouched before the write;
    * `originalTLSProfile = before` from the Get to the restore;
    * the cleanup is registered during the body's polls;
    * once the restore was tried, the profile is back or `cleanupErr` is set.
  * `AfterPollRestore` handles the end of every session, for both `PollCheck`
    and `PollTimeout`.

  `RestoreInv` was model-checked on the `budget` and `short` instances before
  it was proved. The `budget_overrun` finding is the other side of the first
  hypothesis: the cleanup's own polls do not fit in the budget, so the harness
  can cut them off. The restore itself, however, always runs.
* **`SuiteTypeCorrect`: `Spec => []TypeOK`** for `SerialSuite`, from `IInv`.

Only model-checked:
* the liveness properties `TestTerminates` and `EveryInvocationExits`, and the
  fairness part of `PollSessionRefined`. These involve fairness and ENABLED,
  which are beyond TLAPS.
* `RestoredOrReported` when a hypothesis fails. Then it does not hold, as the
  `ambiguous_update` run shows for writes that fail but are applied.

## Not modelled

* `TestE2E`/`TestMain`: these are pure wiring.
* The cobra and OTE internals (flag parsing, output formats). Only what
  `SerialSuite` needs of the runner is modelled, from the spec.
* Log messages and JSON parsing. Parsing is abstracted to the record of keys
  the checks read. A malformed `observedConfig` is treated like a missing key,
  as the code does.
* The operator's internals, which are not in this repository.

## Plan for further work

* A composition of `SerialSuite` with `TLSProfileTest`, running this test as
  the suite's spec.
* A composition of the serial suite with a second writer of the APIServer, to
  check the restore against concurrent changes.
* A property relating the serial suite's isolation to the cluster state the
  TLS test leaves behind. Such a property would need the composition above.
