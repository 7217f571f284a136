----------------------------- MODULE SerialSuite -----------------------------
(***************************************************************************)
(* The OTE test extension binary (cmd/...-tests-ext/main.go) from main()   *)
(* to os.Exit: it builds the spec registry (exiting through klog.Fatalf if *)
(* the Ginkgo specs cannot be built), builds the cobra command, and runs   *)
(* the subcommand it was invoked with.  For run-suite on the serial suite  *)
(* the OTE runner selects the specs the suite's qualifier accepts, runs at *)
(* most Parallelism of them at a time, fails one that outlives TestTimeout *)
(* and exits 1 if any spec did not pass.  The cobra and OTE code are not   *)
(* in this repository; their part is modelled from the spec.               *)
(***************************************************************************)
EXTENDS Integers, FiniteSets

CONSTANTS
    Specs,           \* the specs BuildExtensionTestSpecsFromOpenShiftGinkgoSuite yields
    Tags,            \* Tags[s]: the bracketed tags in the name of spec s
    VersionStrings,  \* values version.Get().String() may have, "" included
    Invocations,     \* the subcommands the binary may be invoked with
    SuiteTimeout     \* testTimeout (30 minutes) in ticks of the runner's clock

ASSUME SuiteTimeoutAssumption == SuiteTimeout \in Nat \ {0}

(* The binary imports test/e2e, whose init registers this repository's     *)
(* TLS test with Ginkgo, so the suite build yields at least one spec.       *)
ASSUME SpecsAssumption == Specs # {}

VARIABLES
    invocation,  \* the subcommand on the command line
    phase,       \* where the process is: main, registered, command, running, exited
    registered,  \* the specs the extension holds (extension.AddSpecs)
    version,     \* cmd.Version
    selected,    \* the specs of the serial suite the runner will run
    running,     \* the specs running now
    result,      \* result[s]: none, passed, failed or timedout
    elapsed,     \* elapsed[s]: how long running spec s has run
    exitCode     \* the status passed to os.Exit, or None

vars == <<invocation, phase, registered, version, selected, running, result,
          elapsed, exitCode>>

None == -1
Results == {"none", "passed", "failed", "timedout"}

(* klog.Fatal and klog.Fatalf end the process with status 255.              *)
FatalExit == 255

(* serialSuite.Qualifiers: the CEL expression on the test name.            *)
Qualifies(s) ==
    /\ "[Serial]" \in Tags[s]
    /\ \/ "[Operator]" \in Tags[s]
       \/ "[TLS]" \in Tags[s]
       \/ "[Build]" \in Tags[s]
       \/ "[Image]" \in Tags[s]

(* serialSuite.Parallelism.                                                *)
Parallelism == 1

(* cmd.Version: the build's version string, or "<unknown>" when it is empty.*)
VersionOf(v) == IF v = "" THEN "<unknown>" ELSE v

(* main: cli.Run returns the command's status and main exits with it.    *)
ExitWith(code) ==
    /\ exitCode' = code
    /\ phase' = "exited"

Init ==
    /\ invocation \in Invocations
    /\ phase = "main"
    /\ registered = {}
    /\ version = ""
    /\ selected = {}
    /\ running = {}
    /\ result = [s \in Specs |-> "none"]
    /\ elapsed = [s \in Specs |-> 0]
    /\ exitCode = None

(* Mutant: the error of BuildExtensionTestSpecsFromOpenShiftGinkgoSuite    *)
(* not checked, so the extension goes on with no specs.                     *)
PrepareOperatorTestsRegistryNoCheck ==
    /\ phase = "main"
    /\ \E ok \in BOOLEAN :
          /\ registered' = IF ok THEN Specs ELSE {}
          /\ phase' = "registered"
    /\ UNCHANGED <<invocation, version, selected, running, result, elapsed, exitCode>>

(* prepareOperatorTestsRegistry: build the specs from the Ginkgo suite     *)
(* (klog.Fatalf on an error), add the serial suite and the specs to the    *)
(* extension and register it.                                              *)
PrepareOperatorTestsRegistry ==
    /\ phase = "main"
    /\ \/ /\ registered' = Specs
          /\ phase' = "registered"
          /\ UNCHANGED exitCode
       \/ /\ phase' = "exited"
          /\ exitCode' = FatalExit
          /\ UNCHANGED registered
    /\ UNCHANGED <<invocation, version, selected, running, result, elapsed>>

(* The rest of newOperatorTestCommand: the root command, its version and   *)
(* the default OTE subcommands over the registry.                          *)
NewOperatorTestCommand ==
    /\ phase = "registered"
    /\ \E v \in VersionStrings : version' = VersionOf(v)
    /\ phase' = "command"
    /\ UNCHANGED <<invocation, registered, selected, running, result, elapsed, exitCode>>

(* cli.Run with no subcommand runs the root's Run: it prints the help and  *)
(* exits through klog.Fatal if that fails; main then calls os.Exit(code).  *)
RunRoot ==
    /\ phase = "command"
    /\ invocation = "root"
    /\ \E helpOk \in BOOLEAN : ExitWith(IF helpOk THEN 0 ELSE FatalExit)
    /\ UNCHANGED <<invocation, registered, version, selected, running, result, elapsed>>

(* list, info and the other OTE subcommands only print the registry.        *)
RunListing ==
    /\ phase = "command"
    /\ invocation = "list"
    /\ ExitWith(0)
    /\ UNCHANGED <<invocation, registered, version, selected, running, result, elapsed>>

(* run-suite on the serial suite: the runner selects the registered specs  *)
(* whose names satisfy the suite's qualifier.                              *)
RunSuite ==
    /\ phase = "command"
    /\ invocation = "run-suite"
    /\ selected' = {s \in registered : Qualifies(s)}
    /\ phase' = "running"
    /\ UNCHANGED <<invocation, registered, version, running, result, elapsed, exitCode>>

(* A worker takes a selected spec that has not run, if fewer than          *)
(* Parallelism specs are running.                                          *)
StartSpec(s) ==
    /\ phase = "running"
    /\ s \in selected \ running
    /\ result[s] = "none"
    /\ Cardinality(running) < Parallelism
    /\ running' = running \cup {s}
    /\ elapsed' = [elapsed EXCEPT ![s] = 0]
    /\ UNCHANGED <<invocation, phase, registered, version, selected, result, exitCode>>

(* A running spec returns, passed or failed; a spec may also never return. *)
SpecEnds(s) ==
    /\ s \in running
    /\ \E r \in {"passed", "failed"} : result' = [result EXCEPT ![s] = r]
    /\ running' = running \ {s}
    /\ UNCHANGED <<invocation, phase, registered, version, selected, elapsed, exitCode>>

(* Mutant: the clock of a spec advanced past the timeout.                   *)
TickUncapped ==
    /\ running # {}
    /\ elapsed' = [s \in Specs |-> IF s \in running THEN elapsed[s] + 1 ELSE elapsed[s]]
    /\ UNCHANGED <<invocation, phase, registered, version, selected, running, result, exitCode>>

(* The runner's clock advances while specs run, up to the timeout.         *)
Tick ==
    /\ running # {}
    /\ \A s \in running : elapsed[s] < SuiteTimeout
    /\ elapsed' = [s \in Specs |-> IF s \in running THEN elapsed[s] + 1 ELSE elapsed[s]]
    /\ UNCHANGED <<invocation, phase, registered, version, selected, running, result, exitCode>>

(* Mutant: TestTimeout not set on the suite, so no spec is ever timed out. *)
TimeOutSpecNever(s) ==
    /\ s \in running
    /\ elapsed[s] > SuiteTimeout
    /\ result' = [result EXCEPT ![s] = "timedout"]
    /\ running' = running \ {s}
    /\ UNCHANGED <<invocation, phase, registered, version, selected, elapsed, exitCode>>

(* A spec that has run for TestTimeout is ended and counted as failed.     *)
TimeOutSpec(s) ==
    /\ s \in running
    /\ elapsed[s] >= SuiteTimeout
    /\ result' = [result EXCEPT ![s] = "timedout"]
    /\ running' = running \ {s}
    /\ UNCHANGED <<invocation, phase, registered, version, selected, elapsed, exitCode>>

(* When every selected spec has a result, run-suite returns an error if   *)
(* one did not pass; cli.Run turns it into status 1 and main exits.        *)
SuiteDone ==
    /\ phase = "running"
    /\ running = {}
    /\ \A s \in selected : result[s] # "none"
    /\ ExitWith(IF \A s \in selected : result[s] = "passed" THEN 0 ELSE 1)
    /\ UNCHANGED <<invocation, registered, version, selected, running, result, elapsed>>

Process ==
    \/ PrepareOperatorTestsRegistry
    \/ NewOperatorTestCommand
    \/ RunRoot
    \/ RunListing
    \/ RunSuite

Runner ==
    \/ \E s \in Specs : StartSpec(s)
    \/ Tick
    \/ \E s \in Specs : TimeOutSpec(s)
    \/ SuiteDone

Next ==
    \/ Process
    \/ Runner
    \/ \E s \in Specs : SpecEnds(s)

(* The binary and the runner keep going while they can; time passes; a    *)
(* spec itself may hang, so SpecEnds has no fairness.                      *)
Spec ==
    /\ Init /\ [][Next]_vars
    /\ WF_vars(Process)
    /\ WF_vars(\E s \in Specs : StartSpec(s))
    /\ WF_vars(Tick)
    /\ WF_vars(\E s \in Specs : TimeOutSpec(s))
    /\ WF_vars(SuiteDone)

-----------------------------------------------------------------------------
(***************************************************************************)
(* Properties                                                              *)
(***************************************************************************)

(* The specs the serial suite is meant to hold, as the spec states it: the *)
(* [Serial] specs that carry one of the component tags.                    *)
SerialSuiteSpecs ==
    {s \in Specs : "[Serial]" \in Tags[s]}
        \cap UNION {{s \in Specs : t \in Tags[s]} : t \in {"[Operator]", "[TLS]", "[Build]", "[Image]"}}

TypeOK ==
    /\ invocation \in Invocations
    /\ phase \in {"main", "registered", "command", "running", "exited"}
    /\ registered \subseteq Specs
    /\ selected \subseteq registered
    /\ running \subseteq selected
    /\ result \in [Specs -> Results]
    /\ elapsed \in [Specs -> 0..SuiteTimeout]
    /\ exitCode \in {None, 0, 1, FatalExit}

(* When the binary was asked to run the serial suite, it exits 0 exactly   *)
(* when the specs were built and every spec of the suite ran and passed: a *)
(* failed spec build, a spec the qualifier drops or adds, a timeout or a   *)
(* failure all show in the exit status.                                    *)
ExitCodeReflectsResults ==
    (invocation = "run-suite" /\ phase = "exited")
        => (exitCode = 0 <=> /\ registered = Specs
                             /\ \A s \in SerialSuiteSpecs : result[s] = "passed")

(* Every invocation ends with a call of os.Exit, even when a spec hangs.   *)
EveryInvocationExits == <>(phase = "exited")
=============================================================================
