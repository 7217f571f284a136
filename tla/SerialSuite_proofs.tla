--------------------------- MODULE SerialSuite_proofs ---------------------------
(***************************************************************************)
(* Proofs about the extension binary and its serial suite, for every set  *)
(* of specs, every tagging of their names and every timeout.               *)
(***************************************************************************)
EXTENDS SerialSuite, FiniteSetTheorems, TLAPS

(* The inductive invariant behind ExitCodeReflectsResults.  The process   *)
(* passes its phases in order, the specs are registered from the build on, *)
(* the runner selects exactly the suite's specs, only selected specs get a *)
(* result, and a process that exited after run-suite either died in the    *)
(* spec build or saw every selected spec finish and summed their results.  *)
IInv ==
    /\ TypeOK
    /\ running = {} \/ \E s \in Specs : running = {s}
    /\ phase = "main" => registered = {}
    /\ phase \in {"registered", "command", "running"} => registered = Specs
    /\ phase \in {"main", "registered", "command"} =>
          /\ selected = {}
          /\ exitCode = None
    /\ phase = "running" =>
          /\ invocation = "run-suite"
          /\ exitCode = None
          /\ selected = SerialSuiteSpecs
    /\ phase \in {"main", "registered", "command", "exited"} => running = {}
    /\ \A s \in Specs : result[s] # "none" => s \in selected
    /\ (phase = "exited" /\ invocation = "run-suite") =>
          \/ exitCode = FatalExit /\ registered = {}
          \/ /\ registered = Specs
             /\ selected = SerialSuiteSpecs
             /\ \A s \in selected : result[s] # "none"
             /\ exitCode = IF \A s \in selected : result[s] = "passed" THEN 0 ELSE 1

(* The suite's CEL qualifier selects exactly the specs the reference      *)
(* definition names, whatever the tags of the specs.                        *)
LEMMA QualifierMatchesReference == {s \in Specs : Qualifies(s)} = SerialSuiteSpecs
  BY DEF Qualifies, SerialSuiteSpecs

LEMMA InitIInv == Init => IInv
<1> SUFFICES ASSUME Init PROVE IInv
  OBVIOUS
<1>1. /\ invocation \in Invocations
      /\ phase = "main"
      /\ registered = {} /\ selected = {} /\ running = {}
      /\ result = [s \in Specs |-> "none"]
      /\ elapsed = [s \in Specs |-> 0]
      /\ exitCode = None
  BY Zenon DEF Init
<1>2. TypeOK
  BY <1>1, SuiteTimeoutAssumption DEF TypeOK, Results, None, FatalExit
<1>3. QED
  BY <1>1, <1>2 DEF IInv

(* Every step keeps the invariant.                                         *)
LEMMA NextIInv == IInv /\ [Next]_vars => IInv'
<1> SUFFICES ASSUME IInv, [Next]_vars PROVE IInv'
  OBVIOUS
<1>0. TypeOK
  BY DEF IInv
<1>1. CASE PrepareOperatorTestsRegistry
  BY <1>0, <1>1 DEF PrepareOperatorTestsRegistry, IInv, TypeOK, None, FatalExit
<1>2. CASE NewOperatorTestCommand
  BY <1>0, <1>2 DEF NewOperatorTestCommand, IInv, TypeOK
<1>3. CASE RunRoot
  BY <1>0, <1>3 DEF RunRoot, ExitWith, IInv, TypeOK, None, FatalExit
<1>4. CASE RunListing
  BY <1>0, <1>4 DEF RunListing, ExitWith, IInv, TypeOK, None, FatalExit
<1>5. CASE RunSuite
  <2>1. selected' = SerialSuiteSpecs
    BY <1>5, QualifierMatchesReference DEF RunSuite, IInv
  <2>2. QED
    BY <1>0, <1>5, <2>1 DEF RunSuite, IInv, TypeOK, SerialSuiteSpecs
<1>6. ASSUME NEW s \in Specs, StartSpec(s) PROVE IInv'
  <2>1. running = {}
    <3>1. SUFFICES ASSUME NEW x \in Specs, running = {x} PROVE FALSE
      BY DEF IInv
    <3>2. Cardinality(running) = 1
      BY <3>1, FS_Singleton
    <3>3. QED
      BY <1>6, <3>2 DEF StartSpec, Parallelism
  <2>2. QED
    BY <1>0, <1>6, <2>1, SuiteTimeoutAssumption DEF StartSpec, IInv, TypeOK, Results
<1>7. ASSUME NEW s \in Specs, SpecEnds(s) PROVE IInv'
  BY <1>0, <1>7 DEF SpecEnds, IInv, TypeOK, Results
<1>8. CASE Tick
  BY <1>0, <1>8, SuiteTimeoutAssumption DEF Tick, IInv, TypeOK, Results
<1>9. ASSUME NEW s \in Specs, TimeOutSpec(s) PROVE IInv'
  BY <1>0, <1>9 DEF TimeOutSpec, IInv, TypeOK, Results
<1>10. CASE SuiteDone
  BY <1>0, <1>10 DEF SuiteDone, ExitWith, IInv, TypeOK, None, FatalExit
<1>11. CASE UNCHANGED vars
  BY <1>11 DEF vars, IInv, TypeOK, SerialSuiteSpecs
<1>12. QED
  BY <1>1, <1>2, <1>3, <1>4, <1>5, <1>6, <1>7, <1>8, <1>9, <1>10, <1>11
  DEF Next, Process, Runner

(* For every set of specs and every tagging of their names, the binary     *)
(* invoked as run-suite exits 0 exactly when the spec build succeeded and  *)
(* every spec the serial suite is meant to hold ran and passed.            *)
THEOREM ExitCodeCorrect == Spec => []ExitCodeReflectsResults
<1>1. IInv => ExitCodeReflectsResults
  BY SpecsAssumption DEF IInv, ExitCodeReflectsResults, FatalExit
<1>2. QED
  BY <1>1, InitIInv, NextIInv, PTL DEF Spec

(* For every value of the constants the binary's and the runner's state   *)
(* keep their types: the clock of a running spec never passes the suite's *)
(* TestTimeout and the exit status is one main, cli.Run or klog can give.  *)
THEOREM SuiteTypeCorrect == Spec => []TypeOK
<1>1. IInv => TypeOK
  BY DEF IInv
<1>2. QED
  BY <1>1, InitIInv, NextIInv, PTL DEF Spec

=============================================================================
