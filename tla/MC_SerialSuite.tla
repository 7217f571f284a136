---------------------------- MODULE MC_SerialSuite ----------------------------
(* Constants for model checking SerialSuite: four specs whose names carry  *)
(* the tag mixes the qualifier tells apart (this repository's TLS test, a  *)
(* second serial component test, a serial test of no listed component and  *)
(* a parallel TLS test), an empty and a set version string, and every      *)
(* kind of invocation.                                                     *)
EXTENDS SerialSuite

MCSpecs == {"tlsSerial", "buildSerial", "sigSerial", "tlsParallel"}

MCTags ==
    [s \in MCSpecs |->
        CASE s = "tlsSerial"   -> {"[Operator]", "[TLS]", "[Serial]"}
          [] s = "buildSerial" -> {"[Build]", "[Serial]"}
          [] s = "sigSerial"   -> {"[Serial]"}
          [] s = "tlsParallel" -> {"[Operator]", "[TLS]"}]

MCVersionStrings == {"", "v4.18.0"}

MCInvocations == {"root", "list", "run-suite"}
=============================================================================
