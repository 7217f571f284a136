----------------------------- MODULE PollSession -----------------------------
(***************************************************************************)
(* What a caller of wait.PollUntilContextTimeout(ctx, interval, timeout,   *)
(* true, condition) is promised, one session after another: a session      *)
(* waits without ever passing its deadline, ends converged only when its   *)
(* condition holds, ends timed out only at its deadline, and always ends.  *)
(* Ticks, intervals and failed fetches are below this level of detail: a  *)
(* check that fails is only time passing.                                  *)
(***************************************************************************)
EXTENDS Naturals

CONSTANTS
    Sessions,  \* the poll sessions the caller runs
    Limit      \* Limit[s]: the timeout of session s, a positive number

(* No session is running: the caller is between two sessions.             *)
Idle == "idle"

VARIABLES
    session,    \* the session in progress, or Idle
    elapsed,    \* time since the session started
    converged   \* the session's condition holds on the observed state

avars == <<session, elapsed, converged>>

Init ==
    /\ session = Idle
    /\ elapsed = 0
    /\ converged \in BOOLEAN

(* The caller starts a session.                                            *)
Start ==
    /\ session = Idle
    /\ session' \in Sessions
    /\ elapsed' = 0
    /\ converged' \in BOOLEAN

(* Time passes in a session, never beyond its deadline.                    *)
Wait ==
    /\ session \in Sessions
    /\ elapsed < Limit[session]
    /\ elapsed' \in elapsed + 1 .. Limit[session]
    /\ UNCHANGED <<session, converged>>

(* The session returns because its condition held; the caller may go      *)
(* straight on to its next session.                                        *)
Finish ==
    /\ session \in Sessions
    /\ converged
    /\ session' \in Sessions \cup {Idle}
    /\ elapsed' = 0
    /\ converged' \in BOOLEAN

(* The session returns its deadline error.                                 *)
TimeOut ==
    /\ session \in Sessions
    /\ elapsed = Limit[session]
    /\ session' \in Sessions \cup {Idle}
    /\ elapsed' = 0
    /\ converged' \in BOOLEAN

(* The observed system changes, so the condition may change.               *)
Observe ==
    /\ converged' \in BOOLEAN
    /\ UNCHANGED <<session, elapsed>>

(* The caller is ended from outside in the middle of a session.            *)
Abandon ==
    /\ session \in Sessions
    /\ session' = Idle
    /\ elapsed' = 0
    /\ converged' \in BOOLEAN

Next == Start \/ Wait \/ Finish \/ TimeOut \/ Observe \/ Abandon

(* A running session keeps making progress until it returns.               *)
Spec == Init /\ [][Next]_avars /\ WF_avars(Wait \/ Finish \/ TimeOut)

(* The safety part of Spec.                                                *)
SafeSpec == Init /\ [][Next]_avars
=============================================================================
