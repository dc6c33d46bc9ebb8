---------------------------- MODULE TraceStatus ----------------------------
(***************************************************************************)
(* What every part of the supervisor may assume of the status of a trace,  *)
(* whoever writes the row: the telemetry proxy, the disconnect detection,  *)
(* the stale sweep, the provision of an engine, or a purge.                *)
(*                                                                         *)
(* A trace that is known is running until it gets a verdict.  The verdict  *)
(* of the client's own telemetry ("success", "failed") is final up to a    *)
(* later one of the same kind; the supervisor's guess that the client was  *)
(* lost ("lost": status failed with a reason) is made of a running trace   *)
(* only, and gives way to telemetry.  Nothing makes a trace run again; it  *)
(* can only be purged.                                                     *)
(***************************************************************************)
CONSTANT Traces

VARIABLE verdict

Verdicts == {"absent", "running", "lost", "success", "failed"}

Init == verdict = [t \in Traces |-> "absent"]

Begin(t) ==
    /\ verdict[t] = "absent"
    /\ verdict' = [verdict EXCEPT ![t] = "running"]

Report(t, v) ==
    /\ v \in {"success", "failed"}
    /\ verdict' = [verdict EXCEPT ![t] = v]

GiveUp(t) ==
    /\ verdict[t] = "running"
    /\ verdict' = [verdict EXCEPT ![t] = "lost"]

Purge(t) == verdict' = [verdict EXCEPT ![t] = "absent"]

Next == \E t \in Traces : Begin(t) \/ GiveUp(t) \/ Purge(t) \/ \E v \in Verdicts : Report(t, v)

Spec == Init /\ [][Next]_verdict
=============================================================================
