----------------------------- MODULE RunContract -----------------------------
(***************************************************************************)
(* What the foreman promises about one work item (V3_ARCHITECTURE.md and   *)
(* the phases of v3/domain.py), whatever dies in between: the order of the *)
(* phases, budgets that only shrink, rounds taken one after the other,     *)
(* heads cleared by a review before they are published, done only after    *)
(* the gate or for a reviewed no-change, and a decision that stands until  *)
(* an operator requeues it.                                                *)
(***************************************************************************)
EXTENDS Naturals

CONSTANTS MaxCoder, MaxRounds, Heads

VARIABLES phase, usage, round, cleared, published

vars == <<phase, usage, round, cleared, published>>

Terminal == {"done", "failed", "escalated", "cancelled"}
Active == {"claiming", "coding", "reviewing", "ci_gating", "updating_pr"}

Init ==
  /\ phase = "none" /\ usage = 0 /\ round = 0
  /\ cleared = {} /\ published = {}

Move(from, to) == phase \in from /\ phase' = to

\* An untrusted issue is rejected; any other one is claimed.
Reject == Move({"none"}, "escalated") /\ UNCHANGED <<usage, round, cleared, published>>
Claim == Move({"none", "queued"}, "claiming") /\ UNCHANGED <<usage, round, cleared, published>>

BeginCoding ==
  /\ Move({"claiming", "coding", "reviewing", "ci_gating"}, "coding")
  /\ UNCHANGED <<usage, round, cleared, published>>

\* One coder invocation out of the budget.
SpendCoder ==
  /\ phase = "coding" /\ usage < MaxCoder /\ usage' = usage + 1
  /\ UNCHANGED <<phase, round, cleared, published>>

BeginRound ==
  /\ Move({"claiming", "coding"}, "reviewing")
  /\ round < MaxRounds /\ round' = round + 1
  /\ UNCHANGED <<usage, cleared, published>>

Clear ==
  /\ phase = "reviewing"
  /\ \E h \in Heads : cleared' = cleared \cup {h}
  /\ UNCHANGED <<phase, usage, round, published>>

\* The gate: after a review, or again after waiting or an interruption.
BeginGate ==
  /\ Move({"claiming", "reviewing", "ci_gating", "updating_pr"}, "ci_gating")
  /\ UNCHANGED <<usage, round, cleared, published>>

Publish ==
  /\ phase = "ci_gating"
  /\ \E h \in cleared : published' = published \cup {h}
  /\ UNCHANGED <<phase, usage, round, cleared>>

PassGate == Move({"ci_gating"}, "updating_pr") /\ UNCHANGED <<usage, round, cleared, published>>

\* Done by the gate, or without a change by the review.
Finish ==
  /\ \/ Move({"updating_pr", "reviewing"}, "done") /\ cleared # {}
     \/ Move({"coding"}, "failed")
     \/ \E verdict \in {"escalated", "cancelled"} : Move(Active \cup {"queued"}, verdict)
  /\ UNCHANGED <<usage, round, cleared, published>>

\* Pending checks wait in the queue; an operator returns an escalated item.
Requeue ==
  /\ Move({"ci_gating", "escalated"}, "queued")
  /\ UNCHANGED <<usage, round, cleared, published>>

Next ==
  \/ Reject \/ Claim \/ BeginCoding \/ SpendCoder \/ BeginRound \/ Clear \/ BeginGate
  \/ Publish \/ PassGate \/ Finish \/ Requeue

Spec == Init /\ [][Next]_vars
=============================================================================
