---------------------------- MODULE LeaseRecord ----------------------------
(***************************************************************************)
(* What the queue promises its callers (the module comment of v3/queue.py  *)
(* and interfaces.py's GitHubWorkflowStateStore): the issue's state is one *)
(* record that every host reads and replaces atomically.  It is created    *)
(* once, written by the owner of its claim, taken over only after the      *)
(* lease ran out or after it was requeued, and final once terminal.        *)
(***************************************************************************)
EXTENDS Naturals

CONSTANTS Hosts, None, Lease

VARIABLES record, clock

Terminal == {"done", "failed", "escalated", "cancelled"}
Expired(r) == r.owner = None \/ clock > r.expires
NewVersion(r, s) == s.stamp > r.stamp

Init == record = None /\ clock = 0

\* The first state: a claim of some host, or a rejection.
Create ==
  /\ record = None /\ record' # None
  /\ \/ record'.owner \in Hosts /\ record'.phase = "claiming"
     \/ record'.owner = None /\ record'.phase = "escalated"

\* The owner writes under the claim it has: heartbeat, progress, any phase.
OwnWrite ==
  /\ record # None /\ record.phase \notin Terminal
  /\ record' # None /\ NewVersion(record, record')
  /\ record'.owner = record.owner /\ record'.claimed = record.claimed

\* The owner gives the item back, with every lane stopped.
Drain ==
  /\ record # None /\ record.phase \notin Terminal /\ record.lanes = "stopped"
  /\ record' = [record EXCEPT !.stamp = record'.stamp, !.phase = "queued",
                              !.owner = None, !.claimed = 0, !.expires = 0]
  /\ NewVersion(record, record')

\* A new claim: on a requeued item, or on an expired one in the phase and
\* with the progress it had.
TakeOver ==
  /\ record # None
  /\ \/ record.phase = "queued" /\ record'.phase = "claiming"
     \/ /\ record.phase \notin Terminal /\ Expired(record)
        /\ record'.phase = record.phase
  /\ NewVersion(record, record')
  /\ record'.owner \in Hosts /\ record'.claimed = record'.stamp
  /\ record'.lanes = record.lanes

Write == (Create \/ OwnWrite \/ Drain \/ TakeOver) /\ clock' = clock
Tick == clock' = clock + 1 /\ record' = record

Spec == Init /\ [][Write \/ Tick]_<<record, clock>>
=============================================================================
