-------------------------- MODULE MCMediaProcessing --------------------------
\* Small instances of MediaProcessing for TLC.
EXTENDS MediaProcessing, TLC

CONSTANTS e1, m1, n1, n2

\* All media belong to one event.
OneEvent == [m \in Media |-> e1]

\* Leaves the maintenance pass and source expiry out of a run about workers.
NoMaintenance == mpc = "txn" /\ expired = {}

\* Bound: the second node has jobs only without crashes, maintenance and deletions.
Second == wphase[n2] # "idle" \/ \E j \in Job : jobNode[j] = n2
Bounded == Second => NoMaintenance /\ crashes = 0 /\ deleteDecided = {}

=============================================================================
