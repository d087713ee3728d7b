--------------------------- MODULE MCFieldCommands ---------------------------
\* Small instances of FieldCommands for TLC.
EXTENDS FieldCommands, TLC

\* All events warn of the same thing.
OneKind == [e \in Event |-> "kind"]

\* Events, languages and the API's requests are interchangeable.
Symmetry == Permutations(Event) \cup Permutations(Language) \cup Permutations(Request)
\* Bound: the agent is checked with commands of an administrator alone, the queue
\* with events and broadcast requests while no answer to a claim arrives.
NoEvents == /\ open = Event /\ \A e \in Event : output[e] = None
            /\ \A r \in Request : askEvent[r] = None
NobodyHears == nCommands <= 2 /\ overdue = {} /\ crashes = 0 /\ \A n \in Node : jstat[n] = "none"
\* Bound: an agent is killed twice with two commands at most, and once with three.
FewCrashes == nCommands > 2 => crashes <= 1
Bounded == (NoEvents \/ NobodyHears) /\ FewCrashes
=============================================================================
