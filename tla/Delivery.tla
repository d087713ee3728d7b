------------------------------ MODULE Delivery ------------------------------
(***************************************************************************)
(* What a queue of commands promises its user: a command submitted waits   *)
(* until it is either dropped or given to its executor, and is executed    *)
(* once at most, after it was given.  A command that is given may never be *)
(* executed; one that is dropped never is.                                 *)
(***************************************************************************)
CONSTANT Command
VARIABLE stage

In(s) == {c \in Command : stage[c] = s}

Init == stage = [c \in Command |-> "new"]

Submit == \E c \in In("new") : stage' = [stage EXCEPT ![c] = "waiting"]

\* Many commands may be dropped in one step, and one of the others is given.
Serve ==
  \E dropped, given \in SUBSET In("waiting") :
    /\ dropped \cap given = {}
    /\ \A c, d \in given : c = d
    /\ stage' = [c \in Command |-> IF c \in dropped THEN "dropped"
                                   ELSE IF c \in given THEN "given" ELSE stage[c]]

Execute == \E c \in In("given") : stage' = [stage EXCEPT ![c] = "executed"]

Next == Submit \/ Serve \/ Execute

Spec == Init /\ [][Next]_stage
=============================================================================
