---- MODULE InferencePriority ----
(***************************************************************************)
(* Detection before redaction: the programs that watch the cameras put a   *)
(* busy signal at the server, each for its own session, refresh it between *)
(* frames and take it back; the processing workers ask for the signal      *)
(* before they claim a job and before every use of the GPU                 *)
(* (inference_worker/inference_load.py and run_server.py,                  *)
(* backend/processing/routes.py, priority.py, worker.py, ai_worker.py).    *)
(*                                                                         *)
(* A signal is a lease: it lapses Ttl ticks after the server stored it.  A *)
(* tick is long against a worker's frame and the 0.25 s for which it       *)
(* trusts an answer.  A session is used once; a restarted program has      *)
(* another one.  Names that WorkerLeases uses too begin with load or Load. *)
(***************************************************************************)
EXTENDS Naturals, FiniteSets

CONSTANTS Sessions,   \* executions of the inference program
          Nodes,      \* processing nodes
          NodeOf,     \* the node a session signs in as
          Workers,    \* processing workers
          Capacity,   \* sessions of a node with a signal (32 in the code)
          Ttl,        \* ticks a signal lasts (30 s)
          Refresh,    \* ticks after which it is refreshed (10 s)
          Latency,    \* bound: ticks an answer takes
          Detect      \* bound: ticks one detection takes

\* One detection fits between the refresh and the end of the signal.
ASSUME LoadAssumption ==
    /\ IsFiniteSet(Sessions) /\ NodeOf \in [Sessions -> Nodes]
    /\ Capacity \in Nat \ {0}
    /\ Ttl \in Nat /\ Refresh \in Nat \ {0} /\ Latency \in Nat /\ Detect \in Nat
    /\ Latency + Refresh + Detect < Ttl

VARIABLES
    lease,    \* processing_inference_session: ticks a signal still counts
    entitled, \* processing_worker.enabled of each node
    at,       \* what a program is doing
    told,     \* the server has handled its request
    active,   \* InferenceLoad.active
    due,      \* ticks until InferenceLoad.next_refresh
    spent,    \* ticks the answer or the detection has taken
    late,     \* a request the program has given up, still on its way
    overtaken, \* such a request was the last the server handled for a session
    gpu,      \* what a worker is doing
    trusts,   \* it has asked for the signal in this tick
    steady    \* some signal has counted since before this tick

program == <<at, told, active, due, spent>>
signals == <<lease, late, overtaken>>
loadVars == <<signals, entitled, program, gpu, trusts, steady>>

Requests == {"refresh", "release", "retry", "close"}

\* Type correctness; a node never has more signals than its capacity.
LoadTypeOK ==
    /\ lease \in [Sessions -> 0..Ttl] /\ entitled \in [Nodes -> BOOLEAN]
    /\ at \in [Sessions -> Requests \cup {"free", "detect", "failed", "ended"}]
    /\ told \in [Sessions -> BOOLEAN] /\ active \in [Sessions -> BOOLEAN]
    /\ due \in [Sessions -> 0..Refresh]
    /\ spent \in [Sessions -> 0..(Latency + Detect)]
    /\ late \in [Sessions -> {"none", "refresh", "release"}] /\ overtaken \in [Sessions -> BOOLEAN]
    /\ gpu \in [Workers -> {"idle", "look", "clear", "gpu"}]
    /\ trusts \in [Workers -> BOOLEAN] /\ steady \in BOOLEAN
    /\ \A n \in Nodes : Cardinality({s \in Sessions : NodeOf[s] = n /\ lease[s] > 0}) <= Capacity

LoadInit ==
    /\ lease = [s \in Sessions |-> 0]
    /\ entitled = [n \in Nodes |-> TRUE]
    /\ at = [s \in Sessions |-> "free"]
    /\ told = [s \in Sessions |-> FALSE]
    /\ active = [s \in Sessions |-> FALSE]
    /\ due = [s \in Sessions |-> 0]
    /\ spent = [s \in Sessions |-> 0]
    /\ late = [s \in Sessions |-> "none"]
    /\ overtaken = [s \in Sessions |-> FALSE]
    /\ gpu = [w \in Workers |-> "idle"]
    /\ trusts = [w \in Workers |-> FALSE]
    /\ steady = FALSE

\* Signals of nodes that may no longer process are not counted.
BusyWith(leases) == \E s \in Sessions : leases[s] > 0 /\ entitled[NodeOf[s]]
Busy == BusyWith(lease)

\* The program goes on to `step`; its request, if that is one, is on its way.
Goes(s, step) ==
    /\ at' = [at EXCEPT ![s] = step]
    /\ told' = [told EXCEPT ![s] = FALSE]
    /\ spent' = [spent EXCEPT ![s] = 0]

(***************************************************************************)
(* The program that watches a camera.                                      *)
(***************************************************************************)
\* It is marked first: a lost answer may still have set the signal.
Marked(s) == [active EXCEPT ![s] = TRUE]

\* Before the detection the signal is refreshed, at most every Refresh ticks.
Frame(s) ==
    /\ at[s] = "free"
    /\ IF due[s] = 0
         THEN Goes(s, "refresh") /\ active' = Marked(s)
         ELSE Goes(s, "detect") /\ UNCHANGED active
    /\ UNCHANGED <<signals, entitled, due, gpu, trusts, steady>>

Detected(s) ==
    /\ at[s] = "detect"
    /\ Goes(s, "free")
    /\ UNCHANGED <<signals, entitled, active, due, gpu, trusts, steady>>

\* The end of a chunk, a submission, or a chunk that is gone.
Release(s) ==
    /\ at[s] = "free"
    /\ IF active[s] THEN Goes(s, "release") /\ UNCHANGED due
                    ELSE Goes(s, "free") /\ due' = [due EXCEPT ![s] = 0]
    /\ UNCHANGED <<signals, entitled, active, gpu, trusts, steady>>

\* The outer finally: the last release, then the end.
Stop(s) ==
    /\ at[s] \in {"free", "detect"}
    /\ Goes(s, IF active[s] THEN "close" ELSE "ended")
    /\ UNCHANGED <<signals, entitled, active, due, gpu, trusts, steady>>

\* A temporary failure: the observation is reset and the signal released.
RecoverFrame(s) ==
    /\ at[s] = "failed"
    /\ IF active[s] THEN Goes(s, "retry") /\ UNCHANGED due
                    ELSE Goes(s, "free") /\ due' = [due EXCEPT ![s] = 0]
    /\ UNCHANGED <<signals, entitled, active, gpu, trusts, steady>>

\* The acknowledgement arrives.
Acknowledged(s) ==
    /\ at[s] \in Requests /\ told[s]
    /\ IF at[s] = "refresh"
         THEN /\ Goes(s, "detect")
              /\ due' = [due EXCEPT ![s] = Refresh]
              /\ UNCHANGED active
         ELSE /\ Goes(s, IF at[s] = "close" THEN "ended" ELSE "free")
              /\ due' = [due EXCEPT ![s] = 0]
              /\ active' = [active EXCEPT ![s] = FALSE]
    /\ UNCHANGED <<signals, entitled, gpu, trusts, steady>>

\* The next frame asks again, whatever became of the release.
DueNow(s) == [due EXCEPT ![s] = 0]

\* A request that gets no answer may still be on its way (bound: one of them).
Abandons(s) ==
    \/ UNCHANGED late
    \/ ~told[s] /\ late' = [late EXCEPT ![s] = IF at[s] = "refresh" THEN "refresh" ELSE "release"]

\* No answer, or 429, 5xx: a second release that fails is left to the lapse.
Lost(s) ==
    /\ at[s] \in Requests
    /\ Abandons(s)
    /\ CASE at[s] \in {"refresh", "release"} -> Goes(s, "failed") /\ UNCHANGED due
         [] at[s] = "retry" -> Goes(s, "free") /\ due' = DueNow(s)
         [] at[s] = "close" -> Goes(s, "ended") /\ UNCHANGED due
    /\ UNCHANGED <<lease, overtaken, entitled, active, gpu, trusts, steady>>

\* The process is killed.
Crash(s) ==
    /\ at[s] # "ended"
    /\ IF at[s] \in Requests THEN Abandons(s) ELSE UNCHANGED late
    /\ Goes(s, "ended")
    /\ UNCHANGED <<lease, overtaken, entitled, active, due, gpu, trusts, steady>>

(***************************************************************************)
(* The server.                                                             *)
(***************************************************************************)
\* The other sessions of the node fill it; one's own signal can be refreshed.
Full(s) == Cardinality({o \in Sessions \ {s} : NodeOf[o] = NodeOf[s] /\ lease[o] > 0}) >= Capacity

\* Mutant: one signal per node, as before there were sessions.
ClearedByNode(s) == [o \in Sessions |-> IF NodeOf[o] = NodeOf[s] THEN 0 ELSE lease[o]]

Cleared(s) == [lease EXCEPT ![s] = 0]

\* set_inference_load, of a node that may process.
Handle(s) ==
    /\ at[s] \in Requests /\ ~told[s] /\ entitled[NodeOf[s]]
    /\ IF at[s] = "refresh" /\ Full(s)
         THEN Goes(s, "failed") /\ UNCHANGED <<lease, overtaken, steady>>
         ELSE /\ overtaken' = [overtaken EXCEPT ![s] = FALSE]
              /\ lease' = IF at[s] = "refresh" THEN [lease EXCEPT ![s] = Ttl] ELSE Cleared(s)
              /\ told' = [told EXCEPT ![s] = TRUE]
              /\ steady' = (steady /\ BusyWith(lease'))
              /\ UNCHANGED <<at, spent>>
    /\ UNCHANGED <<late, entitled, active, due, gpu, trusts>>

\* The handler still runs for a request the program has given up.
HandleLate(s) ==
    /\ late[s] # "none"
    /\ late' = [late EXCEPT ![s] = "none"]
    /\ IF entitled[NodeOf[s]] /\ ~(late[s] = "refresh" /\ Full(s))
         THEN /\ lease' = IF late[s] = "refresh" THEN [lease EXCEPT ![s] = Ttl] ELSE Cleared(s)
              /\ overtaken' = [overtaken EXCEPT ![s] = TRUE]
              /\ steady' = (steady /\ BusyWith(lease'))
         ELSE UNCHANGED <<lease, overtaken, steady>>
    /\ UNCHANGED <<entitled, program, gpu, trusts>>

\* 403 ends the program, unless it was about to forget the failure.
Denied(s) ==
    /\ at[s] \in Requests /\ ~told[s] /\ ~entitled[NodeOf[s]]
    /\ CASE at[s] \in {"refresh", "release"} -> Goes(s, "close") /\ UNCHANGED due
         [] at[s] = "retry" -> Goes(s, "free") /\ due' = DueNow(s)
         [] at[s] = "close" -> Goes(s, "ended") /\ UNCHANGED due
    /\ UNCHANGED <<signals, entitled, active, gpu, trusts, steady>>

\* An administrator enables or disables a node.
Configure(n) ==
    /\ entitled' = [entitled EXCEPT ![n] = ~@]
    /\ steady' = (steady /\ \E s \in Sessions : lease[s] > 0 /\ entitled'[NodeOf[s]])
    /\ UNCHANGED <<signals, program, gpu, trusts>>

(***************************************************************************)
(* The workers.                                                            *)
(***************************************************************************)
\* The claims of the three kinds of job are refused while a signal counts.
ClaimJob(w) ==
    /\ gpu[w] = "idle" /\ ~Busy
    /\ gpu' = [gpu EXCEPT ![w] = "look"]
    /\ UNCHANGED <<signals, entitled, program, trusts, steady>>

\* Before the model is loaded and before every frame: ask until it is free.
Look(w) ==
    /\ gpu[w] = "look" /\ ~Busy
    /\ gpu' = [gpu EXCEPT ![w] = "clear"]
    /\ trusts' = [trusts EXCEPT ![w] = TRUE]
    /\ UNCHANGED <<signals, entitled, program, steady>>

\* The deadline of the job comes first, its lease is lost, or the call fails.
GiveUp(w) ==
    /\ gpu[w] = "look"
    /\ gpu' = [gpu EXCEPT ![w] = "idle"]
    /\ UNCHANGED <<signals, entitled, program, trusts, steady>>

UseGpu(w) ==
    /\ gpu[w] = "clear"
    /\ gpu' = [gpu EXCEPT ![w] = "gpu"]
    /\ UNCHANGED <<signals, entitled, program, trusts, steady>>

\* Mutant: an answer is trusted for the rest of the job.
TrustsToTheEnd(w) == gpu[w] = "gpu"

\* An answer is trusted for the next frames of the same moment.
StillTrusts(w) == trusts[w]

\* A frame is done: another one, or the end of the job.
GpuDone(w) ==
    /\ gpu[w] = "gpu"
    /\ \E next \in {"look", "idle"} \cup {n \in {"clear"} : StillTrusts(w)} :
           gpu' = [gpu EXCEPT ![w] = next]
    /\ UNCHANGED <<signals, entitled, program, trusts, steady>>

\* busy_until > time.time()
Lapses(l) == IF l > 0 THEN l - 1 ELSE 0

\* Time passes.  An answer that was trusted is used at once.
Tick ==
    /\ \A w \in Workers : gpu[w] # "clear"
    /\ \A s \in Sessions :
           /\ at[s] = "detect" => spent[s] < Detect
           /\ at[s] = "refresh" /\ told[s] => spent[s] < Latency
    /\ lease' = [s \in Sessions |-> Lapses(lease[s])]
    /\ due' = [s \in Sessions |-> IF due[s] > 0 THEN due[s] - 1 ELSE 0]
    /\ spent' = [s \in Sessions |->
           IF at[s] = "detect" \/ (at[s] = "refresh" /\ told[s]) THEN spent[s] + 1 ELSE 0]
    /\ trusts' = [w \in Workers |-> FALSE]
    /\ steady' = (Busy /\ BusyWith(lease'))
    /\ UNCHANGED <<late, overtaken, entitled, at, told, active, gpu>>

LoadNext ==
    \/ \E s \in Sessions :
           \/ Frame(s) \/ Detected(s) \/ Release(s) \/ Stop(s) \/ RecoverFrame(s)
           \/ Acknowledged(s) \/ Lost(s) \/ Crash(s) \/ Handle(s) \/ Denied(s) \/ HandleLate(s)
    \/ \E n \in Nodes : Configure(n)
    \/ \E w \in Workers : ClaimJob(w) \/ Look(w) \/ GiveUp(w) \/ UseGpu(w) \/ GpuDone(w)
    \/ Tick

LoadSpec == LoadInit /\ [][LoadNext]_loadVars

(***************************************************************************)
(* Properties.                                                             *)
(***************************************************************************)
\* While a program detects, its own signal counts at the server: neither a
\* release of another session, nor a release or a refresh whose answer was
\* lost, leaves a detection without it; only the late handling of a release
\* the program had given up does.
DetectionIsSignalled == \A s \in Sessions : at[s] = "detect" /\ ~overtaken[s] => lease[s] > 0

\* A program that takes itself to have no signal has none: a lost answer
\* never leaves one behind that nobody releases, unless the server handles
\* a refresh the program had given up.
NoForgottenSignal == \A s \in Sessions : ~active[s] /\ ~overtaken[s] => lease[s] = 0

\* No worker begins to use the GPU while detection has been signalled since
\* before this moment.
YieldsToDetection == \A w \in Workers : gpu[w] # "gpu" /\ gpu'[w] = "gpu" => ~steady

\* Detection goes first, whatever a worker has asked before (yield_for_inference).
DetectionFirst == [][YieldsToDetection]_loadVars

\* The invariant: the signals are as the programs take them to be.
SignalsHold == LoadTypeOK /\ DetectionIsSignalled /\ NoForgottenSignal

(***************************************************************************)
(* The parts of the inductive invariant that are no properties.            *)
(***************************************************************************)
\* A refresh is asked for when it is due, by a program that is marked, and
\* only an answer and a detection take time.
ProgramsInOrder == \A s \in Sessions :
    /\ at[s] = "refresh" => active[s] /\ due[s] = 0
    /\ at[s] = "detect" => ~told[s] /\ spent[s] <= Detect
    /\ told[s] => spent[s] <= Latency
    /\ ~told[s] /\ at[s] # "detect" => spent[s] = 0

\* What is left of a signal outlasts the answer, the wait for the next refresh
\* and the detection; what was released is gone.
SignalLasts == \A s \in Sessions : ~overtaken[s] =>
    /\ at[s] = "refresh" /\ told[s] => lease[s] + spent[s] >= Ttl
    /\ at[s] \in {"free", "detect"} /\ due[s] > 0 => lease[s] + Latency + Refresh >= Ttl + due[s]
    /\ at[s] = "detect" => lease[s] + spent[s] + Latency + Refresh > Ttl
    /\ at[s] \in {"release", "retry", "close"} /\ told[s] => lease[s] = 0

\* A worker that may use the GPU asked when no signal counted.
WorkersYield ==
    /\ steady => Busy
    /\ \A w \in Workers : (gpu[w] = "clear" => trusts[w]) /\ (trusts[w] => ~steady)

LoadInv == SignalsHold /\ ProgramsInOrder /\ SignalLasts /\ WorkersYield
====
