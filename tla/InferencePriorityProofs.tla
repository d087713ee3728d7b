---- MODULE InferencePriorityProofs ----
(***************************************************************************)
(* What InferencePriority promises, for any number of programs, nodes and  *)
(* workers and any times with Latency + Refresh + Detect < Ttl.            *)
(*                                                                         *)
(* The conditions on the programs concern one session each, so the proof   *)
(* follows one session: a step of another session leaves its program and   *)
(* its signal alone (OthersStay), a step of its own changes them as        *)
(* StepHolds says, and a tick takes one tick from its signal while an      *)
(* answer or a detection takes one more (TickHolds).                       *)
(***************************************************************************)
EXTENDS InferencePriority, FiniteSetTheorems, TLAPS

USE LoadAssumption

Steps == Requests \cup {"free", "detect", "failed", "ended"}

\* The types without the capacity.
Types ==
    /\ lease \in [Sessions -> 0..Ttl] /\ entitled \in [Nodes -> BOOLEAN]
    /\ at \in [Sessions -> Steps]
    /\ told \in [Sessions -> BOOLEAN] /\ active \in [Sessions -> BOOLEAN]
    /\ due \in [Sessions -> 0..Refresh]
    /\ spent \in [Sessions -> 0..(Latency + Detect)]
    /\ late \in [Sessions -> {"none", "refresh", "release"}]
    /\ overtaken \in [Sessions -> BOOLEAN]
    /\ gpu \in [Workers -> {"idle", "look", "clear", "gpu"}]
    /\ trusts \in [Workers -> BOOLEAN] /\ steady \in BOOLEAN

\* The sessions of a node with a signal, and the capacity for them.
SignalsOf(leases, n) == {s \in Sessions : NodeOf[s] = n /\ leases[s] > 0}
HasRoom(leases) == \A n \in Nodes : Cardinality(SignalsOf(leases, n)) <= Capacity

LEMMA TypesSplit == LoadTypeOK <=> Types /\ HasRoom(lease)
BY DEF LoadTypeOK, Types, Steps, HasRoom, SignalsOf

LEMMA SignalsFinite ==
    ASSUME NEW leases, NEW n
    PROVE  IsFiniteSet(SignalsOf(leases, n)) /\ Cardinality(SignalsOf(leases, n)) \in Nat
<1>1. SignalsOf(leases, n) \subseteq Sessions
  BY DEF SignalsOf
<1>2. IsFiniteSet(SignalsOf(leases, n))
  BY <1>1, FS_Subset DEF LoadAssumption
<1> QED
  BY <1>2, FS_CardinalityType

\* Fewer signals need no more room.
LEMMA FewerFit ==
    ASSUME NEW before, NEW after, NEW n, SignalsOf(after, n) \subseteq SignalsOf(before, n),
           Cardinality(SignalsOf(before, n)) <= Capacity
    PROVE  Cardinality(SignalsOf(after, n)) <= Capacity
<1>1. Cardinality(SignalsOf(after, n)) <= Cardinality(SignalsOf(before, n))
  BY SignalsFinite, FS_Subset
<1> QED
  BY <1>1, SignalsFinite DEF LoadAssumption

\* set_inference_load counts the other sessions of the node before it stores
\* a signal, so a node never has more than its capacity.
LEMMA RoomKept ==
    ASSUME NEW s \in Sessions, NEW ticks \in 0..Ttl, lease \in [Sessions -> 0..Ttl],
           HasRoom(lease), ticks = 0 \/ ~Full(s),
           NEW after, after = [lease EXCEPT ![s] = ticks]
    PROVE  \A n \in Nodes : Cardinality(SignalsOf(after, n)) <= Capacity
<1> SUFFICES ASSUME NEW n \in Nodes
             PROVE  Cardinality(SignalsOf(after, n)) <= Capacity
  OBVIOUS
<1>1. \A o \in Sessions : o # s => after[o] = lease[o]
  OBVIOUS
<1>2. after[s] = ticks
  OBVIOUS
<1>3. CASE ticks = 0 \/ NodeOf[s] # n
  <2>1. SignalsOf(after, n) \subseteq SignalsOf(lease, n)
    BY <1>1, <1>2, <1>3 DEF SignalsOf
  <2> QED
    BY <2>1, FewerFit DEF HasRoom
<1>4. CASE ~Full(s) /\ NodeOf[s] = n
  <2> DEFINE others == {o \in Sessions \ {s} : NodeOf[o] = NodeOf[s] /\ lease[o] > 0}
  <2>1. others \subseteq Sessions
    OBVIOUS
  <2>2. IsFiniteSet(others)
    BY <2>1, FS_Subset DEF LoadAssumption
  <2>3. Cardinality(others) \in Nat
    BY <2>2, FS_CardinalityType
  <2>4. Cardinality(others) < Capacity
    BY <1>4, <2>3 DEF Full, LoadAssumption
  <2>5. SignalsOf(after, n) \subseteq others \cup {s}
    BY <1>1, <1>4 DEF SignalsOf
  <2>6. Cardinality(others \cup {s}) <= Cardinality(others) + 1
    <3>1. s \notin others
      OBVIOUS
    <3> HIDE DEF others
    <3>2. Cardinality(others \cup {s}) = Cardinality(others) + 1
      BY <2>2, <3>1, FS_AddElement
    <3> QED
      BY <2>3, <3>2
  <2> HIDE DEF others
  <2>7. IsFiniteSet(others \cup {s})
    BY <2>2, FS_AddElement
  <2>8. Cardinality(SignalsOf(after, n)) <= Cardinality(others \cup {s})
    BY <2>5, <2>7, FS_Subset
  <2>9. Cardinality(others \cup {s}) \in Nat
    BY <2>7, FS_CardinalityType
  <2> QED
    BY <2>3, <2>4, <2>6, <2>8, <2>9, SignalsFinite DEF LoadAssumption
<1> QED
  BY <1>3, <1>4

-----------------------------------------------------------------------------
\* The steps of a program and of the server for one session.
ProgramStep(s) ==
    \/ Frame(s) \/ Detected(s) \/ Release(s) \/ Stop(s) \/ RecoverFrame(s)
    \/ Acknowledged(s) \/ Lost(s) \/ Crash(s) \/ Denied(s)
SessionStep(s) == ProgramStep(s) \/ Handle(s) \/ HandleLate(s)
WorkerStep(w) == ClaimJob(w) \/ Look(w) \/ GiveUp(w) \/ UseGpu(w) \/ GpuDone(w)

LEMMA StepsOfLoad ==
    LoadNext <=> \/ \E s \in Sessions : SessionStep(s)
                 \/ \E n \in Nodes : Configure(n)
                 \/ \E w \in Workers : WorkerStep(w)
                 \/ Tick
BY DEF LoadNext, SessionStep, ProgramStep, WorkerStep

\* What Goes does to the program it moves and to the others.
LEMMA GoesTo ==
    ASSUME Types, NEW s \in Sessions, NEW step \in Steps, Goes(s, step)
    PROVE  /\ at' \in [Sessions -> Steps] /\ told' \in [Sessions -> BOOLEAN]
           /\ spent' \in [Sessions -> 0..(Latency + Detect)]
           /\ at'[s] = step /\ ~told'[s] /\ spent'[s] = 0
           /\ \A o \in Sessions \ {s} :
                  at'[o] = at[o] /\ (told'[o] <=> told[o]) /\ spent'[o] = spent[o]
<1>1. told' = [told EXCEPT ![s] = FALSE] /\ told \in [Sessions -> BOOLEAN]
  BY DEF Goes, Types
<1>2. told' \in [Sessions -> BOOLEAN] /\ ~told'[s]
  BY <1>1
<1>3. \A o \in Sessions \ {s} : told'[o] <=> told[o]
  BY <1>1
<1>4. at' \in [Sessions -> Steps] /\ at'[s] = step
  BY DEF Goes, Types
<1>5. spent' \in [Sessions -> 0..(Latency + Detect)] /\ spent'[s] = 0
  BY DEF Goes, Types, LoadAssumption
<1>6. \A o \in Sessions \ {s} : at'[o] = at[o] /\ spent'[o] = spent[o]
  BY DEF Goes, Types
<1> QED
  BY <1>2, <1>3, <1>4, <1>5, <1>6

\* The steps of a program leave the signals, the workers and the nodes alone.
LEMMA ProgramTypes ==
    ASSUME Types, NEW s \in Sessions, ProgramStep(s)
    PROVE  Types' /\ UNCHANGED <<lease, overtaken, entitled, gpu, trusts, steady>>
<1> USE DEF Types, Steps, Requests, signals
<1>1. UNCHANGED <<lease, overtaken, entitled, gpu, trusts, steady>>
  BY DEF ProgramStep, Frame, Detected, Release, Stop, RecoverFrame, Acknowledged, Lost, Crash, Denied
<1>2. active' \in [Sessions -> BOOLEAN]
  BY DEF ProgramStep, Frame, Detected, Release, Stop, RecoverFrame, Acknowledged, Lost, Crash, Denied, Marked
<1>3. due' \in [Sessions -> 0..Refresh]
  <2>1. \/ UNCHANGED due \/ due' = [due EXCEPT ![s] = 0]
        \/ due' = [due EXCEPT ![s] = Refresh]
    BY DEF ProgramStep, Frame, Detected, Release, Stop, RecoverFrame, Acknowledged, Lost, Crash, Denied, DueNow
  <2> QED
    BY <2>1 DEF LoadAssumption
<1>4. late' \in [Sessions -> {"none", "refresh", "release"}]
  BY DEF ProgramStep, Frame, Detected, Release, Stop, RecoverFrame, Acknowledged, Lost, Crash, Denied, Abandons
<1>5. \E step \in Steps : Goes(s, step)
  BY DEF ProgramStep, Frame, Detected, Release, Stop, RecoverFrame, Acknowledged, Lost, Crash, Denied
<1>6. /\ at' \in [Sessions -> Steps] /\ told' \in [Sessions -> BOOLEAN]
      /\ spent' \in [Sessions -> 0..(Latency + Detect)]
  BY <1>5, GoesTo
<1> QED
  BY <1>1, <1>2, <1>3, <1>4, <1>6

\* What a request the server handles does to the signal of its session.
SignalSet(s) ==
    \E ticks \in {0, Ttl} :
        /\ lease' = [lease EXCEPT ![s] = ticks]
        /\ ticks = 0 \/ ~Full(s)

LEMMA ServerTypes ==
    ASSUME Types, NEW s \in Sessions, Handle(s) \/ HandleLate(s)
    PROVE  Types' /\ (UNCHANGED lease \/ SignalSet(s))
<1> USE DEF Types
<1>1. CASE Handle(s)
  <2>1. UNCHANGED lease \/ SignalSet(s)
    BY <1>1 DEF Handle, SignalSet, Cleared
  <2>2. lease' \in [Sessions -> 0..Ttl]
    BY <2>1 DEF SignalSet, LoadAssumption
  <2>3. UNCHANGED <<late, entitled, active, due, gpu, trusts>>
    BY <1>1 DEF Handle
  <2>4. CASE at[s] = "refresh" /\ Full(s)
    <3>1. Goes(s, "failed") /\ UNCHANGED <<lease, overtaken, steady>>
      BY <1>1, <2>4 DEF Handle
    <3> QED
      BY <2>1, <2>2, <2>3, <3>1, GoesTo DEF Steps
  <2>5. CASE ~(at[s] = "refresh" /\ Full(s))
    <3>1. /\ overtaken' = [overtaken EXCEPT ![s] = FALSE]
          /\ told' = [told EXCEPT ![s] = TRUE]
          /\ UNCHANGED <<at, spent>>
      BY <1>1, <2>5 DEF Handle
    <3>2. steady' \in BOOLEAN
      BY <1>1, <2>5, Zenon DEF Handle
    <3>3. overtaken' \in [Sessions -> BOOLEAN] /\ told' \in [Sessions -> BOOLEAN]
      BY <3>1
    <3> QED
      BY <2>1, <2>2, <2>3, <3>1, <3>2, <3>3
  <2> QED
    BY <2>4, <2>5
<1>2. CASE HandleLate(s)
  <2>1. UNCHANGED lease \/ SignalSet(s)
    BY <1>2 DEF HandleLate, SignalSet, Cleared
  <2>2. lease' \in [Sessions -> 0..Ttl]
    BY <2>1 DEF SignalSet, LoadAssumption
  <2>3. UNCHANGED <<entitled, at, told, active, due, spent, gpu, trusts>>
    BY <1>2 DEF HandleLate, program
  <2>4. late' \in [Sessions -> {"none", "refresh", "release"}]
    BY <1>2 DEF HandleLate
  <2>5. overtaken' \in [Sessions -> BOOLEAN]
    BY <1>2 DEF HandleLate
  <2>6. steady' \in BOOLEAN
    BY <1>2, Zenon DEF HandleLate
  <2> QED
    BY <2>1, <2>2, <2>3, <2>4, <2>5, <2>6
<1> QED
  BY <1>1, <1>2

\* Time and the workers keep the types too; a signal only grows shorter.
LEMMA OtherTypes ==
    ASSUME Types, Tick \/ (\E n \in Nodes : Configure(n)) \/ (\E w \in Workers : WorkerStep(w))
    PROVE  Types' /\ \A s \in Sessions : lease'[s] <= lease[s]
<1> USE DEF Types
<1>1. CASE Tick
  <2>1. /\ lease' \in [Sessions -> 0..Ttl] /\ due' \in [Sessions -> 0..Refresh]
        /\ \A s \in Sessions : lease'[s] <= lease[s]
    BY <1>1 DEF Tick, Lapses, LoadAssumption
  <2>2. spent' \in [Sessions -> 0..(Latency + Detect)]
    BY <1>1 DEF Tick, LoadAssumption
  <2>3. UNCHANGED <<late, overtaken, entitled, at, told, active, gpu>>
    BY <1>1 DEF Tick
  <2>4. trusts' \in [Workers -> BOOLEAN]
    BY <1>1 DEF Tick
  <2>5. steady' \in BOOLEAN
    BY <1>1, Zenon DEF Tick
  <2> QED
    BY <2>1, <2>2, <2>3, <2>4, <2>5
<1>2. CASE \E n \in Nodes : Configure(n)
  <2>1. UNCHANGED <<signals, program, gpu, trusts>>
    BY <1>2 DEF Configure
  <2>2. entitled' \in [Nodes -> BOOLEAN]
    BY <1>2 DEF Configure
  <2>3. steady' \in BOOLEAN
    BY <1>2, Zenon DEF Configure
  <2> QED
    BY <2>1, <2>2, <2>3 DEF signals, program
<1>3. CASE \E w \in Workers : WorkerStep(w)
  <2>1. UNCHANGED <<signals, entitled, program, steady>>
    BY <1>3 DEF WorkerStep, ClaimJob, Look, GiveUp, UseGpu, GpuDone
  <2>2. gpu' \in [Workers -> {"idle", "look", "clear", "gpu"}]
    BY <1>3 DEF WorkerStep, ClaimJob, Look, GiveUp, UseGpu, GpuDone
  <2>3. trusts' \in [Workers -> BOOLEAN]
    BY <1>3 DEF WorkerStep, ClaimJob, Look, GiveUp, UseGpu, GpuDone
  <2> QED
    BY <2>1, <2>2, <2>3 DEF signals, program
<1> QED
  BY <1>1, <1>2, <1>3

LEMMA TypesKept == ASSUME LoadTypeOK, [LoadNext]_loadVars PROVE LoadTypeOK'
<1>1. Types /\ HasRoom(lease)
  BY TypesSplit
<1>2. CASE \E s \in Sessions : ProgramStep(s)
  BY <1>1, <1>2, ProgramTypes, TypesSplit DEF LoadTypeOK, Types, Steps
<1>3. CASE \E s \in Sessions : Handle(s) \/ HandleLate(s)
  <2>1. PICK s \in Sessions : Handle(s) \/ HandleLate(s)
    BY <1>3
  <2>2. Types' /\ (UNCHANGED lease \/ SignalSet(s))
    BY <1>1, <2>1, ServerTypes
  <2>3. HasRoom(lease')
    <3>1. CASE UNCHANGED lease
      BY <1>1, <3>1
    <3>2. CASE SignalSet(s)
      <4>1. PICK ticks \in {0, Ttl} :
                  /\ lease' = [lease EXCEPT ![s] = ticks]
                  /\ ticks = 0 \/ ~Full(s)
        BY <3>2 DEF SignalSet
      <4>2. ticks \in 0..Ttl
        BY DEF LoadAssumption
      <4>3. lease \in [Sessions -> 0..Ttl]
        BY <1>1 DEF Types
      <4>4. \A n \in Nodes : Cardinality(SignalsOf(lease', n)) <= Capacity
        BY <1>1, <4>1, <4>2, <4>3, RoomKept
      <4> QED
        BY <4>4 DEF HasRoom
    <3> QED
      BY <2>2, <3>1, <3>2
  <2> QED
    BY <2>2, <2>3 DEF LoadTypeOK, Types, Steps, HasRoom, SignalsOf
<1>4. CASE Tick \/ (\E n \in Nodes : Configure(n)) \/ (\E w \in Workers : WorkerStep(w))
  <2>1. Types' /\ \A s \in Sessions : lease'[s] <= lease[s]
    BY <1>1, <1>4, OtherTypes
  <2>2. ASSUME NEW n \in Nodes PROVE Cardinality(SignalsOf(lease', n)) <= Capacity
    <3>1. SignalsOf(lease', n) \subseteq SignalsOf(lease, n)
      BY <1>1, <2>1 DEF SignalsOf, Types
    <3> QED
      BY <1>1, <3>1, FewerFit DEF HasRoom
  <2> QED
    BY <2>1, <2>2 DEF LoadTypeOK, Types, Steps, HasRoom, SignalsOf
<1>5. CASE UNCHANGED loadVars
  BY <1>5 DEF LoadTypeOK, loadVars, signals, program
<1> QED
  BY <1>2, <1>3, <1>4, <1>5, StepsOfLoad DEF SessionStep

-----------------------------------------------------------------------------
\* What LoadInv says of one session.
SessionHolds(s) ==
    /\ at[s] = "detect" /\ ~overtaken[s] => lease[s] > 0
    /\ ~active[s] /\ ~overtaken[s] => lease[s] = 0
    /\ at[s] = "refresh" => active[s] /\ due[s] = 0
    /\ at[s] = "detect" => ~told[s] /\ spent[s] <= Detect
    /\ told[s] => spent[s] <= Latency
    /\ ~told[s] /\ at[s] # "detect" => spent[s] = 0
    /\ ~overtaken[s] =>
        /\ at[s] = "refresh" /\ told[s] => lease[s] + spent[s] >= Ttl
        /\ at[s] \in {"free", "detect"} /\ due[s] > 0 => lease[s] + Latency + Refresh >= Ttl + due[s]
        /\ at[s] = "detect" => lease[s] + spent[s] + Latency + Refresh > Ttl
        /\ at[s] \in {"release", "retry", "close"} /\ told[s] => lease[s] = 0

LEMMA OneByOne ==
    LoadInv <=> LoadTypeOK /\ (\A s \in Sessions : SessionHolds(s)) /\ WorkersYield
BY DEF LoadInv, SignalsHold, DetectionIsSignalled, NoForgottenSignal, ProgramsInOrder, SignalLasts,
   SessionHolds

\* A program and the requests of its session leave the other sessions alone.
LEMMA OthersStay ==
    ASSUME Types, NEW s \in Sessions, SessionStep(s), NEW o \in Sessions, o # s, SessionHolds(o)
    PROVE  SessionHolds(o)'
<1>1. /\ at'[o] = at[o] /\ (told'[o] <=> told[o]) /\ spent'[o] = spent[o]
      /\ (active'[o] <=> active[o]) /\ due'[o] = due[o]
      /\ lease'[o] = lease[o] /\ (overtaken'[o] <=> overtaken[o])
  <2>1. CASE ProgramStep(s)
    <3>1. UNCHANGED <<lease, overtaken>>
      BY <2>1, ProgramTypes
    <3>2. \E step \in Steps : Goes(s, step)
      BY <2>1 DEF Types, Steps, Requests, ProgramStep, Frame, Detected, Release, Stop, RecoverFrame, Acknowledged,
         Lost, Crash, Denied
    <3>3. at'[o] = at[o] /\ (told'[o] <=> told[o]) /\ spent'[o] = spent[o]
      BY <3>2, GoesTo
    <3>4. \/ UNCHANGED active \/ active' = [active EXCEPT ![s] = TRUE]
          \/ active' = [active EXCEPT ![s] = FALSE]
      <4>1. CASE Frame(s) \/ Acknowledged(s)
        BY <4>1 DEF Frame, Acknowledged, Marked
      <4>2. CASE Detected(s) \/ Release(s) \/ Stop(s) \/ RecoverFrame(s) \/ Lost(s) \/ Crash(s) \/ Denied(s)
        BY <4>2 DEF Detected, Release, Stop, RecoverFrame, Lost, Crash, Denied
      <4> QED
        BY <2>1, <4>1, <4>2 DEF ProgramStep
    <3>5. UNCHANGED due \/ due' = [due EXCEPT ![s] = 0] \/ due' = [due EXCEPT ![s] = Refresh]
      BY <2>1 DEF ProgramStep, Frame, Detected, Release, Stop, RecoverFrame, Acknowledged, Lost, Crash, Denied,
         DueNow, Types, Steps, Requests
    <3>6. due'[o] = due[o]
      BY <3>5 DEF Types
    <3>7. active'[o] <=> active[o]
      BY <3>4 DEF Types
    <3> QED
      BY <3>1, <3>3, <3>6, <3>7
  <2>2. CASE Handle(s) \/ HandleLate(s)
    <3>1. lease'[o] = lease[o]
      BY <2>2, ServerTypes DEF SignalSet, Types
    <3>2. UNCHANGED <<active, due>>
      BY <2>2 DEF Handle, HandleLate, program
    <3>3. UNCHANGED overtaken \/ \E b \in BOOLEAN : overtaken' = [overtaken EXCEPT ![s] = b]
      BY <2>2 DEF Handle, HandleLate
    <3>4. overtaken'[o] <=> overtaken[o]
      BY <3>3 DEF Types
    <3>5. \/ Goes(s, "failed")
          \/ UNCHANGED <<at, spent>> /\ (UNCHANGED told \/ told' = [told EXCEPT ![s] = TRUE])
      BY <2>2 DEF Handle, HandleLate, program
    <3>6. at'[o] = at[o] /\ (told'[o] <=> told[o]) /\ spent'[o] = spent[o]
      <4>1. CASE Goes(s, "failed")
        BY <4>1, GoesTo DEF Steps
      <4>2. CASE UNCHANGED <<at, spent>> /\ (UNCHANGED told \/ told' = [told EXCEPT ![s] = TRUE])
        BY <4>2 DEF Types
      <4> QED
        BY <3>5, <4>1, <4>2
    <3> QED
      BY <3>1, <3>2, <3>4, <3>6
  <2> QED
    BY <2>1, <2>2 DEF SessionStep
<1> QED
  BY <1>1 DEF SessionHolds

\* A step of the program itself: it detects under a signal that has time left,
\* and it takes itself to have none only after a release was acknowledged.
LEMMA ProgramHolds ==
    ASSUME Types, NEW s \in Sessions, ProgramStep(s), SessionHolds(s)
    PROVE  SessionHolds(s)'
<1> USE DEF LoadAssumption
<1>1. lease'[s] = lease[s] /\ (overtaken'[s] <=> overtaken[s])
  BY ProgramTypes
<1>2. /\ lease[s] \in Nat /\ due[s] \in Nat /\ spent[s] \in Nat /\ lease'[s] \in Nat
      /\ due'[s] \in Nat /\ spent'[s] \in Nat
  BY ProgramTypes DEF Types
<1>3. CASE Frame(s)
  <2>1. CASE due[s] = 0
    <3>1. at'[s] = "refresh" /\ ~told'[s] /\ spent'[s] = 0
      BY <1>3, <2>1, GoesTo DEF Frame, Steps, Requests
    <3>2. active'[s] /\ due'[s] = 0
      BY <1>3, <2>1 DEF Frame, Marked, Types
    <3> QED
      BY <1>1, <1>2, <3>1, <3>2 DEF SessionHolds
  <2>2. CASE due[s] # 0
    <3>1. at'[s] = "detect" /\ ~told'[s] /\ spent'[s] = 0
      BY <1>3, <2>2, GoesTo DEF Frame, Steps
    <3>2. (active'[s] <=> active[s]) /\ due'[s] = due[s] /\ at[s] = "free"
      BY <1>3, <2>2 DEF Frame
    <3> QED
      BY <1>1, <1>2, <2>2, <3>1, <3>2 DEF SessionHolds
  <2> QED
    BY <2>1, <2>2
<1>4. CASE Detected(s)
  <2>1. at'[s] = "free" /\ ~told'[s] /\ spent'[s] = 0
    BY <1>4, GoesTo DEF Detected, Steps
  <2>2. (active'[s] <=> active[s]) /\ due'[s] = due[s] /\ at[s] = "detect"
    BY <1>4 DEF Detected
  <2> QED
    BY <1>1, <1>2, <2>1, <2>2 DEF SessionHolds
\* A step to a state without a detection, after which it is not yet due to
\* detect without asking.
<1>5. ASSUME NEW step \in {"free", "release", "retry", "close", "failed", "ended"}, Goes(s, step),
             active'[s] <=> active[s], step = "free" => due'[s] = 0
      PROVE  SessionHolds(s)'
  <2>1. at'[s] = step /\ ~told'[s] /\ spent'[s] = 0
    BY <1>5, GoesTo DEF Steps, Requests
  <2> QED
    BY <1>1, <1>2, <1>5, <2>1 DEF SessionHolds
<1>6. CASE Release(s) \/ RecoverFrame(s)
  <2>1. active'[s] <=> active[s]
    BY <1>6 DEF Release, RecoverFrame
  <2>2. \E step \in {"free", "release", "retry"} : Goes(s, step) /\ (step = "free" => due'[s] = 0)
    BY <1>6 DEF Release, RecoverFrame, Types
  <2> QED
    BY <1>5, <2>1, <2>2
<1>7. CASE Stop(s) \/ Crash(s)
  <2>1. active'[s] <=> active[s]
    BY <1>7 DEF Stop, Crash
  <2>2. \E step \in {"close", "ended"} : Goes(s, step)
    BY <1>7 DEF Stop, Crash
  <2> QED
    BY <1>5, <2>1, <2>2
<1>8. CASE Lost(s) \/ Denied(s)
  <2>1. active'[s] <=> active[s]
    BY <1>8 DEF Lost, Denied
  <2>2. \E step \in {"free", "failed", "close", "ended"} : Goes(s, step) /\ (step = "free" => due'[s] = 0)
    BY <1>8 DEF Lost, Denied, DueNow, Types, Requests
  <2> QED
    BY <1>5, <2>1, <2>2
<1>9. CASE Acknowledged(s)
  <2>1. told[s]
    BY <1>9 DEF Acknowledged
  <2>2. CASE at[s] = "refresh"
    <3>1. at'[s] = "detect" /\ ~told'[s] /\ spent'[s] = 0
      BY <1>9, <2>2, GoesTo DEF Acknowledged, Steps
    <3>2. (active'[s] <=> active[s]) /\ due'[s] = Refresh
      BY <1>9, <2>2 DEF Acknowledged, Types
    <3> QED
      BY <1>1, <1>2, <2>1, <2>2, <3>1, <3>2 DEF SessionHolds
  <2>3. CASE at[s] # "refresh"
    <3>1. at[s] \in {"release", "retry", "close"}
      BY <1>9, <2>3 DEF Acknowledged, Requests
    <3>2. at'[s] \in {"free", "ended"} /\ ~told'[s] /\ spent'[s] = 0
      BY <1>9, <2>3, GoesTo DEF Acknowledged, Steps
    <3>3. due'[s] = 0
      BY <1>9, <2>3 DEF Acknowledged, Types
    <3> QED
      BY <1>1, <1>2, <2>1, <3>1, <3>2, <3>3 DEF SessionHolds
  <2> QED
    BY <2>2, <2>3
<1> QED
  BY <1>3, <1>4, <1>6, <1>7, <1>8, <1>9 DEF ProgramStep

\* The server stores a signal for Ttl ticks, or takes it back; a request that
\* the program had given up leaves a mark.
LEMMA ServerHolds ==
    ASSUME Types, NEW s \in Sessions, Handle(s) \/ HandleLate(s), SessionHolds(s)
    PROVE  SessionHolds(s)'
<1> USE DEF LoadAssumption
<1>1. /\ lease[s] \in Nat /\ due[s] \in Nat /\ spent[s] \in Nat /\ lease'[s] \in Nat
      /\ due'[s] \in Nat /\ spent'[s] \in Nat
  BY ServerTypes DEF Types
<1>2. CASE Handle(s)
  <2>1. (active'[s] <=> active[s]) /\ due'[s] = due[s] /\ at[s] \in Requests /\ ~told[s]
    BY <1>2 DEF Handle
  <2>2. CASE at[s] = "refresh" /\ Full(s)
    <3>1. Goes(s, "failed") /\ UNCHANGED <<lease, overtaken>>
      BY <1>2, <2>2 DEF Handle
    <3>2. at'[s] = "failed" /\ ~told'[s] /\ spent'[s] = 0
      BY <3>1, GoesTo DEF Steps
    <3> QED
      BY <1>1, <2>1, <3>1, <3>2 DEF SessionHolds
  <2>3. CASE ~(at[s] = "refresh" /\ Full(s))
    <3>1. at'[s] = at[s] /\ spent'[s] = spent[s]
      BY <1>2, <2>3 DEF Handle
    <3>2. told'[s] /\ ~overtaken'[s]
      BY <1>2, <2>3 DEF Handle, Types
    <3>3. lease'[s] = IF at[s] = "refresh" THEN Ttl ELSE 0
      BY <1>2, <2>3 DEF Handle, Cleared, Types
    <3> QED
      BY <1>1, <2>1, <3>1, <3>2, <3>3 DEF SessionHolds, Requests
  <2> QED
    BY <2>2, <2>3
<1>3. CASE HandleLate(s)
  <2>1. /\ at'[s] = at[s] /\ (told'[s] <=> told[s]) /\ spent'[s] = spent[s]
        /\ (active'[s] <=> active[s]) /\ due'[s] = due[s]
    BY <1>3 DEF HandleLate, program
  <2>2. overtaken'[s] \/ ((overtaken'[s] <=> overtaken[s]) /\ lease'[s] = lease[s])
    BY <1>3 DEF HandleLate, Types
  <2> QED
    BY <1>1, <2>1, <2>2 DEF SessionHolds
<1> QED
  BY <1>2, <1>3

\* A tick takes no more from a signal than it adds to the answer or the
\* detection, and an answer or a detection that took too long is over before.
LEMMA TickHolds ==
    ASSUME Types, Tick, NEW s \in Sessions, SessionHolds(s)
    PROVE  SessionHolds(s)'
<1> USE DEF LoadAssumption
<1>1. lease[s] \in Nat /\ due[s] \in Nat /\ spent[s] \in Nat
  BY DEF Types
<1>2. /\ at'[s] = at[s] /\ (told'[s] <=> told[s]) /\ (active'[s] <=> active[s])
      /\ (overtaken'[s] <=> overtaken[s])
  BY DEF Tick
<1>3. lease'[s] = IF lease[s] > 0 THEN lease[s] - 1 ELSE 0
  BY DEF Tick, Lapses
<1>4. due'[s] = IF due[s] > 0 THEN due[s] - 1 ELSE 0
  BY DEF Tick
<1>5. CASE at[s] = "detect" \/ (at[s] = "refresh" /\ told[s])
  <2>1. spent'[s] = spent[s] + 1
    BY <1>5 DEF Tick
  <2>2. at[s] = "detect" => spent[s] < Detect
    BY DEF Tick
  <2>3. at[s] = "refresh" /\ told[s] => spent[s] < Latency
    BY DEF Tick
  <2> QED
    BY <1>1, <1>2, <1>3, <1>4, <1>5, <2>1, <2>2, <2>3 DEF SessionHolds
<1>6. CASE ~(at[s] = "detect" \/ (at[s] = "refresh" /\ told[s]))
  <2>1. spent'[s] = 0
    BY <1>6 DEF Tick
  <2> QED
    BY <1>1, <1>2, <1>3, <1>4, <1>6, <2>1 DEF SessionHolds
<1> QED
  BY <1>5, <1>6

-----------------------------------------------------------------------------
\* The moment is marked while some signal counts, and a worker that may use
\* the GPU asked when none did.
LEMMA WorkersHold == ASSUME Types, WorkersYield, [LoadNext]_loadVars PROVE WorkersYield'
<1> USE DEF WorkersYield
<1>1. CASE \E s \in Sessions : ProgramStep(s)
  <2>1. UNCHANGED <<lease, entitled, gpu, trusts, steady>>
    BY <1>1, ProgramTypes
  <2> QED
    BY <2>1 DEF Busy, BusyWith
<1>2. CASE \E s \in Sessions : Handle(s) \/ HandleLate(s)
  <2>1. UNCHANGED <<entitled, gpu, trusts>>
    BY <1>2 DEF Handle, HandleLate, program
  <2>2. UNCHANGED <<lease, steady>> \/ (steady' <=> steady /\ BusyWith(lease'))
    BY <1>2, Zenon DEF Handle, HandleLate
  <2>3. steady' => steady /\ BusyWith(lease')
    BY <2>2 DEF Busy
  <2>4. BusyWith(lease') <=> Busy'
    BY <2>1 DEF Busy, BusyWith
  <2> QED
    BY <2>1, <2>3, <2>4
<1>3. CASE \E n \in Nodes : Configure(n)
  <2>1. UNCHANGED <<lease, gpu, trusts>>
    BY <1>3 DEF Configure, signals
  <2>2. steady' <=> steady /\ \E s \in Sessions : lease[s] > 0 /\ entitled'[NodeOf[s]]
    BY <1>3, Zenon DEF Configure
  <2> QED
    BY <2>1, <2>2 DEF Busy, BusyWith
<1>4. CASE \E w \in Workers : WorkerStep(w)
  <2>1. UNCHANGED <<lease, entitled, steady>>
    BY <1>4 DEF WorkerStep, ClaimJob, Look, GiveUp, UseGpu, GpuDone, signals
  <2>2. \A w \in Workers : trusts'[w] => trusts[w] \/ ~Busy
    BY <1>4 DEF WorkerStep, ClaimJob, Look, GiveUp, UseGpu, GpuDone, Types
  <2>3. \A w \in Workers : gpu'[w] = "clear" => trusts'[w]
    BY <1>4 DEF WorkerStep, ClaimJob, Look, GiveUp, UseGpu, GpuDone, StillTrusts, Types
  <2> QED
    BY <2>1, <2>2, <2>3 DEF Busy, BusyWith
<1>5. CASE Tick
  <2>1. \A w \in Workers : gpu'[w] # "clear" /\ ~trusts'[w]
    BY <1>5 DEF Tick
  <2>2. steady' => BusyWith(lease')
    BY <1>5, Zenon DEF Tick
  <2>3. entitled' = entitled
    BY <1>5 DEF Tick
  <2> QED
    BY <2>1, <2>2, <2>3 DEF Busy, BusyWith
<1>6. CASE UNCHANGED loadVars
  BY <1>6 DEF loadVars, signals, program, Busy, BusyWith
<1> QED
  BY <1>1, <1>2, <1>3, <1>4, <1>5, <1>6, StepsOfLoad DEF SessionStep

-----------------------------------------------------------------------------
LEMMA InitHolds == LoadInit => LoadInv
<1> SUFFICES ASSUME LoadInit PROVE LoadInv
  OBVIOUS
<1> USE DEF LoadInit, LoadAssumption
<1>1. Types
  <2>1. at \in [Sessions -> Steps] /\ gpu \in [Workers -> {"idle", "look", "clear", "gpu"}]
    BY DEF Steps
  <2>2. /\ entitled \in [Nodes -> BOOLEAN] /\ told \in [Sessions -> BOOLEAN]
        /\ active \in [Sessions -> BOOLEAN] /\ overtaken \in [Sessions -> BOOLEAN]
        /\ trusts \in [Workers -> BOOLEAN] /\ steady \in BOOLEAN
    OBVIOUS
  <2>3. /\ lease \in [Sessions -> 0..Ttl] /\ due \in [Sessions -> 0..Refresh]
        /\ spent \in [Sessions -> 0..(Latency + Detect)]
        /\ late \in [Sessions -> {"none", "refresh", "release"}]
    OBVIOUS
  <2> QED
    BY <2>1, <2>2, <2>3 DEF Types
<1>2. ASSUME NEW n \in Nodes PROVE Cardinality(SignalsOf(lease, n)) <= Capacity
  <2>1. SignalsOf(lease, n) = {}
    BY DEF SignalsOf
  <2> QED
    BY <2>1, FS_EmptySet
<1>3. \A s \in Sessions : SessionHolds(s)
  BY DEF SessionHolds
<1>4. WorkersYield
  BY DEF WorkersYield
<1> QED
  BY <1>1, <1>2, <1>3, <1>4, OneByOne, TypesSplit DEF HasRoom

LEMMA NextHolds == LoadInv /\ [LoadNext]_loadVars => LoadInv'
<1> SUFFICES ASSUME LoadInv, [LoadNext]_loadVars PROVE LoadInv'
  OBVIOUS
<1>1. LoadTypeOK /\ Types /\ (\A s \in Sessions : SessionHolds(s)) /\ WorkersYield
  BY OneByOne, TypesSplit
<1>2. LoadTypeOK' /\ WorkersYield'
  BY <1>1, TypesKept, WorkersHold
<1>3. ASSUME NEW o \in Sessions PROVE SessionHolds(o)'
  <2>1. CASE \E s \in Sessions : SessionStep(s)
    <3>1. PICK s \in Sessions : SessionStep(s)
      BY <2>1
    <3> QED
      BY <1>1, <3>1, OthersStay, ProgramHolds, ServerHolds DEF SessionStep
  <2>2. CASE Tick
    BY <1>1, <2>2, TickHolds
  <2>3. CASE (\E n \in Nodes : Configure(n)) \/ (\E w \in Workers : WorkerStep(w)) \/ UNCHANGED loadVars
    <3>1. UNCHANGED <<signals, program>>
      BY <2>3 DEF Configure, WorkerStep, ClaimJob, Look, GiveUp, UseGpu, GpuDone, loadVars
    <3> QED
      BY <1>1, <3>1 DEF SessionHolds, signals, program
  <2> QED
    BY <2>1, <2>2, <2>3, StepsOfLoad
<1>4. SignalsHold' /\ ProgramsInOrder' /\ SignalLasts'
  BY <1>2, <1>3 DEF SignalsHold, DetectionIsSignalled, NoForgottenSignal, ProgramsInOrder, SignalLasts,
     SessionHolds
<1> QED
  BY <1>2, <1>4 DEF LoadInv

\* LoadInv is an invariant: what is left of a signal outlasts the answer, the
\* wait and the detection (inference_load.py:57), the server counts the
\* sessions of a node (processing/routes.py), and a worker acts on an answer
\* of the same moment (ai_worker.py, worker.py).
THEOREM Invariant == LoadSpec => []LoadInv
BY InitHolds, NextHolds, PTL DEF LoadSpec

\* A program detects under its own signal, and leaves none behind that it does
\* not know of, unless the server handles a request late (InferenceLoad).
THEOREM SignalsAlwaysHold == LoadSpec => []SignalsHold
<1>1. LoadInv => SignalsHold
  BY DEF LoadInv
<1> QED
  BY <1>1, Invariant, PTL

\* No worker begins to use the GPU while detection has been signalled since
\* before that moment (yield_for_inference).
THEOREM DetectionAlwaysFirst == LoadSpec => DetectionFirst
<1>1. LoadInv /\ [LoadNext]_loadVars => [YieldsToDetection]_loadVars
  <2> SUFFICES ASSUME LoadInv, LoadNext PROVE YieldsToDetection
    BY DEF LoadNext
  <2> SUFFICES ASSUME NEW w \in Workers, gpu[w] # "gpu", gpu'[w] = "gpu" PROVE ~steady
    BY DEF YieldsToDetection
  <2>1. Types /\ WorkersYield
    BY OneByOne, TypesSplit
  <2>2. gpu[w] = "clear"
    <3>1. CASE \E s \in Sessions : SessionStep(s)
      BY <2>1, <3>1, ProgramTypes DEF SessionStep, Handle, HandleLate
    <3>2. CASE \E n \in Nodes : Configure(n)
      BY <3>2 DEF Configure
    <3>3. CASE \E v \in Workers : WorkerStep(v)
      BY <2>1, <3>3 DEF WorkerStep, ClaimJob, Look, GiveUp, UseGpu, GpuDone, Types
    <3>4. CASE Tick
      BY <3>4 DEF Tick
    <3> QED
      BY <3>1, <3>2, <3>3, <3>4, StepsOfLoad
  <2> QED
    BY <2>1, <2>2 DEF WorkersYield
<1> QED
  BY <1>1, Invariant, PTL DEF LoadSpec, DetectionFirst
====
