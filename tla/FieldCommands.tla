--------------------------- MODULE FieldCommands ---------------------------
(***************************************************************************)
(* Commands for field speakers.  The server queues a command in the        *)
(* database; the agent on the PC with the speaker polls for it, notes it   *)
(* in its state file, executes it and reports the result.  Requests and    *)
(* answers are lost or late, and the agent may be killed anywhere.         *)
(*                                                                         *)
(* Server transactions are atomic steps.  Time is abstracted to what it is *)
(* compared for: `late` (expires_at has passed), `overdue` (claimed more   *)
(* than half an hour ago), `cooling` (created within the cooldown) and     *)
(* `online` (last heartbeat within 30 seconds).  Whatever the server keeps *)
(* in memory is a request in progress, so a crash of the API is a refusal. *)
(***************************************************************************)
EXTENDS Naturals

CONSTANTS Event,       \* candidate events
          Node,        \* field nodes, one agent each
          Request,     \* broadcast requests the API handles at the same time
          KindOf,      \* what an event warns of: its PPE type and zone
          Language,    \* what nodes speak
          None,        \* no event, no node, no language
          MaxCommands, \* bound: commands ever created
          MaxCrashes   \* bound: kills of agents

ASSUME NoneAssumption   == None \notin Event /\ None \notin Node /\ None \notin Language
ASSUME BoundsAssumption == MaxCommands \in Nat /\ MaxCrashes \in Nat

\* Commands are numbered in the order of created_at, which is the claim order.
Command == 1 .. MaxCommands
NoCommand == 0

VARIABLES
  nCommands,                 \* field_command rows so far
  status, cmdNode, cmdEvent, \* their columns; no event: queued by an administrator
  cmdLang,                   \* the language of a broadcast, part of its cooldown_key
  late, overdue, cooling,    \* what time has made of them (while it matters)
  open,                      \* events pending review and not merged
  output,                    \* the output node of the event's camera
  online,                    \* nodes heard of within 30 seconds
  askEvent, askOver,         \* broadcast requests: event, and what had cooled down by `now`
  stray,                     \* nodes with a claim the agent has given up waiting for
  sent,                      \* results ever put on the way to the server
  task,                      \* the agent: down, or what its executor is doing
  jcmd, jstat,               \* the record of the agent's state file
  ran,                       \* how often a command has been executed
  crashes

rowVars    == <<nCommands, cmdNode, cmdEvent, cmdLang>>
timeVars   == <<late, overdue, cooling>>
worldVars  == <<open, output, online>>
askVars    == <<askEvent, askOver>>
netVars    == <<stray, sent>>
agentVars  == <<task, jcmd, jstat>>
vars == <<rowVars, status, timeVars, worldVars, askVars, netVars, agentVars, ran, crashes>>

Status  == {"none", "pending", "claimed", "unknown", "expired",
            "completed", "failed", "skipped"}
Result  == {"completed", "failed", "skipped"}
Final   == Result \cup {"expired"}
Task    == {"down", "idle", "queued", "running"}
JournalStatus == {"none", "started"} \cup Result

TypeOK ==
  /\ nCommands \in 0 .. MaxCommands
  /\ status \in [Command -> Status]
  /\ cmdNode \in [Command -> Node \cup {None}]
  /\ cmdEvent \in [Command -> Event \cup {None}]
  /\ cmdLang \in [Command -> Language \cup {None}]
  /\ late \in SUBSET Command /\ overdue \in SUBSET Command /\ cooling \in SUBSET Command
  /\ open \in SUBSET Event
  /\ output \in [Event -> Node \cup {None}]
  /\ online \in SUBSET Node
  /\ askEvent \in [Request -> Event \cup {None}]
  /\ askOver \in [Request -> SUBSET Command]
  /\ stray \in SUBSET Node
  /\ sent \in SUBSET (Command \X Result)
  /\ task \in [Node -> Task]
  /\ jcmd \in [Node -> Command \cup {NoCommand}]
  /\ jstat \in [Node -> JournalStatus]
  /\ ran \in [Command -> Nat]
  /\ crashes \in 0 .. MaxCrashes

Init ==
  /\ nCommands = 0
  /\ status = [c \in Command |-> "none"]
  /\ cmdNode = [c \in Command |-> None]
  /\ cmdEvent = [c \in Command |-> None]
  /\ cmdLang = [c \in Command |-> None]
  /\ late = {} /\ overdue = {} /\ cooling = {}
  /\ open = Event
  /\ output \in [Event -> Node \cup {None}]
  /\ online = {}
  /\ askEvent = [r \in Request |-> None]
  /\ askOver = [r \in Request |-> {}]
  /\ stray = {} /\ sent = {}
  /\ task = [n \in Node |-> "down"]
  /\ jcmd = [n \in Node |-> NoCommand]
  /\ jstat = [n \in Node |-> "none"]
  /\ ran = [c \in Command |-> 0]
  /\ crashes = 0

-----------------------------------------------------------------------------
\* Queueing.

Create(n, e, l) ==
  /\ nCommands < MaxCommands
  /\ nCommands' = nCommands + 1
  /\ status' = [status EXCEPT ![nCommands + 1] = "pending"]
  /\ cmdNode' = [cmdNode EXCEPT ![nCommands + 1] = n]
  /\ cmdEvent' = [cmdEvent EXCEPT ![nCommands + 1] = e]
  /\ cmdLang' = [cmdLang EXCEPT ![nCommands + 1] = l]

\* queue_command(): an administrator's voice scan, installation or test broadcast.
QueueCommand(n) ==
  /\ Create(n, None, None)
  /\ UNCHANGED <<timeVars, worldVars, askVars, netVars, agentVars, ran, crashes>>

\* The first half of enqueue_event_broadcast(), before the write lock: `now` is
\* taken, and with it which of the commands there are have cooled down.
AskBroadcast(r, e) ==
  /\ askEvent[r] = None
  /\ askEvent' = [askEvent EXCEPT ![r] = e]
  /\ askOver' = [askOver EXCEPT ![r] = (1 .. nCommands) \ cooling]
  /\ UNCHANGED <<rowVars, status, timeVars, worldVars, netVars, agentVars, ran, crashes>>

\* Mutant: an event that is reviewed or merged already is not looked at.
NotEvenOpen(e) == TRUE
StillOpen(e) == e \in open

\* Mutant: a request counts only until its command is over.
RequestedNow(n, e) ==
  \E c \in Command : cmdNode[c] = n /\ cmdEvent[c] = e /\ status[c] \in {"pending", "claimed"}
AlreadyRequested(n, e) == \E c \in Command : cmdNode[c] = n /\ cmdEvent[c] = e

\* cooldown_key: node, PPE type, zone and language.
SameKey(c, n, e, l) == /\ cmdEvent[c] # None
                       /\ cmdNode[c] = n
                       /\ KindOf[cmdEvent[c]] = KindOf[e]
                       /\ cmdLang[c] = l

\* Mutant: only warnings that were carried out start a cooldown.
CooledDownUnlessExpired(r, n, e, l) ==
  \A c \in Command : SameKey(c, n, e, l) /\ status[c] # "expired" => c \in askOver[r]
\* now - MAX(created_at) against the cooldown: what was created since is too young.
CooledDown(r, n, e, l) == \A c \in Command : SameKey(c, n, e, l) => c \in askOver[r]

\* The transaction of enqueue_event_broadcast().  The language is the node's, which
\* the transaction reads, or the default, which was read before; administrators
\* change both at any time (select_voice(), the broadcast settings), so it is any.
Enqueue(r, e, n) ==
  /\ StillOpen(e)
  /\ output[e] = n /\ n \in online
  /\ ~AlreadyRequested(n, e)
  /\ \E l \in Language : CooledDown(r, n, e, l) /\ Create(n, e, l)
  /\ cooling' = cooling \cup {nCommands + 1}

\* Disabled broadcasts and missing templates are among the refusals, and so is the
\* end of the API process.
QueueBroadcast(r) ==
  /\ askEvent[r] # None
  /\ \/ \E n \in Node : Enqueue(r, askEvent[r], n)
     \/ UNCHANGED <<rowVars, status, cooling>>
  /\ askEvent' = [askEvent EXCEPT ![r] = None]
  /\ askOver' = [askOver EXCEPT ![r] = {}]
  /\ UNCHANGED <<late, overdue, worldVars, netVars, agentVars, ran, crashes>>

\* A review is recorded, or the event is merged into another.
CloseEvent(e) ==
  /\ e \in open
  /\ open' = open \ {e}
  /\ UNCHANGED <<rowVars, status, timeVars, output, online, askVars, netVars, agentVars,
                 ran, crashes>>

LinkCamera(e, n) ==
  /\ output[e] # n
  /\ output' = [output EXCEPT ![e] = n]
  /\ UNCHANGED <<rowVars, status, timeVars, open, online, askVars, netVars, agentVars,
                 ran, crashes>>

-----------------------------------------------------------------------------
\* claim_command() for a node: one transaction.

\* Mutants: whatever is late expires; whatever was claimed long ago becomes unknown.
ExpiredAnyStatus(n) == {c \in late : cmdNode[c] = n}
UncertainAnyStatus(n) == {c \in overdue : cmdNode[c] = n}

Waiting(n)   == {c \in Command : cmdNode[c] = n /\ status[c] = "pending" /\ c \notin late}
Expired(n)   == {c \in late : cmdNode[c] = n /\ status[c] = "pending"}
Uncertain(n) == {c \in overdue : cmdNode[c] = n /\ status[c] = "claimed"}
Oldest(n)    == {c \in Waiting(n) : \A d \in Waiting(n) : c <= d}

\* `got` is the command handed out, NoCommand if there is none.
ServeClaim(n, got) ==
  /\ IF Waiting(n) = {} THEN got = NoCommand ELSE got \in Oldest(n)
  /\ status' = [c \in Command |->
                  IF c = got               THEN "claimed"
                  ELSE IF c \in Expired(n)   THEN "expired"
                  ELSE IF c \in Uncertain(n) THEN "unknown"
                  ELSE status[c]]

Awaiting(c) == status[c] \in {"claimed", "unknown"}

\* report(): the answer is ok or a refusal; the agent treats both alike.
ServeReport(c, result) ==
  status' = IF Awaiting(c) THEN [status EXCEPT ![c] = result] ELSE status

-----------------------------------------------------------------------------
\* The agent's loop.  It claims only when its state file is empty.

\* Mutant: a restarted agent takes what it had not finished for skipped.
RecoveredSkipped(s) == IF s = "started" THEN "skipped" ELSE s
\* A crash may have happened after speaking.
Recovered(s) == IF s = "started" THEN "failed" ELSE s

\* Mutant: a restarted agent goes on with the command it had begun.
StartAgain(n) ==
  /\ task[n] = "down"
  /\ task' = [task EXCEPT ![n] = IF jstat[n] = "started" THEN "queued" ELSE "idle"]
  /\ UNCHANGED <<rowVars, status, timeVars, worldVars, askVars, netVars, jcmd, jstat, ran,
                 crashes>>

Start(n) ==
  /\ task[n] = "down"
  /\ task' = [task EXCEPT ![n] = "idle"]
  /\ jstat' = [jstat EXCEPT ![n] = Recovered(@)]
  /\ UNCHANGED <<rowVars, status, timeVars, worldVars, askVars, netVars, jcmd, ran, crashes>>

Heartbeat(n) ==
  /\ task[n] # "down"
  /\ n \notin online
  /\ online' = online \cup {n}
  /\ UNCHANGED <<rowVars, status, timeVars, open, output, askVars, netVars, agentVars,
                 ran, crashes>>

MayClaim(n) == task[n] = "idle" /\ jstat[n] = "none"

\* The answer arrives; the record is in the state file before execution begins.
Claim(n) ==
  /\ MayClaim(n)
  /\ \E got \in Command \cup {NoCommand} :
       /\ ServeClaim(n, got)
       /\ IF got = NoCommand
          THEN UNCHANGED agentVars
          ELSE /\ jcmd' = [jcmd EXCEPT ![n] = got]
               /\ jstat' = [jstat EXCEPT ![n] = "started"]
               /\ task' = [task EXCEPT ![n] = "queued"]
  /\ UNCHANGED <<rowVars, timeVars, worldVars, askVars, netVars, ran, crashes>>

\* The agent gives up on a claim; the server serves it now or much later.
GiveUpClaim(n) ==
  /\ MayClaim(n)
  /\ n \notin stray
  /\ stray' = stray \cup {n}
  /\ UNCHANGED <<rowVars, status, timeVars, worldVars, askVars, sent, agentVars, ran, crashes>>

ServeStrayClaim(n) ==
  /\ n \in stray
  /\ stray' = stray \ {n}
  /\ \E got \in Command \cup {NoCommand} : ServeClaim(n, got)
  /\ UNCHANGED <<rowVars, timeVars, worldVars, askVars, sent, agentVars, ran, crashes>>

\* execute(): an expired command is skipped, any other is carried out.
BeginExecution(n) ==
  /\ task[n] = "queued"
  /\ IF jcmd[n] \in late
     THEN /\ task' = [task EXCEPT ![n] = "idle"]
          /\ jstat' = [jstat EXCEPT ![n] = "skipped"]
          /\ UNCHANGED ran
     ELSE /\ task' = [task EXCEPT ![n] = "running"]
          /\ ran' = [ran EXCEPT ![jcmd[n]] = @ + 1]
          /\ UNCHANGED jstat
  /\ UNCHANGED <<rowVars, status, timeVars, worldVars, askVars, netVars, jcmd, crashes>>

Outcomes == {"completed", "failed"}

\* The task is done, and the loop saves its result.
EndExecution(n) ==
  /\ task[n] = "running"
  /\ task' = [task EXCEPT ![n] = "idle"]
  /\ \E o \in Outcomes : jstat' = [jstat EXCEPT ![n] = o]
  /\ UNCHANGED <<rowVars, status, timeVars, worldVars, askVars, netVars, jcmd, ran, crashes>>

MayReport(n) == task[n] = "idle" /\ jstat[n] # "none"

\* Put the result, and forget it once the server has answered.
Report(n) ==
  /\ MayReport(n)
  /\ sent' = sent \cup {<<jcmd[n], jstat[n]>>}
  /\ ServeReport(jcmd[n], jstat[n])
  /\ jcmd' = [jcmd EXCEPT ![n] = NoCommand]
  /\ jstat' = [jstat EXCEPT ![n] = "none"]
  /\ UNCHANGED <<rowVars, timeVars, worldVars, askVars, stray, task, ran, crashes>>

GiveUpReport(n) ==
  /\ MayReport(n)
  /\ sent' = sent \cup {<<jcmd[n], jstat[n]>>}
  /\ UNCHANGED <<rowVars, status, timeVars, worldVars, askVars, stray, agentVars, ran, crashes>>

\* A result the agent has given up on, or a duplicate, reaches the server.
ServeStrayReport(c, result) ==
  /\ <<c, result>> \in sent
  /\ ServeReport(c, result)
  /\ UNCHANGED <<rowVars, timeVars, worldVars, askVars, netVars, agentVars, ran, crashes>>

\* The state file stays as it was saved last.
Crash(n) ==
  /\ crashes < MaxCrashes
  /\ task[n] # "down"
  /\ crashes' = crashes + 1
  /\ task' = [task EXCEPT ![n] = "down"]
  /\ UNCHANGED <<rowVars, status, timeVars, worldVars, askVars, netVars, jcmd, jstat, ran>>

-----------------------------------------------------------------------------
\* Time.

BecomeLate(c) ==
  /\ status[c] \in {"pending", "claimed", "unknown"} /\ c \notin late
  /\ late' = late \cup {c}
  /\ UNCHANGED <<rowVars, status, overdue, cooling, worldVars, askVars, netVars, agentVars,
                 ran, crashes>>

BecomeOverdue(c) ==
  /\ status[c] = "claimed" /\ c \notin overdue
  /\ overdue' = overdue \cup {c}
  /\ UNCHANGED <<rowVars, status, late, cooling, worldVars, askVars, netVars, agentVars,
                 ran, crashes>>

CoolDown(c) ==
  /\ c \in cooling
  /\ cooling' = cooling \ {c}
  /\ UNCHANGED <<rowVars, status, late, overdue, worldVars, askVars, netVars, agentVars,
                 ran, crashes>>

GoOffline(n) ==
  /\ n \in online
  /\ online' = online \ {n}
  /\ UNCHANGED <<rowVars, status, timeVars, open, output, askVars, netVars, agentVars,
                 ran, crashes>>

-----------------------------------------------------------------------------
Administrate ==
  \/ \E e \in Event : CloseEvent(e) \/ \E n \in Node : LinkCamera(e, n)
  \/ \E n \in Node : QueueCommand(n)

AgentStep(n) ==
  \/ Start(n) \/ Heartbeat(n) \/ Claim(n) \/ GiveUpClaim(n)
  \/ BeginExecution(n) \/ EndExecution(n) \/ Report(n) \/ GiveUpReport(n)

TimePasses(c) == BecomeLate(c) \/ BecomeOverdue(c) \/ CoolDown(c)

Next ==
  \/ Administrate
  \/ \E r \in Request : QueueBroadcast(r) \/ \E e \in Event : AskBroadcast(r, e)
  \/ \E n \in Node : AgentStep(n) \/ ServeStrayClaim(n) \/ GoOffline(n) \/ Crash(n)
  \/ \E c \in Command : TimePasses(c) \/ \E result \in Result : ServeStrayReport(c, result)

Spec == Init /\ [][Next]_vars

\* The loop of an agent that is not killed goes on, a request repeated every round
\* is answered at some round, and time passes.  Nobody has to start an agent again.
Fairness ==
  /\ \A n \in Node : /\ WF_vars(Claim(n)) /\ WF_vars(Report(n))
                     /\ WF_vars(BeginExecution(n)) /\ WF_vars(EndExecution(n))
  /\ \A c \in Command : WF_vars(BecomeLate(c)) /\ WF_vars(BecomeOverdue(c))

FairSpec == Spec /\ Fairness

-----------------------------------------------------------------------------
\* Safety.

\* A command is executed at most once, whatever answers are lost and wherever the
\* agent is killed: no warning sounds twice.
AtMostOnce == \A c \in Command : ran[c] <= 1

\* What the server shows an administrator is what happened at the speaker: nothing
\* that waits or has expired was ever carried out, nothing skipped was, and what
\* is completed was.
RowTellsTheTruth ==
  \A c \in Command :
    /\ status[c] \in {"none", "pending", "expired", "skipped"} => ran[c] = 0
    /\ status[c] = "completed" => ran[c] = 1

\* An event is broadcast by a node once, however often and by whomever its
\* broadcast is requested, and whatever became of the first command.
OneBroadcastPerEvent ==
  \A c, d \in Command :
    cmdEvent[c] # None /\ cmdEvent[c] = cmdEvent[d] /\ cmdNode[c] = cmdNode[d] => c = d

\* Within the cooldown a node is given one warning of a kind in one language,
\* although requests take the time before they wait for the write lock.  (After a
\* change of the language the same warning may be given again at once.)
OneWarningPerCooldown ==
  \A c, d \in cooling :
    /\ cmdNode[c] = cmdNode[d] /\ cmdLang[c] = cmdLang[d]
    /\ KindOf[cmdEvent[c]] = KindOf[cmdEvent[d]]
    => c = d

\* No broadcast of an event is queued once it is reviewed or merged, not even by a
\* request that had begun before.
QueuedWhileOpen ==
  \A e \in Event \ open : \A c \in Command : cmdEvent'[c] = e => cmdEvent[c] = e
NoWarningAfterReview == [][QueuedWhileOpen]_vars

\* A result, or an expiry, is final: retries, late duplicates and the half-hour
\* rule never change it; and what was handed out never waits again.
ResultsKept ==
  \A c \in Command :
    /\ status[c] \in Final => status'[c] = status[c]
    /\ status[c] \in {"claimed", "unknown"} => status'[c] # "pending"
OneResult == [][ResultsKept]_vars

-----------------------------------------------------------------------------
\* Refinement.

\* Where a command is in its delivery.
stage ==
  [c \in Command |-> IF ran[c] > 0 THEN "executed"
                     ELSE IF status[c] = "none" THEN "new"
                     ELSE IF status[c] = "pending" THEN "waiting"
                     ELSE IF status[c] = "expired" THEN "dropped"
                     ELSE "given"]

D == INSTANCE Delivery

\* Seen from the queue's user, server, agent and network together are a queue that
\* executes a command at most once, and none it has dropped.
Delivers == D!Spec

-----------------------------------------------------------------------------
\* The inductive invariant behind the safety properties.

\* Rows are created in order and carry nothing before.
RowsInOrder ==
  \A c \in Command :
    IF c > nCommands
    THEN /\ status[c] = "none" /\ ran[c] = 0
         /\ cmdNode[c] = None /\ cmdEvent[c] = None /\ c \notin cooling
         /\ \A r \in Request : c \notin askOver[r]
    ELSE status[c] # "none" /\ cmdNode[c] \in Node

\* A record in a state file is of a command that was handed out to that node.
JournalIsClaimed ==
  \A n \in Node : jstat[n] # "none" =>
    /\ jcmd[n] \in Command
    /\ cmdNode[jcmd[n]] = n
    /\ status[jcmd[n]] \notin {"none", "pending", "expired"}

\* What has left for the server was handed out, and it is never started again.
SentIsSettled ==
  \A c \in Command, result \in Result : <<c, result>> \in sent =>
    /\ status[c] \notin {"none", "pending", "expired"}
    /\ \A n \in Node : jstat[n] = "started" => jcmd[n] # c
    /\ result = "completed" => ran[c] = 1
    /\ result = "skipped" => ran[c] = 0

\* How often a command in a state file has been executed.
JournalTellsTheTruth ==
  \A n \in Node :
    /\ task[n] \in {"queued", "running"} => jstat[n] = "started"
    /\ task[n] = "idle" => jstat[n] # "started"
    /\ task[n] = "queued" => ran[jcmd[n]] = 0
    /\ task[n] = "running" => ran[jcmd[n]] = 1
    /\ jstat[n] = "completed" => ran[jcmd[n]] = 1
    /\ jstat[n] = "skipped" => ran[jcmd[n]] = 0

\* A result in a row has been sent.
RowWasSent ==
  \A c \in Command : status[c] \in Result => <<c, status[c]>> \in sent

\* A command that waits or has expired has not been executed.
UnclaimedNotRun ==
  \A c \in Command : status[c] \in {"none", "pending", "expired"} => ran[c] = 0

\* What cools down is a broadcast, and no request in progress takes it for cooled.
CoolingIsBroadcast ==
  \A c \in cooling : cmdEvent[c] \in Event /\ \A r \in Request : c \notin askOver[r]

Inv ==
  /\ TypeOK
  /\ RowsInOrder /\ JournalIsClaimed /\ SentIsSettled /\ JournalTellsTheTruth
  /\ RowWasSent /\ UnclaimedNotRun /\ AtMostOnce
  /\ OneBroadcastPerEvent /\ CoolingIsBroadcast /\ OneWarningPerCooldown

-----------------------------------------------------------------------------
\* Liveness.

\* "A claimed command whose field program ended is not replayed.  Without a result
\* it is shown as unknown" (docs/20261003_Auth_Broadcast_Setup.md:124).
UnknownWithoutResult == \A c \in Command : status[c] = "claimed" ~> status[c] # "claimed"
=============================================================================
