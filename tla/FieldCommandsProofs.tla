------------------------ MODULE FieldCommandsProofs ------------------------
(***************************************************************************)
(* Proofs about FieldCommands: its inductive invariant, and the safety     *)
(* properties that follow from it, for all events, nodes, requests and     *)
(* bounds.                                                                 *)
(***************************************************************************)
EXTENDS FieldCommands, TLAPS

\* The rows a claim changes: the command handed out was waiting, and nothing else
\* changes but what waits and is too late, or is claimed and overdue.
LEMMA ServeClaimEffect ==
  ASSUME TypeOK, NEW n \in Node, NEW got, ServeClaim(n, got)
  PROVE  /\ status' \in [Command -> Status]
         /\ got \in Command \cup {NoCommand}
         /\ got \in Command => /\ status[got] = "pending" /\ status'[got] = "claimed"
                               /\ cmdNode[got] = n
         /\ \A c \in Command \ {got} :
              \/ status'[c] = status[c]
              \/ status[c] = "pending" /\ status'[c] = "expired"
              \/ status[c] = "claimed" /\ status'[c] = "unknown"
PROOF
  <1>1. status' \in [Command -> Status]
    BY DEF ServeClaim, TypeOK, Status
  <1>2. got = NoCommand \/ got \in Waiting(n)
    BY DEF ServeClaim, Oldest
  <1>3. NoCommand \notin Command
    BY BoundsAssumption DEF NoCommand, Command
  <1>4. got \in Waiting(n) => /\ got \in Command
                              /\ status[got] = "pending" /\ status'[got] = "claimed"
                              /\ cmdNode[got] = n
    BY DEF ServeClaim, Waiting
  <1>5. ASSUME NEW c \in Command, c # got
        PROVE  \/ status'[c] = status[c]
               \/ status[c] = "pending" /\ status'[c] = "expired"
               \/ status[c] = "claimed" /\ status'[c] = "unknown"
    BY <1>5 DEF ServeClaim, Expired, Uncertain
  <1> QED
    BY <1>1, <1>2, <1>3, <1>4, <1>5

\* A report changes one row, and only one that awaits a result.
LEMMA ServeReportEffect ==
  ASSUME TypeOK, NEW c \in Command, NEW result \in Result, ServeReport(c, result)
  PROVE  /\ status' \in [Command -> Status]
         /\ \A d \in Command : \/ status'[d] = status[d]
                               \/ /\ d = c /\ status'[d] = result
                                  /\ result \notin {"none", "pending", "expired"}
                                  /\ status[d] \in {"claimed", "unknown"}
PROOF
  BY DEF ServeReport, Awaiting, TypeOK, Status, Result

\* A new row is the next one, and the only one that changes.
LEMMA CreateEffect ==
  ASSUME Inv, NEW n \in Node, NEW e \in Event \cup {None}, NEW l \in Language \cup {None},
         Create(n, e, l)
  PROVE  /\ nCommands + 1 \in Command /\ nCommands' = nCommands + 1
         /\ nCommands' \in 0 .. MaxCommands
         /\ status[nCommands + 1] = "none" /\ ran[nCommands + 1] = 0
         /\ nCommands + 1 \notin cooling
         /\ \A r \in Request : nCommands + 1 \notin askOver[r]
         /\ \A c \in Command : c > nCommands' <=> c > nCommands /\ c # nCommands + 1
         /\ status' \in [Command -> Status]
         /\ cmdNode' \in [Command -> Node \cup {None}]
         /\ cmdEvent' \in [Command -> Event \cup {None}]
         /\ cmdLang' \in [Command -> Language \cup {None}]
         /\ status'[nCommands + 1] = "pending"
         /\ cmdNode'[nCommands + 1] = n /\ cmdEvent'[nCommands + 1] = e
         /\ cmdLang'[nCommands + 1] = l
         /\ \A c \in Command \ {nCommands + 1} :
              /\ status'[c] = status[c] /\ cmdNode'[c] = cmdNode[c]
              /\ cmdEvent'[c] = cmdEvent[c] /\ cmdLang'[c] = cmdLang[c]
PROOF
  <1>1. nCommands + 1 \in Command /\ nCommands' = nCommands + 1
        /\ nCommands' \in 0 .. MaxCommands
        /\ \A c \in Command : c > nCommands' <=> c > nCommands /\ c # nCommands + 1
    BY BoundsAssumption DEF Inv, TypeOK, Create, Command
  <1>2. nCommands + 1 > nCommands
    BY DEF Inv, TypeOK
  <1>3. /\ status[nCommands + 1] = "none" /\ ran[nCommands + 1] = 0
        /\ nCommands + 1 \notin cooling
        /\ \A r \in Request : nCommands + 1 \notin askOver[r]
    BY <1>1, <1>2 DEF Inv, RowsInOrder
  <1> QED
    BY <1>1, <1>3 DEF Inv, TypeOK, Create, Status

\* A record that is reported is of an execution that is over.
LEMMA ReportedRecord ==
  ASSUME Inv, NEW n \in Node, MayReport(n)
  PROVE  /\ jcmd[n] \in Command /\ jstat[n] \in Result
         /\ status[jcmd[n]] \notin {"none", "pending", "expired"}
         /\ \A m \in Node : jstat[m] = "started" => jcmd[m] # jcmd[n]
         /\ jstat[n] = "completed" => ran[jcmd[n]] = 1
         /\ jstat[n] = "skipped" => ran[jcmd[n]] = 0
PROOF
  <1>1. jstat[n] \in Result
    BY DEF Inv, TypeOK, JournalTellsTheTruth, MayReport, JournalStatus
  <1>2. ASSUME NEW m \in Node, jstat[m] = "started"
        PROVE  jcmd[m] # jcmd[n]
    BY <1>1, <1>2 DEF Inv, JournalIsClaimed, Result, MayReport
  <1> QED
    BY <1>1, <1>2 DEF Inv, JournalIsClaimed, JournalTellsTheTruth, MayReport

\* What begins to be executed has never been executed, nor reported.
LEMMA BegunRecord ==
  ASSUME Inv, NEW n \in Node, BeginExecution(n)
  PROVE  /\ jcmd[n] \in Command /\ ran[jcmd[n]] = 0
         /\ status[jcmd[n]] \in {"claimed", "unknown"}
         /\ \A result \in Result : <<jcmd[n], result>> \notin sent
         /\ \A m \in Node \ {n} : jstat[m] # "none" => jcmd[m] # jcmd[n]
         /\ ran' \in [Command -> Nat] /\ ran'[jcmd[n]] \in {0, 1}
         /\ \A c \in Command \ {jcmd[n]} : ran'[c] = ran[c]
PROOF
  <1>1. /\ task[n] = "queued" /\ jstat[n] = "started"
        /\ jcmd[n] \in Command /\ cmdNode[jcmd[n]] = n /\ ran[jcmd[n]] = 0
    BY DEF Inv, BeginExecution, JournalTellsTheTruth, JournalIsClaimed
  <1>2. \A result \in Result : <<jcmd[n], result>> \notin sent
    BY <1>1 DEF Inv, SentIsSettled
  <1>3. status[jcmd[n]] \in {"claimed", "unknown"}
    BY <1>1, <1>2 DEF Inv, TypeOK, RowWasSent, JournalIsClaimed, Status, Result
  <1>4. ASSUME NEW m \in Node \ {n}, jstat[m] # "none"
        PROVE  jcmd[m] # jcmd[n]
    BY <1>1, <1>4 DEF Inv, JournalIsClaimed
  <1>5. /\ ran' \in [Command -> Nat] /\ ran'[jcmd[n]] \in {0, 1}
        /\ \A c \in Command \ {jcmd[n]} : ran'[c] = ran[c]
    BY <1>1 DEF Inv, TypeOK, BeginExecution
  <1> QED
    BY <1>1, <1>2, <1>3, <1>4, <1>5

\* Every proof below looks into the tuples of variables.
USE DEF rowVars, timeVars, worldVars, askVars, netVars, agentVars, vars

\* The steps that neither queue, claim, execute nor report.
QuietStep ==
  \/ \E e \in Event : CloseEvent(e) \/ \E n \in Node : LinkCamera(e, n)
  \/ \E n \in Node : Heartbeat(n) \/ GiveUpClaim(n) \/ GoOffline(n)
  \/ \E c \in Command : BecomeLate(c) \/ BecomeOverdue(c)
  \/ UNCHANGED vars

\* What they leave alone.
LEMMA QuietEffect ==
  ASSUME TypeOK, QuietStep
  PROVE  /\ UNCHANGED <<rowVars, status, cooling, askVars, sent, agentVars, ran, crashes>>
         /\ late' \in SUBSET Command /\ overdue' \in SUBSET Command
         /\ open' \in SUBSET Event /\ open' \subseteq open
         /\ output' \in [Event -> Node \cup {None}] /\ online' \in SUBSET Node
         /\ stray' \in SUBSET Node
PROOF
  BY DEF QuietStep, CloseEvent, LinkCamera, Heartbeat, GiveUpClaim, GoOffline, BecomeLate,
         BecomeOverdue, TypeOK

\* Every step is one of these.
LEMMA StepCases ==
  ASSUME [Next]_vars
  PROVE  \/ QuietStep
         \/ \E n \in Node : QueueCommand(n)
         \/ \E r \in Request, e \in Event : AskBroadcast(r, e)
         \/ \E r \in Request : QueueBroadcast(r)
         \/ \E n \in Node : \/ Claim(n) \/ ServeStrayClaim(n) \/ Start(n)
                            \/ BeginExecution(n) \/ EndExecution(n)
                            \/ Report(n) \/ GiveUpReport(n) \/ Crash(n)
         \/ \E c \in Command, result \in Result : ServeStrayReport(c, result)
         \/ \E c \in Command : CoolDown(c)
PROOF
  BY DEF Next, Administrate, AgentStep, TimePasses, QuietStep

\* Type correctness is kept.
LEMMA TypeOKStep ==
  ASSUME Inv, [Next]_vars
  PROVE  TypeOK'
PROOF
  <1>1. ASSUME NEW n \in Node, QueueCommand(n)
        PROVE  TypeOK'
    BY <1>1, CreateEffect, NoneAssumption
    DEF QueueCommand, Inv, TypeOK, Task, JournalStatus, Status, Result
  <1>2. ASSUME NEW r \in Request, NEW e \in Event, AskBroadcast(r, e)
        PROVE  TypeOK'
    <2>1. 1 .. nCommands \subseteq Command
      BY BoundsAssumption DEF Inv, TypeOK, Command
    <2> QED
      BY <1>2, <2>1 DEF AskBroadcast, Inv, TypeOK
  <1>3. ASSUME NEW r \in Request, QueueBroadcast(r)
        PROVE  TypeOK'
    <2>0. askEvent[r] \in Event
      BY <1>3 DEF QueueBroadcast, Inv, TypeOK
    <2>1. CASE UNCHANGED <<rowVars, status, cooling>>
      BY <1>3, <2>1 DEF QueueBroadcast, Inv, TypeOK, Task, JournalStatus, Status, Result
    <2>2. ASSUME NEW n \in Node, Enqueue(r, askEvent[r], n)
          PROVE  TypeOK'
      BY <1>3, <2>0, <2>2, CreateEffect, NoneAssumption
      DEF QueueBroadcast, Enqueue, Inv, TypeOK, Task, JournalStatus, Status, Result
    <2> QED
      BY <1>3, <2>1, <2>2 DEF QueueBroadcast
  <1>4. ASSUME NEW n \in Node, Claim(n)
        PROVE  TypeOK'
    <2>1. PICK got \in Command \cup {NoCommand} :
            /\ ServeClaim(n, got)
            /\ IF got = NoCommand
               THEN UNCHANGED agentVars
               ELSE /\ jcmd' = [jcmd EXCEPT ![n] = got]
                    /\ jstat' = [jstat EXCEPT ![n] = "started"]
                    /\ task' = [task EXCEPT ![n] = "queued"]
      BY <1>4 DEF Claim
    <2>2. status' \in [Command -> Status]
      BY <2>1, ServeClaimEffect DEF Inv
    <2>3. /\ jcmd' \in [Node -> Command \cup {NoCommand}]
          /\ jstat' \in [Node -> JournalStatus] /\ task' \in [Node -> Task]
      BY <2>1 DEF Inv, TypeOK, JournalStatus, Task, agentVars
    <2> QED
      BY <1>4, <2>2, <2>3 DEF Claim, Inv, TypeOK
  <1>5. ASSUME NEW n \in Node, ServeStrayClaim(n)
        PROVE  TypeOK'
    BY <1>5, ServeClaimEffect
    DEF ServeStrayClaim, Inv, TypeOK, Task, JournalStatus, Status, Result
  <1>6. ASSUME NEW n \in Node, Start(n)
        PROVE  TypeOK'
    BY <1>6
    DEF Start, Recovered, Inv, TypeOK, Task, JournalStatus, Status, Result
  <1>7. ASSUME NEW n \in Node, BeginExecution(n)
        PROVE  TypeOK'
    <2>1. jstat' \in [Node -> JournalStatus] /\ task' \in [Node -> Task]
      BY <1>7 DEF BeginExecution, Inv, TypeOK, JournalStatus, Result, Task
    <2> QED
      BY <1>7, <2>1, BegunRecord DEF BeginExecution, Inv, TypeOK
  <1>8. ASSUME NEW n \in Node, EndExecution(n)
        PROVE  TypeOK'
    BY <1>8
    DEF EndExecution, Outcomes, Inv, TypeOK, Task, JournalStatus, Status, Result
  <1>9. ASSUME NEW n \in Node, Report(n)
        PROVE  TypeOK'
    <2>1. status' \in [Command -> Status]
      BY <1>9, ReportedRecord, ServeReportEffect DEF Report, Inv
    <2>2. sent' \in SUBSET (Command \X Result)
      BY <1>9, ReportedRecord DEF Report, Inv, TypeOK
    <2> QED
      BY <1>9, <2>1, <2>2 DEF Report, Inv, TypeOK, JournalStatus
  <1>10. ASSUME NEW n \in Node, GiveUpReport(n)
        PROVE  TypeOK'
    BY <1>10, ReportedRecord
    DEF GiveUpReport, MayReport, Inv, TypeOK, Task, JournalStatus, Status, Result
  <1>11. ASSUME NEW c \in Command, NEW result \in Result, ServeStrayReport(c, result)
        PROVE  TypeOK'
    BY <1>11, ServeReportEffect
    DEF ServeStrayReport, Inv, TypeOK, Task, JournalStatus, Status, Result
  <1>12. ASSUME NEW n \in Node, Crash(n)
        PROVE  TypeOK'
    <2>1. crashes' \in 0 .. MaxCrashes
      BY <1>12, BoundsAssumption DEF Crash, Inv, TypeOK
    <2> QED
      BY <1>12, <2>1 DEF Crash, Inv, TypeOK, Task
  <1>13. ASSUME NEW c \in Command, CoolDown(c)
        PROVE  TypeOK'
    BY <1>13
    DEF CoolDown, Inv, TypeOK, Task, JournalStatus, Status, Result
  <1>14. CASE QuietStep
    BY <1>14, QuietEffect
    DEF Inv, TypeOK, Task, JournalStatus, Status, Result
  <1> QED
    BY StepCases, <1>1, <1>2, <1>3, <1>4, <1>5, <1>6, <1>7, <1>8, <1>9, <1>10, <1>11,
       <1>12, <1>13, <1>14

\* Rows are created in order and none is filled in before.
LEMMA RowsInOrderStep ==
  ASSUME Inv, [Next]_vars
  PROVE  RowsInOrder'
PROOF
  <1>1. ASSUME NEW n \in Node, QueueCommand(n)
        PROVE  RowsInOrder'
    BY <1>1, CreateEffect, NoneAssumption
    DEF QueueCommand, Inv, RowsInOrder, TypeOK, Status, Result
  <1>2. ASSUME NEW r \in Request, NEW e \in Event, AskBroadcast(r, e)
        PROVE  RowsInOrder'
    <2>1. \A c \in Command : c > nCommands => c \notin 1 .. nCommands
      BY DEF Inv, TypeOK, Command
    <2> QED
      BY <1>2, <2>1 DEF AskBroadcast, Inv, RowsInOrder, TypeOK
  <1>3. ASSUME NEW r \in Request, QueueBroadcast(r)
        PROVE  RowsInOrder'
    <2>0. askEvent[r] \in Event
      BY <1>3 DEF QueueBroadcast, Inv, TypeOK
    <2>1. CASE UNCHANGED <<rowVars, status, cooling>>
      BY <1>3, <2>1 DEF QueueBroadcast, Inv, RowsInOrder, TypeOK, Status, Result
    <2>2. ASSUME NEW n \in Node, Enqueue(r, askEvent[r], n)
          PROVE  RowsInOrder'
      BY <1>3, <2>0, <2>2, CreateEffect, NoneAssumption
      DEF QueueBroadcast, Enqueue, Inv, RowsInOrder, TypeOK, Status, Result
    <2> QED
      BY <1>3, <2>1, <2>2 DEF QueueBroadcast
  <1>4. ASSUME NEW n \in Node, Claim(n)
        PROVE  RowsInOrder'
    BY <1>4, ServeClaimEffect
    DEF Claim, MayClaim, Inv, RowsInOrder, TypeOK, Status, Result
  <1>5. ASSUME NEW n \in Node, ServeStrayClaim(n)
        PROVE  RowsInOrder'
    BY <1>5, ServeClaimEffect
    DEF ServeStrayClaim, Inv, RowsInOrder, TypeOK, Status, Result
  <1>6. ASSUME NEW n \in Node, Start(n)
        PROVE  RowsInOrder'
    BY <1>6
    DEF Start, Recovered, Inv, RowsInOrder, TypeOK, Status, Result
  <1>7. ASSUME NEW n \in Node, BeginExecution(n)
        PROVE  RowsInOrder'
    BY <1>7, BegunRecord
    DEF BeginExecution, Inv, RowsInOrder, TypeOK, Status, Result
  <1>8. ASSUME NEW n \in Node, EndExecution(n)
        PROVE  RowsInOrder'
    BY <1>8
    DEF EndExecution, Outcomes, Inv, RowsInOrder, TypeOK, Status, Result
  <1>9. ASSUME NEW n \in Node, Report(n)
        PROVE  RowsInOrder'
    BY <1>9, ServeReportEffect, ReportedRecord
    DEF Report, MayReport, Inv, RowsInOrder, TypeOK, Status, Result
  <1>10. ASSUME NEW n \in Node, GiveUpReport(n)
        PROVE  RowsInOrder'
    BY <1>10, ReportedRecord
    DEF GiveUpReport, MayReport, Inv, RowsInOrder, TypeOK, Status, Result
  <1>11. ASSUME NEW c \in Command, NEW result \in Result, ServeStrayReport(c, result)
        PROVE  RowsInOrder'
    BY <1>11, ServeReportEffect
    DEF ServeStrayReport, Inv, RowsInOrder, TypeOK, Status, Result
  <1>12. ASSUME NEW n \in Node, Crash(n)
        PROVE  RowsInOrder'
    BY <1>12
    DEF Crash, Inv, RowsInOrder, TypeOK, Status, Result
  <1>13. ASSUME NEW c \in Command, CoolDown(c)
        PROVE  RowsInOrder'
    BY <1>13
    DEF CoolDown, Inv, RowsInOrder, TypeOK, Status, Result
  <1>14. CASE QuietStep
    BY <1>14, QuietEffect
    DEF Inv, RowsInOrder, TypeOK, Status, Result
  <1> QED
    BY StepCases, <1>1, <1>2, <1>3, <1>4, <1>5, <1>6, <1>7, <1>8, <1>9, <1>10, <1>11,
       <1>12, <1>13, <1>14

\* A record is written by a claim and goes with its report.
LEMMA JournalIsClaimedStep ==
  ASSUME Inv, [Next]_vars
  PROVE  JournalIsClaimed'
PROOF
  <1>1. ASSUME NEW n \in Node, QueueCommand(n)
        PROVE  JournalIsClaimed'
    BY <1>1, CreateEffect, NoneAssumption
    DEF QueueCommand, Inv, JournalIsClaimed, JournalTellsTheTruth, TypeOK, Result
  <1>2. ASSUME NEW r \in Request, QueueBroadcast(r)
        PROVE  JournalIsClaimed'
    <2>0. askEvent[r] \in Event
      BY <1>2 DEF QueueBroadcast, Inv, TypeOK
    <2>1. CASE UNCHANGED <<rowVars, status, cooling>>
      BY <1>2, <2>1
      DEF QueueBroadcast, Inv, JournalIsClaimed, JournalTellsTheTruth, TypeOK, Result
    <2>2. ASSUME NEW n \in Node, Enqueue(r, askEvent[r], n)
          PROVE  JournalIsClaimed'
      BY <1>2, <2>0, <2>2, CreateEffect, NoneAssumption
      DEF QueueBroadcast, Enqueue, Inv, JournalIsClaimed, JournalTellsTheTruth,
          TypeOK, Result
    <2> QED
      BY <1>2, <2>1, <2>2 DEF QueueBroadcast
  <1>3. ASSUME NEW n \in Node, Claim(n)
        PROVE  JournalIsClaimed'
    BY <1>3, ServeClaimEffect
    DEF Claim, MayClaim, Inv, JournalIsClaimed, JournalTellsTheTruth, TypeOK, Result
  <1>4. ASSUME NEW n \in Node, ServeStrayClaim(n)
        PROVE  JournalIsClaimed'
    BY <1>4, ServeClaimEffect
    DEF ServeStrayClaim, Inv, JournalIsClaimed, JournalTellsTheTruth, TypeOK, Result
  <1>5. ASSUME NEW n \in Node, Start(n)
        PROVE  JournalIsClaimed'
    BY <1>5
    DEF Start, Recovered, Inv, JournalIsClaimed, JournalTellsTheTruth, TypeOK, Result
  <1>6. ASSUME NEW n \in Node, BeginExecution(n)
        PROVE  JournalIsClaimed'
    BY <1>6, BegunRecord
    DEF BeginExecution, Inv, JournalIsClaimed, JournalTellsTheTruth, TypeOK, Result
  <1>7. ASSUME NEW n \in Node, EndExecution(n)
        PROVE  JournalIsClaimed'
    BY <1>7
    DEF EndExecution, Outcomes, Inv, JournalIsClaimed, JournalTellsTheTruth, TypeOK, Result
  <1>8. ASSUME NEW n \in Node, Report(n)
        PROVE  JournalIsClaimed'
    BY <1>8, ServeReportEffect, ReportedRecord
    DEF Report, MayReport, Inv, JournalIsClaimed, JournalTellsTheTruth, TypeOK, Result
  <1>9. ASSUME NEW c \in Command, NEW result \in Result, ServeStrayReport(c, result)
        PROVE  JournalIsClaimed'
    BY <1>9, ServeReportEffect
    DEF ServeStrayReport, Inv, JournalIsClaimed, JournalTellsTheTruth, TypeOK, Result
  <1>10. CASE UNCHANGED <<rowVars, status, jcmd, jstat>>
    BY <1>10 DEF Inv, JournalIsClaimed
  <1> QED
    BY StepCases, QuietEffect, <1>1, <1>2, <1>3, <1>4, <1>5, <1>6, <1>7, <1>8, <1>9, <1>10
    DEF Inv, AskBroadcast, GiveUpReport, Crash, CoolDown

\* Only what has been executed, or never will be, is sent.
LEMMA SentIsSettledStep ==
  ASSUME Inv, [Next]_vars
  PROVE  SentIsSettled'
PROOF
  <1>1. ASSUME NEW n \in Node, QueueCommand(n)
        PROVE  SentIsSettled'
    BY <1>1, CreateEffect, NoneAssumption
    DEF QueueCommand, Inv, SentIsSettled, TypeOK
  <1>2. ASSUME NEW r \in Request, QueueBroadcast(r)
        PROVE  SentIsSettled'
    <2>0. askEvent[r] \in Event
      BY <1>2 DEF QueueBroadcast, Inv, TypeOK
    <2>1. CASE UNCHANGED <<rowVars, status, cooling>>
      BY <1>2, <2>1 DEF QueueBroadcast, Inv, SentIsSettled, TypeOK
    <2>2. ASSUME NEW n \in Node, Enqueue(r, askEvent[r], n)
          PROVE  SentIsSettled'
      BY <1>2, <2>0, <2>2, CreateEffect, NoneAssumption
      DEF QueueBroadcast, Enqueue, Inv, SentIsSettled, TypeOK
    <2> QED
      BY <1>2, <2>1, <2>2 DEF QueueBroadcast
  <1>3. ASSUME NEW n \in Node, Claim(n)
        PROVE  SentIsSettled'
    BY <1>3, ServeClaimEffect
    DEF Claim, MayClaim, Inv, SentIsSettled, TypeOK
  <1>4. ASSUME NEW n \in Node, ServeStrayClaim(n)
        PROVE  SentIsSettled'
    BY <1>4, ServeClaimEffect
    DEF ServeStrayClaim, Inv, SentIsSettled, TypeOK
  <1>5. ASSUME NEW n \in Node, Start(n)
        PROVE  SentIsSettled'
    BY <1>5
    DEF Start, Recovered, Inv, SentIsSettled, TypeOK
  <1>6. ASSUME NEW n \in Node, BeginExecution(n)
        PROVE  SentIsSettled'
    BY <1>6, BegunRecord
    DEF BeginExecution, Inv, SentIsSettled, TypeOK
  <1>7. ASSUME NEW n \in Node, EndExecution(n)
        PROVE  SentIsSettled'
    BY <1>7
    DEF EndExecution, Outcomes, Inv, SentIsSettled, TypeOK
  <1>8. ASSUME NEW n \in Node, Report(n)
        PROVE  SentIsSettled'
    BY <1>8, ServeReportEffect, ReportedRecord
    DEF Report, MayReport, Inv, SentIsSettled, TypeOK
  <1>9. ASSUME NEW n \in Node, GiveUpReport(n)
        PROVE  SentIsSettled'
    BY <1>9, ReportedRecord
    DEF GiveUpReport, MayReport, Inv, SentIsSettled, TypeOK
  <1>10. ASSUME NEW c \in Command, NEW result \in Result, ServeStrayReport(c, result)
        PROVE  SentIsSettled'
    BY <1>10, ServeReportEffect
    DEF ServeStrayReport, Inv, SentIsSettled, TypeOK
  <1>11. CASE UNCHANGED <<status, sent, jcmd, jstat, ran>>
    BY <1>11 DEF Inv, SentIsSettled
  <1> QED
    BY StepCases, QuietEffect, <1>1, <1>2, <1>3, <1>4, <1>5, <1>6, <1>7, <1>8, <1>9,
       <1>10, <1>11
    DEF Inv, AskBroadcast, Crash, CoolDown

\* The executor counts its runs in the record it works for.
LEMMA JournalTellsTheTruthStep ==
  ASSUME Inv, [Next]_vars
  PROVE  JournalTellsTheTruth'
PROOF
  <1>1. ASSUME NEW n \in Node, Claim(n)
        PROVE  JournalTellsTheTruth'
    BY <1>1, ServeClaimEffect
    DEF Claim, MayClaim, Inv, JournalTellsTheTruth, JournalIsClaimed, UnclaimedNotRun,
        TypeOK
  <1>2. ASSUME NEW n \in Node, Start(n)
        PROVE  JournalTellsTheTruth'
    BY <1>2
    DEF Start, Recovered, Inv, JournalTellsTheTruth, JournalIsClaimed, UnclaimedNotRun,
        TypeOK
  <1>3. ASSUME NEW n \in Node, BeginExecution(n)
        PROVE  JournalTellsTheTruth'
    BY <1>3, BegunRecord
    DEF BeginExecution, Inv, JournalTellsTheTruth, JournalIsClaimed, UnclaimedNotRun, TypeOK
  <1>4. ASSUME NEW n \in Node, EndExecution(n)
        PROVE  JournalTellsTheTruth'
    BY <1>4
    DEF EndExecution, Outcomes, Inv, JournalTellsTheTruth, JournalIsClaimed,
        UnclaimedNotRun, TypeOK
  <1>5. ASSUME NEW n \in Node, Report(n)
        PROVE  JournalTellsTheTruth'
    BY <1>5, ServeReportEffect, ReportedRecord
    DEF Report, MayReport, Inv, JournalTellsTheTruth, JournalIsClaimed, UnclaimedNotRun,
        TypeOK
  <1>6. ASSUME NEW n \in Node, Crash(n)
        PROVE  JournalTellsTheTruth'
    BY <1>6
    DEF Crash, Inv, JournalTellsTheTruth, JournalIsClaimed, UnclaimedNotRun, TypeOK
  <1>7. CASE UNCHANGED <<task, jcmd, jstat, ran>>
    BY <1>7 DEF Inv, JournalTellsTheTruth
  <1> QED
    BY StepCases, QuietEffect, <1>1, <1>2, <1>3, <1>4, <1>5, <1>6, <1>7
    DEF Inv, QueueCommand, Create, AskBroadcast, QueueBroadcast, ServeStrayClaim,
        GiveUpReport, ServeStrayReport, CoolDown

\* Results come to rows from the network alone.
LEMMA RowWasSentStep ==
  ASSUME Inv, [Next]_vars
  PROVE  RowWasSent'
PROOF
  <1>1. ASSUME NEW n \in Node, QueueCommand(n)
        PROVE  RowWasSent'
    BY <1>1, CreateEffect, NoneAssumption
    DEF QueueCommand, Inv, RowWasSent, TypeOK, Result
  <1>2. ASSUME NEW r \in Request, QueueBroadcast(r)
        PROVE  RowWasSent'
    <2>0. askEvent[r] \in Event
      BY <1>2 DEF QueueBroadcast, Inv, TypeOK
    <2>1. CASE UNCHANGED <<rowVars, status, cooling>>
      BY <1>2, <2>1 DEF QueueBroadcast, Inv, RowWasSent, TypeOK, Result
    <2>2. ASSUME NEW n \in Node, Enqueue(r, askEvent[r], n)
          PROVE  RowWasSent'
      BY <1>2, <2>0, <2>2, CreateEffect, NoneAssumption
      DEF QueueBroadcast, Enqueue, Inv, RowWasSent, TypeOK, Result
    <2> QED
      BY <1>2, <2>1, <2>2 DEF QueueBroadcast
  <1>3. ASSUME NEW n \in Node, Claim(n)
        PROVE  RowWasSent'
    BY <1>3, ServeClaimEffect
    DEF Claim, MayClaim, Inv, RowWasSent, TypeOK, Result
  <1>4. ASSUME NEW n \in Node, ServeStrayClaim(n)
        PROVE  RowWasSent'
    BY <1>4, ServeClaimEffect
    DEF ServeStrayClaim, Inv, RowWasSent, TypeOK, Result
  <1>5. ASSUME NEW n \in Node, Report(n)
        PROVE  RowWasSent'
    BY <1>5, ServeReportEffect, ReportedRecord
    DEF Report, MayReport, Inv, RowWasSent, TypeOK, Result
  <1>6. ASSUME NEW n \in Node, GiveUpReport(n)
        PROVE  RowWasSent'
    BY <1>6, ReportedRecord
    DEF GiveUpReport, MayReport, Inv, RowWasSent, TypeOK, Result
  <1>7. ASSUME NEW c \in Command, NEW result \in Result, ServeStrayReport(c, result)
        PROVE  RowWasSent'
    BY <1>7, ServeReportEffect
    DEF ServeStrayReport, Inv, RowWasSent, TypeOK, Result
  <1>8. CASE UNCHANGED <<status, sent>>
    BY <1>8 DEF Inv, RowWasSent
  <1> QED
    BY StepCases, QuietEffect, <1>1, <1>2, <1>3, <1>4, <1>5, <1>6, <1>7, <1>8
    DEF Inv, AskBroadcast, Start, BeginExecution, EndExecution, Crash, CoolDown

\* Nothing but a record of the state file is executed.
LEMMA UnclaimedNotRunStep ==
  ASSUME Inv, [Next]_vars
  PROVE  UnclaimedNotRun'
PROOF
  <1>1. ASSUME NEW n \in Node, QueueCommand(n)
        PROVE  UnclaimedNotRun'
    BY <1>1, CreateEffect, NoneAssumption
    DEF QueueCommand, Inv, UnclaimedNotRun, TypeOK, Result
  <1>2. ASSUME NEW r \in Request, QueueBroadcast(r)
        PROVE  UnclaimedNotRun'
    <2>0. askEvent[r] \in Event
      BY <1>2 DEF QueueBroadcast, Inv, TypeOK
    <2>1. CASE UNCHANGED <<rowVars, status, cooling>>
      BY <1>2, <2>1 DEF QueueBroadcast, Inv, UnclaimedNotRun, TypeOK, Result
    <2>2. ASSUME NEW n \in Node, Enqueue(r, askEvent[r], n)
          PROVE  UnclaimedNotRun'
      BY <1>2, <2>0, <2>2, CreateEffect, NoneAssumption
      DEF QueueBroadcast, Enqueue, Inv, UnclaimedNotRun, TypeOK, Result
    <2> QED
      BY <1>2, <2>1, <2>2 DEF QueueBroadcast
  <1>3. ASSUME NEW n \in Node, Claim(n)
        PROVE  UnclaimedNotRun'
    BY <1>3, ServeClaimEffect
    DEF Claim, MayClaim, Inv, UnclaimedNotRun, TypeOK, Result
  <1>4. ASSUME NEW n \in Node, ServeStrayClaim(n)
        PROVE  UnclaimedNotRun'
    BY <1>4, ServeClaimEffect
    DEF ServeStrayClaim, Inv, UnclaimedNotRun, TypeOK, Result
  <1>5. ASSUME NEW n \in Node, BeginExecution(n)
        PROVE  UnclaimedNotRun'
    BY <1>5, BegunRecord
    DEF BeginExecution, Inv, UnclaimedNotRun, TypeOK, Result
  <1>6. ASSUME NEW n \in Node, Report(n)
        PROVE  UnclaimedNotRun'
    BY <1>6, ServeReportEffect, ReportedRecord
    DEF Report, MayReport, Inv, UnclaimedNotRun, TypeOK, Result
  <1>7. ASSUME NEW c \in Command, NEW result \in Result, ServeStrayReport(c, result)
        PROVE  UnclaimedNotRun'
    BY <1>7, ServeReportEffect
    DEF ServeStrayReport, Inv, UnclaimedNotRun, TypeOK, Result
  <1>8. CASE UNCHANGED <<status, ran>>
    BY <1>8 DEF Inv, UnclaimedNotRun
  <1> QED
    BY StepCases, QuietEffect, <1>1, <1>2, <1>3, <1>4, <1>5, <1>6, <1>7, <1>8
    DEF Inv, AskBroadcast, Start, EndExecution, GiveUpReport, Crash, CoolDown

\* A record is executed once.
LEMMA AtMostOnceStep ==
  ASSUME Inv, [Next]_vars
  PROVE  AtMostOnce'
PROOF
  <1>1. ASSUME NEW n \in Node, BeginExecution(n)
        PROVE  AtMostOnce'
    BY <1>1, BegunRecord
    DEF BeginExecution, Inv, AtMostOnce, TypeOK
  <1>2. CASE UNCHANGED ran
    BY <1>2 DEF Inv, AtMostOnce
  <1> QED
    BY StepCases, QuietEffect, <1>1, <1>2
    DEF Inv, QueueCommand, Create, AskBroadcast, QueueBroadcast, Claim, ServeStrayClaim,
        Start, EndExecution, Report, GiveUpReport, ServeStrayReport, Crash, CoolDown

\* A broadcast is queued when none of its event is there.
LEMMA OneBroadcastPerEventStep ==
  ASSUME Inv, [Next]_vars
  PROVE  OneBroadcastPerEvent'
PROOF
  <1>1. ASSUME NEW n \in Node, QueueCommand(n)
        PROVE  OneBroadcastPerEvent'
    BY <1>1, CreateEffect, NoneAssumption
    DEF QueueCommand, Inv, OneBroadcastPerEvent, RowsInOrder, TypeOK
  <1>2. ASSUME NEW r \in Request, QueueBroadcast(r)
        PROVE  OneBroadcastPerEvent'
    <2>0. askEvent[r] \in Event
      BY <1>2 DEF QueueBroadcast, Inv, TypeOK
    <2>1. CASE UNCHANGED <<rowVars, status, cooling>>
      BY <1>2, <2>1 DEF QueueBroadcast, Inv, OneBroadcastPerEvent, RowsInOrder, TypeOK
    <2>2. ASSUME NEW n \in Node, Enqueue(r, askEvent[r], n)
          PROVE  OneBroadcastPerEvent'
      BY <1>2, <2>0, <2>2, CreateEffect, NoneAssumption
      DEF QueueBroadcast, Enqueue, Inv, AlreadyRequested, OneBroadcastPerEvent,
          RowsInOrder, TypeOK
    <2> QED
      BY <1>2, <2>1, <2>2 DEF QueueBroadcast
  <1>3. CASE UNCHANGED rowVars
    BY <1>3 DEF Inv, OneBroadcastPerEvent
  <1> QED
    BY StepCases, QuietEffect, <1>1, <1>2, <1>3
    DEF Inv, AskBroadcast, Claim, ServeStrayClaim, Start, BeginExecution, EndExecution,
        Report, GiveUpReport, ServeStrayReport, Crash, CoolDown

\* Requests know a command as cooled down only after it has.
LEMMA CoolingIsBroadcastStep ==
  ASSUME Inv, [Next]_vars
  PROVE  CoolingIsBroadcast'
PROOF
  <1>1. ASSUME NEW n \in Node, QueueCommand(n)
        PROVE  CoolingIsBroadcast'
    BY <1>1, CreateEffect, NoneAssumption
    DEF QueueCommand, Inv, CoolingIsBroadcast, RowsInOrder, TypeOK
  <1>2. ASSUME NEW r \in Request, NEW e \in Event, AskBroadcast(r, e)
        PROVE  CoolingIsBroadcast'
    BY <1>2
    DEF AskBroadcast, Inv, CoolingIsBroadcast, RowsInOrder, TypeOK
  <1>3. ASSUME NEW r \in Request, QueueBroadcast(r)
        PROVE  CoolingIsBroadcast'
    <2>0. askEvent[r] \in Event
      BY <1>3 DEF QueueBroadcast, Inv, TypeOK
    <2>1. CASE UNCHANGED <<rowVars, status, cooling>>
      BY <1>3, <2>1 DEF QueueBroadcast, Inv, CoolingIsBroadcast, RowsInOrder, TypeOK
    <2>2. ASSUME NEW n \in Node, Enqueue(r, askEvent[r], n)
          PROVE  CoolingIsBroadcast'
      BY <1>3, <2>0, <2>2, CreateEffect, NoneAssumption
      DEF QueueBroadcast, Enqueue, Inv, CoolingIsBroadcast, RowsInOrder, TypeOK
    <2> QED
      BY <1>3, <2>1, <2>2 DEF QueueBroadcast
  <1>4. ASSUME NEW c \in Command, CoolDown(c)
        PROVE  CoolingIsBroadcast'
    BY <1>4
    DEF CoolDown, Inv, CoolingIsBroadcast, RowsInOrder, TypeOK
  <1>5. CASE UNCHANGED <<rowVars, cooling, askVars>>
    BY <1>5 DEF Inv, CoolingIsBroadcast
  <1> QED
    BY StepCases, QuietEffect, <1>1, <1>2, <1>3, <1>4, <1>5
    DEF Inv, Claim, ServeStrayClaim, Start, BeginExecution, EndExecution, Report,
        GiveUpReport, ServeStrayReport, Crash

\* A broadcast is queued when all of its kind have cooled down.
LEMMA OneWarningPerCooldownStep ==
  ASSUME Inv, [Next]_vars
  PROVE  OneWarningPerCooldown'
PROOF
  <1>1. ASSUME NEW n \in Node, QueueCommand(n)
        PROVE  OneWarningPerCooldown'
    BY <1>1, CreateEffect, NoneAssumption
    DEF QueueCommand, Inv, OneWarningPerCooldown, CoolingIsBroadcast, RowsInOrder, TypeOK
  <1>2. ASSUME NEW r \in Request, QueueBroadcast(r)
        PROVE  OneWarningPerCooldown'
    <2>0. askEvent[r] \in Event
      BY <1>2 DEF QueueBroadcast, Inv, TypeOK
    <2>1. CASE UNCHANGED <<rowVars, status, cooling>>
      BY <1>2, <2>1 DEF QueueBroadcast, OneWarningPerCooldown, Inv
    <2>2. ASSUME NEW n \in Node, Enqueue(r, askEvent[r], n)
          PROVE  OneWarningPerCooldown'
      <3>0. PICK l \in Language : CooledDown(r, n, askEvent[r], l) /\ Create(n, askEvent[r], l)
        BY <2>2 DEF Enqueue
      <3>1. ASSUME NEW c \in cooling, cmdNode[c] = n, cmdLang[c] = l
            PROVE  KindOf[cmdEvent[c]] # KindOf[askEvent[r]]
        BY <3>0, <3>1, NoneAssumption
        DEF CooledDown, SameKey, Inv, CoolingIsBroadcast, TypeOK
      <3>2. cooling \subseteq Command \ {nCommands + 1}
        BY <2>0, <3>0, CreateEffect DEF Inv, TypeOK
      <3>3. /\ \A c \in cooling : /\ cmdNode'[c] = cmdNode[c] /\ cmdEvent'[c] = cmdEvent[c]
                                 /\ cmdLang'[c] = cmdLang[c]
            /\ cmdNode'[nCommands + 1] = n /\ cmdEvent'[nCommands + 1] = askEvent[r]
            /\ cmdLang'[nCommands + 1] = l
        BY <2>0, <3>0, <3>2, CreateEffect
      <3> QED
        BY <2>2, <3>1, <3>3 DEF Enqueue, Inv, OneWarningPerCooldown
    <2> QED
      BY <1>2, <2>1, <2>2 DEF QueueBroadcast
  <1>3. ASSUME NEW c \in Command, CoolDown(c)
        PROVE  OneWarningPerCooldown'
    BY <1>3
    DEF CoolDown, Inv, OneWarningPerCooldown, CoolingIsBroadcast, RowsInOrder, TypeOK
  <1>4. CASE UNCHANGED <<rowVars, cooling>>
    BY <1>4 DEF Inv, OneWarningPerCooldown
  <1> QED
    BY StepCases, QuietEffect, <1>1, <1>2, <1>3, <1>4
    DEF Inv, AskBroadcast, Claim, ServeStrayClaim, Start, BeginExecution, EndExecution,
        Report, GiveUpReport, ServeStrayReport, Crash

\* The inductive invariant.
THEOREM Invariance == Spec => []Inv
PROOF
  <1>1. Init => Inv
    BY NoneAssumption, BoundsAssumption
    DEF Init, Inv, TypeOK, RowsInOrder, JournalIsClaimed, SentIsSettled,
        JournalTellsTheTruth, RowWasSent, UnclaimedNotRun, AtMostOnce, OneBroadcastPerEvent,
        CoolingIsBroadcast, OneWarningPerCooldown, Status, Result, Task, JournalStatus,
        Command, NoCommand
  <1>2. Inv /\ [Next]_vars => Inv'
    BY TypeOKStep, RowsInOrderStep, JournalIsClaimedStep, SentIsSettledStep,
       JournalTellsTheTruthStep, RowWasSentStep, UnclaimedNotRunStep, AtMostOnceStep,
       OneBroadcastPerEventStep, CoolingIsBroadcastStep, OneWarningPerCooldownStep
    DEF Inv
  <1> QED
    BY <1>1, <1>2, PTL DEF Spec

\* Every variable keeps its type.
THEOREM TypeCorrect == Spec => []TypeOK
PROOF
  <1>1. Inv => TypeOK
    BY DEF Inv
  <1> QED
    BY <1>1, Invariance, PTL

\* No command is executed twice: claim_command() and run() of the field agent.
THEOREM AtMostOnceHolds == Spec => []AtMostOnce
PROOF
  <1>1. Inv => AtMostOnce
    BY DEF Inv
  <1> QED
    BY <1>1, Invariance, PTL

\* The status of a command tells what happened at the speaker.
THEOREM RowTellsTheTruthHolds == Spec => []RowTellsTheTruth
PROOF
  <1>1. Inv => RowTellsTheTruth
    BY DEF Inv, RowTellsTheTruth, RowWasSent, SentIsSettled, UnclaimedNotRun, Result
  <1> QED
    BY <1>1, Invariance, PTL

\* An event has one broadcast on a node: enqueue_event_broadcast().
THEOREM OneBroadcastPerEventHolds == Spec => []OneBroadcastPerEvent
PROOF
  <1>1. Inv => OneBroadcastPerEvent
    BY DEF Inv
  <1> QED
    BY <1>1, Invariance, PTL

\* A node has one warning of a kind within the cooldown.
THEOREM OneWarningPerCooldownHolds == Spec => []OneWarningPerCooldown
PROOF
  <1>1. Inv => OneWarningPerCooldown
    BY DEF Inv
  <1> QED
    BY <1>1, Invariance, PTL

\* Results and expiries are final, and nothing handed out waits again.
THEOREM OneResultHolds == Spec => OneResult
PROOF
  <1>1. Inv /\ [Next]_vars => [ResultsKept]_vars
    <2> SUFFICES ASSUME Inv, [Next]_vars
                 PROVE  ResultsKept
      OBVIOUS
    <2>1. ASSUME NEW n \in Node, QueueCommand(n)
          PROVE  ResultsKept
      BY <2>1, CreateEffect, NoneAssumption DEF QueueCommand, ResultsKept, Final, Result
    <2>2. ASSUME NEW r \in Request, QueueBroadcast(r)
          PROVE  ResultsKept
      <3>1. CASE UNCHANGED <<rowVars, status, cooling>>
        BY <3>1 DEF ResultsKept
      <3>2. ASSUME NEW n \in Node, Enqueue(r, askEvent[r], n)
            PROVE  ResultsKept
        <4>1. askEvent[r] \in Event \cup {None}
          BY DEF Inv, TypeOK
        <4> QED
          BY <3>2, <4>1, CreateEffect DEF Enqueue, ResultsKept, Final, Result
      <3> QED
        BY <2>2, <3>1, <3>2 DEF QueueBroadcast
    <2>3. ASSUME NEW n \in Node, NEW got, ServeClaim(n, got)
          PROVE  ResultsKept
      BY <2>3, ServeClaimEffect DEF Inv, ResultsKept, Final, Result
    <2>4. ASSUME NEW c \in Command, NEW result \in Result, ServeReport(c, result)
          PROVE  ResultsKept
      BY <2>4, ServeReportEffect DEF Inv, ResultsKept, Final, Result
    <2>5. ASSUME UNCHANGED status
          PROVE  ResultsKept
      BY <2>5 DEF ResultsKept
    <2>6. ASSUME NEW n \in Node, Report(n)
          PROVE  ResultsKept
      BY <2>4, <2>6, ReportedRecord DEF Report
    <2> QED
      BY StepCases, QuietEffect, <2>1, <2>2, <2>3, <2>4, <2>5, <2>6
      DEF Inv, AskBroadcast, Claim, ServeStrayClaim, Start, BeginExecution, EndExecution,
          GiveUpReport, Crash, ServeStrayReport, CoolDown
  <1> QED
    BY <1>1, Invariance, PTL DEF Spec, OneResult

\* A reviewed or merged event gets no new broadcast.
THEOREM NoWarningAfterReviewHolds == Spec => NoWarningAfterReview
PROOF
  <1>1. Inv /\ [Next]_vars => [QueuedWhileOpen]_vars
    <2> SUFFICES ASSUME Inv, [Next]_vars
                 PROVE  QueuedWhileOpen
      OBVIOUS
    <2>1. ASSUME NEW n \in Node, QueueCommand(n)
          PROVE  QueuedWhileOpen
      BY <2>1, CreateEffect, NoneAssumption DEF QueueCommand, QueuedWhileOpen
    <2>2. ASSUME NEW r \in Request, QueueBroadcast(r)
          PROVE  QueuedWhileOpen
      <3>1. CASE UNCHANGED <<rowVars, status, cooling>>
        BY <3>1 DEF QueuedWhileOpen
      <3>2. ASSUME NEW n \in Node, Enqueue(r, askEvent[r], n)
            PROVE  QueuedWhileOpen
        <4>1. askEvent[r] \in Event \cup {None}
          BY DEF Inv, TypeOK
        <4>2. PICK l \in Language : Create(n, askEvent[r], l)
          BY <3>2 DEF Enqueue
        <4>3. /\ cmdEvent'[nCommands + 1] = askEvent[r]
              /\ \A c \in Command \ {nCommands + 1} : cmdEvent'[c] = cmdEvent[c]
          BY <4>1, <4>2, CreateEffect
        <4> QED
          BY <3>2, <4>3 DEF Enqueue, StillOpen, QueuedWhileOpen
      <3> QED
        BY <2>2, <3>1, <3>2 DEF QueueBroadcast
    <2>3. ASSUME UNCHANGED rowVars
          PROVE  QueuedWhileOpen
      BY <2>3 DEF QueuedWhileOpen
    <2> QED
      BY StepCases, QuietEffect, <2>1, <2>2, <2>3
      DEF Inv, AskBroadcast, Claim, ServeStrayClaim, Start, BeginExecution, EndExecution,
          Report, GiveUpReport, Crash, ServeStrayReport, CoolDown
  <1> QED
    BY <1>1, Invariance, PTL DEF Spec, NoWarningAfterReview

\* Server, agent and network implement a queue that executes at most once.
THEOREM DeliversHolds == Spec => Delivers
PROOF
  <1>1. Init => D!Init
    BY DEF Init, D!Init, stage
  <1>2. Inv /\ [Next]_vars => [D!Next]_stage
    <2> SUFFICES ASSUME Inv, [Next]_vars
                 PROVE  D!Next \/ UNCHANGED stage
      OBVIOUS
    <2> USE DEF D!Next
    <2>1. ASSUME NEW n \in Node, NEW e \in Event \cup {None}, NEW l \in Language \cup {None},
                 Create(n, e, l), UNCHANGED ran
          PROVE  D!Submit
      <3>0. /\ nCommands + 1 \in Command
            /\ status[nCommands + 1] = "none" /\ ran[nCommands + 1] = 0
            /\ status'[nCommands + 1] = "pending"
            /\ \A c \in Command \ {nCommands + 1} : status'[c] = status[c]
        BY <2>1, CreateEffect
      <3>1. nCommands + 1 \in D!In("new")
        BY <3>0 DEF D!In, stage
      <3>2. stage' = [stage EXCEPT ![nCommands + 1] = "waiting"]
        <4> SUFFICES ASSUME NEW c \in Command
                     PROVE  stage'[c] = IF c = nCommands + 1 THEN "waiting" ELSE stage[c]
          BY DEF stage
        <4> QED
          BY <2>1, <3>0 DEF stage
      <3> QED
        BY <3>1, <3>2 DEF D!Submit
    <2>2. ASSUME NEW n \in Node, NEW got, ServeClaim(n, got), UNCHANGED ran
          PROVE  D!Serve
      <3> DEFINE dropped == {c \in Command : status[c] = "pending" /\ status'[c] = "expired"}
                 given   == {got} \cap Command
      <3>1. dropped \subseteq D!In("waiting") /\ given \subseteq D!In("waiting")
        BY <2>2, ServeClaimEffect DEF D!In, stage, Inv, UnclaimedNotRun
      <3>2. dropped \cap given = {}
        BY <2>2, ServeClaimEffect DEF Inv
      <3>3. stage' = [c \in Command |-> IF c \in dropped THEN "dropped"
                                        ELSE IF c \in given THEN "given" ELSE stage[c]]
        <4> SUFFICES ASSUME NEW c \in Command
                     PROVE  stage'[c] = IF c \in dropped THEN "dropped"
                                        ELSE IF c \in given THEN "given" ELSE stage[c]
          BY DEF stage
        <4>1. ran'[c] = ran[c] /\ (c \in dropped \cup given => ran[c] = 0)
          BY <2>2, ServeClaimEffect DEF Inv, UnclaimedNotRun
        <4> QED
          BY <2>2, <4>1, ServeClaimEffect DEF stage, Inv, TypeOK
      <3> QED
        BY <3>1, <3>2, <3>3 DEF D!Serve
    <2>3. ASSUME NEW c \in Command, NEW result \in Result, ServeReport(c, result),
                 UNCHANGED ran
          PROVE  UNCHANGED stage
      BY <2>3, ServeReportEffect DEF stage, Inv
    <2>4. ASSUME UNCHANGED <<status, ran>>
          PROVE  UNCHANGED stage
      BY <2>4 DEF stage
    <2>5. ASSUME NEW n \in Node, BeginExecution(n)
          PROVE  D!Execute \/ UNCHANGED stage
      <3>1. CASE ran'[jcmd[n]] = 0
        <4>1. ran' = ran
          BY <2>5, <3>1, BegunRecord DEF Inv, TypeOK
        <4> QED
          BY <2>5, <4>1 DEF BeginExecution, stage
      <3>2. CASE ran'[jcmd[n]] = 1
        <4>1. jcmd[n] \in D!In("given")
          BY <2>5, BegunRecord DEF D!In, stage
        <4>2. stage' = [stage EXCEPT ![jcmd[n]] = "executed"]
          <5> SUFFICES ASSUME NEW c \in Command
                       PROVE  stage'[c] = IF c = jcmd[n] THEN "executed" ELSE stage[c]
            BY DEF stage
          <5> QED
            BY <2>5, <3>2, BegunRecord DEF BeginExecution, stage
        <4> QED
          BY <4>1, <4>2 DEF D!Execute
      <3> QED
        BY <2>5, <3>1, <3>2, BegunRecord
    <2>6. ASSUME NEW n \in Node, Report(n)
          PROVE  UNCHANGED stage
      BY <2>3, <2>6, ReportedRecord DEF Report
    <2>7. ASSUME NEW n \in Node, QueueCommand(n)
          PROVE  D!Submit
      BY <2>1, <2>7 DEF QueueCommand
    <2>8. ASSUME NEW r \in Request, QueueBroadcast(r)
          PROVE  D!Submit \/ UNCHANGED stage
      <3>1. askEvent[r] \in Event \cup {None}
        BY DEF Inv, TypeOK
      <3> QED
        BY <2>1, <2>4, <2>8, <3>1 DEF QueueBroadcast, Enqueue
    <2>9. ASSUME NEW n \in Node, Claim(n) \/ ServeStrayClaim(n)
          PROVE  D!Serve
      BY <2>2, <2>9 DEF Claim, ServeStrayClaim
    <2> QED
      BY StepCases, QuietEffect, <2>3, <2>4, <2>5, <2>6, <2>7, <2>8, <2>9
      DEF Inv, AskBroadcast, Start, EndExecution, GiveUpReport, Crash, ServeStrayReport,
          CoolDown
  <1> QED
    BY <1>1, <1>2, Invariance, PTL DEF Spec, Delivers, D!Spec
=============================================================================
