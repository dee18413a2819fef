------------------------ MODULE WorkflowServerProofs ------------------------
EXTENDS WorkflowServer, TLAPS

-----------------------------------------------------------------------------
(* The inductive invariant.  What a transaction has read may be stale when  *)
(* it commits; TxOK says how stale, and the other parts say what the rows   *)
(* look like between transactions.                                         *)

\* The states a committed row can be in.
Resting == {"APPLYING_CHANGE"} \cup Waiting \cup Terminal

\* A read of row w is stale only if the revision has grown since.
ReadOf(w, t) ==
  /\ tx[t].rv <= row[w].rev
  /\ tx[t].rv = row[w].rev => tx[t].st = row[w].state

TxOKFor(t) ==
  /\ tx[t].op \in {"decide", "consume"} =>
       /\ tx[t].apr \in Approvals
       /\ approval[tx[t].apr].status # "ABSENT"
       /\ tx[t].dec \in {"APPROVE", "REJECT"}
  /\ tx[t].op = "consume" =>
       /\ tx[t].st = WaitingFor(approval[tx[t].apr].type)
       /\ ReadOf(approval[tx[t].apr].wi, t)
  /\ tx[t].op = "complete" =>
       /\ tx[t].wi \in WorkItems
       /\ tx[t].st = "APPLYING_CHANGE"
       /\ ReadOf(tx[t].wi, t)
  /\ tx[t].op = "resume" =>
       /\ tx[t].wi \in WorkItems
       /\ tx[t].st \in Resting
       /\ tx[t].st = "APPLYING_CHANGE" => row[tx[t].wi].state \in {"APPLYING_CHANGE", "COMPLETED"}
  /\ tx[t].op = "bind" =>
       /\ tx[t].wi \in WorkItems
       /\ tx[t].apr \in Approvals

TxOK == \A t \in Workers : TxOKFor(t)

\* An approval row belongs to a workflow that has come far enough to need it.
ApprovalsOK ==
  \A a \in Approvals :
    /\ approval[a].status = "ABSENT" => approval[a].wi = None
    /\ approval[a].status # "ABSENT" =>
         /\ approval[a].wi \in WorkItems
         /\ approval[a].type \in Types
         /\ row[approval[a].wi].state # "ABSENT"
         /\ approval[a].type = "CODE_CHANGE" =>
              row[approval[a].wi].state # "WAITING_DESIGN_APPROVAL"

\* Revisions are counted from the creation of the row.
FreshRows == \A w \in WorkItems : row[w].state = "ABSENT" => row[w].rev = 0

IInv ==
  /\ TypeOK
  /\ FreshRows
  /\ NoStrandedRun
  /\ ApprovalsOK
  /\ OpenOnlyWhileWaiting
  /\ WaitingHasApproval
  /\ WaitingHoldsNoLease
  /\ ItemFollowsWorkflow
  /\ TxOK

-----------------------------------------------------------------------------
(* The operators the actions are built from.                               *)

\* The history rows that a path of insertTransition calls appends.
LEMMA EntriesAreSeq ==
  ASSUME NEW path \in Seq(States), NEW s \in States \cup {"ABSENT"},
         NEW by \in Approvals \cup {None}
  PROVE  [i \in 1 .. Len(path) |->
            [from |-> Before(s, path, i), to |-> path[i],
             by |-> IF i = 1 THEN by ELSE None]] \in Seq(LogEntry)
<1>1. ASSUME NEW i \in 1 .. Len(path)
      PROVE  [from |-> Before(s, path, i), to |-> path[i],
              by |-> IF i = 1 THEN by ELSE None] \in LogEntry
  <2>1. path[i] \in States
    OBVIOUS
  <2>2. Before(s, path, i) \in States \cup {"ABSENT"}
    BY DEF Before
  <2>3. QED
    BY <2>1, <2>2 DEF LogEntry
<1>2. QED
  BY <1>1

\* applyTransition along any path leaves a well-formed workflow row.
LEMMA ApplyPathType ==
  ASSUME NEW log \in Seq(LogEntry), NEW s \in States \cup {"ABSENT"}, NEW rv \in Nat,
         NEW path \in Seq(States), path # <<>>, NEW by \in Approvals \cup {None}
  PROVE  ApplyPath(log, s, rv, path, by) \in Row
<1>1. path[Len(path)] \in States
  OBVIOUS
<1> DEFINE new == [i \in 1 .. Len(path) |->
            [from |-> Before(s, path, i), to |-> path[i],
             by |-> IF i = 1 THEN by ELSE None]]
<1>2. log \o new \in Seq(LogEntry)
  <2>1. new \in Seq(LogEntry)
    BY EntriesAreSeq
  <2> HIDE DEF new
  <2>2. QED
    BY <2>1
<1> HIDE DEF new
<1>3. rv + Len(path) \in Nat
  OBVIOUS
<1>4. QED
  BY <1>1, <1>2, <1>3 DEF ApplyPath, Row, Leases, new

\* The event lists the handlers emit are sequences of events.
LEMMA EventSeqs ==
  ASSUME NEW w \in WorkItems, NEW s \in States \cup {"ABSENT"}, NEW a \in Approvals
  PROVE  /\ Progress(w, s) \in Seq(Event)
         /\ View(w, s, a) \in Seq(Event)
         /\ Progress(w, s) \o View(w, s, a) \in Seq(Event)
<1>1. Progress(w, s) \in Seq(Event)
  BY DEF Progress, Event
<1>2. View(w, s, a) \in Seq(Event)
  BY DEF View, Event
<1>3. QED
  BY <1>1, <1>2

\* What a restore emits is a sequence of events.
LEMMA RestoredType ==
  ASSUME NEW w \in WorkItems, NEW s \in States \cup {"ABSENT"}
  PROVE  Restored(w, s) \in Seq(Event)
<1>1. CASE Pending(w, s) = {}
  BY <1>1 DEF Restored, Progress, Event
<1>2. CASE Pending(w, s) # {}
  <2>1. (CHOOSE a \in Pending(w, s) : TRUE) \in Approvals
    BY <1>2 DEF Pending
  <2>2. QED
    BY <1>2, <2>1, EventSeqs DEF Restored
<1>3. QED
  BY <1>1, <1>2

\* The paths that chat.submit, a decision and apply.completed drive a
\* workflow along are sequences of states.
LEMMA PathTypes ==
  /\ StartPath \in Seq(States) /\ StartPath # <<>>
  /\ <<"COMPLETED">> \in Seq(States) /\ <<"COMPLETED">> # <<>>
  /\ \A type, dec : AfterDecision(type, dec) \in Seq(States) /\ AfterDecision(type, dec) # <<>>
<1>1. StartPath \in Seq(States) /\ StartPath # <<>>
  BY DEF StartPath, States, Waiting, Terminal
<1>2. <<"COMPLETED">> \in Seq(States) /\ <<"COMPLETED">> # <<>>
  BY DEF States, Waiting, Terminal
<1>3. ASSUME NEW type, NEW dec
      PROVE  AfterDecision(type, dec) \in Seq(States) /\ AfterDecision(type, dec) # <<>>
  <2>1. CASE dec = "REJECT"
    BY <2>1 DEF AfterDecision, States, Waiting, Terminal
  <2>2. CASE dec # "REJECT" /\ type = "DESIGN"
    BY <2>2 DEF AfterDecision, States, Waiting, Terminal
  <2>3. CASE dec # "REJECT" /\ type # "DESIGN"
    BY <2>3 DEF AfterDecision, States, Waiting, Terminal
  <2>4. QED
    BY <2>1, <2>2, <2>3
<1>4. QED
  BY <1>1, <1>2, <1>3


\* What a decision does, by the approval's type and the decision.
LEMMA DecisionPaths ==
  ASSUME NEW type \in Types, NEW dec \in {"APPROVE", "REJECT"}
  PROVE  /\ Len(AfterDecision(type, dec)) = 1 =>
              \/ /\ AfterDecision(type, dec) = <<"REJECTED">>
                 /\ dec = "REJECT"
              \/ /\ AfterDecision(type, dec) = <<"APPLYING_CHANGE">>
                 /\ dec = "APPROVE"
                 /\ type = "CODE_CHANGE"
         /\ Len(AfterDecision(type, dec)) = 4 =>
              /\ dec = "APPROVE"
              /\ type = "DESIGN"
              /\ AfterDecision(type, dec)[4] = "WAITING_CODE_APPROVAL"
<1>1. CASE dec = "REJECT"
  BY <1>1 DEF AfterDecision
<1>2. CASE dec = "APPROVE" /\ type = "DESIGN"
  BY <1>2 DEF AfterDecision
<1>3. CASE dec = "APPROVE" /\ type = "CODE_CHANGE"
  BY <1>3 DEF AfterDecision
<1>4. QED
  BY <1>1, <1>2, <1>3 DEF Types

-----------------------------------------------------------------------------
\* The empty tables of a fresh database satisfy the invariant.
LEMMA InitInv == Init => IInv
<1> SUFFICES ASSUME Init PROVE IInv
  OBVIOUS
<1>1. TypeOK
  BY DEF Init, TypeOK, NoRow, Row, LogEntry, Leases, NoBind, Bind, NoApproval, Approval,
         Statuses, NoTx, Tx, Ops
<1>2. FreshRows /\ NoStrandedRun /\ WaitingHasApproval /\ WaitingHoldsNoLease /\ ItemFollowsWorkflow
  BY DEF Init, NoRow, FreshRows, NoStrandedRun, WaitingHasApproval, WaitingHoldsNoLease, ItemFollowsWorkflow,
         Waiting
<1>3. ApprovalsOK /\ OpenOnlyWhileWaiting
  BY DEF Init, NoApproval, ApprovalsOK, OpenOnlyWhileWaiting
<1>4. TxOK
  BY DEF Init, NoTx, TxOK, TxOKFor
<1>5. QED
  BY <1>1, <1>2, <1>3, <1>4 DEF IInv

-----------------------------------------------------------------------------
(* How rows change.  Forward and Kept hold of every step; they are what a   *)
(* handler that waits between its read and its commit relies on.           *)

\* A row's revision grows with every change of its state, and an approved
\* change stays approved.
Forward ==
  \A w \in WorkItems :
    /\ row'[w].rev >= row[w].rev
    /\ row'[w].rev = row[w].rev => row'[w].state = row[w].state
    /\ row[w].state \in {"APPLYING_CHANGE", "COMPLETED"} =>
         row'[w].state \in {"APPLYING_CHANGE", "COMPLETED"}

\* An approval is never taken back or given to another workflow.
Kept ==
  \A a \in Approvals : approval[a].status # "ABSENT" =>
    /\ approval'[a].status # "ABSENT"
    /\ approval'[a].wi = approval[a].wi
    /\ approval'[a].type = approval[a].type

\* The reads of a transaction that does not move stay as good as they were.
LEMMA ReadsAge ==
  ASSUME IInv, Forward, Kept, TypeOK',
         NEW u \in Workers, tx'[u] = tx[u]
  PROVE  TxOKFor(u)'
<1>1. ASSUME tx[u].op \in {"decide", "consume"}
      PROVE  /\ tx[u].apr \in Approvals
             /\ approval'[tx[u].apr].status # "ABSENT"
             /\ approval'[tx[u].apr].wi = approval[tx[u].apr].wi
             /\ approval'[tx[u].apr].type = approval[tx[u].apr].type
             /\ tx[u].dec \in {"APPROVE", "REJECT"}
  BY <1>1 DEF IInv, TxOK, TxOKFor, Kept
<1>2. ASSUME NEW w \in WorkItems, ReadOf(w, u)
      PROVE  ReadOf(w, u)'
  <2>1. row[w].rev \in Nat /\ row'[w].rev \in Nat /\ tx[u].rv \in Nat
    BY DEF IInv, TypeOK, Row, Tx
  <2>2. QED
    BY <1>2, <2>1 DEF ReadOf, Forward
<1>3. tx[u].op = "consume" => approval[tx[u].apr].wi \in WorkItems
  BY DEF IInv, TxOK, TxOKFor, ApprovalsOK
<1>4. ASSUME tx[u].op = "consume"
      PROVE  /\ tx'[u].st = WaitingFor(approval'[tx'[u].apr].type)
             /\ ReadOf(approval[tx[u].apr].wi, u)'
  <2>1. ReadOf(approval[tx[u].apr].wi, u) /\ tx[u].st = WaitingFor(approval[tx[u].apr].type)
    BY <1>4 DEF IInv, TxOK, TxOKFor
  <2>2. approval'[tx'[u].apr].wi = approval[tx[u].apr].wi /\ approval'[tx'[u].apr].type = approval[tx[u].apr].type
    BY <1>1, <1>4
  <2>3. QED
    BY <2>1, <2>2, <1>2, <1>3, <1>4 DEF ReadOf, WaitingFor
<1>5. ASSUME tx[u].op = "complete"
      PROVE  /\ tx'[u].wi \in WorkItems
             /\ tx'[u].st = "APPLYING_CHANGE"
             /\ ReadOf(tx[u].wi, u)'
  <2>1. tx[u].wi \in WorkItems /\ tx[u].st = "APPLYING_CHANGE" /\ ReadOf(tx[u].wi, u)
    BY <1>5 DEF IInv, TxOK, TxOKFor
  <2>2. QED
    BY <2>1, <1>2 DEF ReadOf
<1>6. ASSUME tx[u].op = "resume"
      PROVE  /\ tx'[u].wi \in WorkItems
             /\ tx'[u].st \in Resting
             /\ tx'[u].st = "APPLYING_CHANGE" => row'[tx'[u].wi].state \in {"APPLYING_CHANGE", "COMPLETED"}
  BY <1>6 DEF IInv, TxOK, TxOKFor, Forward
<1>7. tx[u].op = "bind" => tx[u].wi \in WorkItems /\ tx[u].apr \in Approvals
  BY DEF IInv, TxOK, TxOKFor
<1>8. QED
  BY <1>1, <1>4, <1>5, <1>6, <1>7 DEF TxOKFor

\* The reads of all threads stay good if those of the thread that moves do.
LEMMA TxStep ==
  ASSUME IInv, Forward, Kept, TypeOK',
         NEW t \in Workers, \A u \in Workers : u # t => tx'[u] = tx[u],
         TxOKFor(t)'
  PROVE  TxOK'
BY ReadsAge DEF TxOK

\* A handler that has returned holds no reads that could be stale.
LEMMA EndedTx ==
  ASSUME NEW t \in Workers, tx'[t] = NoTx
  PROVE  TxOKFor(t)'
BY DEF TxOKFor, NoTx

\* A step that writes none of the three tables keeps everything but TxOK.
LEMMA QuietStep ==
  ASSUME IInv, TypeOK', UNCHANGED <<row, item, approval>>,
         NEW t \in Workers, \A u \in Workers : u # t => tx'[u] = tx[u],
         TxOKFor(t)'
  PROVE  IInv'
<1>1. Forward
  BY DEF Forward, IInv, TypeOK, Row
<1>2. Kept
  BY DEF Kept
<1>3. TxOK'
  BY <1>1, <1>2, TxStep
<1>4. (FreshRows /\ NoStrandedRun /\ ApprovalsOK /\ OpenOnlyWhileWaiting /\ WaitingHasApproval
       /\ WaitingHoldsNoLease /\ ItemFollowsWorkflow)'
  BY DEF IInv, FreshRows, NoStrandedRun, ApprovalsOK, OpenOnlyWhileWaiting, WaitingHasApproval,
         WaitingHoldsNoLease, ItemFollowsWorkflow, WaitingFor
<1>5. QED
  BY <1>3, <1>4 DEF IInv

-----------------------------------------------------------------------------
(* One lemma per action.                                                   *)

\* approval.decide reads the approval and the workspace: nothing is written.
LEMMA DecideCheckStep ==
  ASSUME IInv, NEW t \in Workers, NEW w \in WorkItems, NEW ws \in Workspaces, NEW a \in Approvals,
         NEW h \in Hashes, NEW dec \in {"APPROVE", "REJECT"}, DecideCheck(t, w, ws, a, h, dec)
  PROVE  IInv'
<1>1. TypeOK'
  BY DEF IInv, TypeOK, DecideCheck, db, NoTx, Tx, Ops
<1>2. TxOKFor(t)'
  BY DEF IInv, TypeOK, DecideCheck, DecideAccepts, db, Usable, NoTx, TxOKFor
<1>3. QED
  BY <1>1, <1>2, QuietStep DEF DecideCheck, db

\* decide loads the workflow row that consume's update will be checked on.
LEMMA DecideLoadStep ==
  ASSUME IInv, NEW t \in Workers, DecideLoad(t)
  PROVE  IInv'
<1>1. /\ tx[t].apr \in Approvals
      /\ approval[tx[t].apr].status # "ABSENT"
      /\ tx[t].dec \in {"APPROVE", "REJECT"}
      /\ approval[tx[t].apr].wi \in WorkItems
  BY DEF IInv, TxOK, TxOKFor, ApprovalsOK, DecideLoad
<1>2. TypeOK'
  <2>1. row[DecidedItem(t)] \in Row /\ tx[t] \in Tx
    BY <1>1 DEF IInv, TypeOK, DecidedItem
  <2> DEFINE new == [tx[t] EXCEPT !.op = "consume", !.st = row[DecidedItem(t)].state,
                                  !.rv = row[DecidedItem(t)].rev]
  <2>a. new \in Tx
    BY <2>1 DEF Tx, Ops, Row
  <2>b. tx' = [tx EXCEPT ![t] = new]
    BY DEF DecideLoad
  <2> HIDE DEF new
  <2>2. tx' \in [Workers -> Tx]
    BY <2>a, <2>b DEF IInv, TypeOK
  <2>3. QED
    BY <2>2 DEF IInv, TypeOK, DecideLoad, db
<1>3. TxOKFor(t)'
  <2>1. tx[t] \in Tx /\ row[DecidedItem(t)].rev \in Nat
    BY <1>1 DEF IInv, TypeOK, DecidedItem, Row
  <2>2. /\ tx'[t].op = "consume" /\ tx'[t].apr = tx[t].apr /\ tx'[t].dec = tx[t].dec
        /\ tx'[t].st = row[DecidedItem(t)].state /\ tx'[t].rv = row[DecidedItem(t)].rev
        /\ row' = row /\ approval' = approval
    BY <2>1 DEF DecideLoad, db, IInv, TypeOK, Tx
  <2>3. QED
    BY <1>1, <2>1, <2>2 DEF TxOKFor, ReadOf, DecideLoad, DecidedItem, WaitingFor
<1>4. QED
  BY <1>2, <1>3, QuietStep DEF DecideLoad, db, IInv, TypeOK

\* apply.completed loads the item and its workflow: nothing is written.
LEMMA CompleteLoadStep ==
  ASSUME IInv, NEW t \in Workers, NEW w \in WorkItems, NEW ws \in Workspaces, CompleteLoad(t, w, ws)
  PROVE  IInv'
<1>1. row[w] \in Row
  BY DEF IInv, TypeOK
<1>2. TypeOK'
  <2>1. tx' \in [Workers -> Tx]
    BY <1>1 DEF IInv, TypeOK, CompleteLoad, NoTx, Tx, Ops, Row
  <2>2. QED
    BY <2>1 DEF IInv, TypeOK, CompleteLoad, db
<1>3. TxOKFor(t)'
  BY <1>1 DEF IInv, TypeOK, CompleteLoad, db, NoTx, TxOKFor, ReadOf, Row
<1>4. QED
  BY <1>2, <1>3, QuietStep DEF CompleteLoad, db

\* apply.completed for a workflow that is already done writes nothing.
LEMMA CompleteAgainStep ==
  ASSUME IInv, NEW t \in Workers, NEW w \in WorkItems, NEW ws \in Workspaces, CompleteAgain(t, w, ws)
  PROVE  IInv'
<1>1. Progress(w, "COMPLETED") \in Seq(Event)
  BY DEF Progress, Event, States, Terminal
<1>2. TypeOK'
  BY <1>1 DEF IInv, TypeOK, CompleteAgain, Finish, db, NoTx, Tx, Ops
<1>3. TxOKFor(t)'
  BY EndedTx DEF IInv, TypeOK, CompleteAgain, Finish
<1>4. QED
  BY <1>2, <1>3, QuietStep DEF CompleteAgain, Finish, db, IInv, TypeOK

\* resumeAfterRestart loads the row it will judge the lease by.
LEMMA ResumeLoadStep ==
  ASSUME IInv, NEW t \in Workers, NEW w \in WorkItems, ResumeLoad(t, w)
  PROVE  IInv'
<1>1. row[w].state \in States \cup {"ABSENT"} /\ row[w].state \in Resting
  BY DEF IInv, TypeOK, Row, NoStrandedRun, Resting, ResumeLoad
<1>2. TypeOK'
  BY <1>1 DEF IInv, TypeOK, ResumeLoad, db, NoTx, Tx, Ops
<1>3. TxOKFor(t)'
  BY <1>1 DEF IInv, TypeOK, ResumeLoad, db, NoTx, TxOKFor
<1>4. QED
  BY <1>2, <1>3, QuietStep DEF ResumeLoad, db

\* diff.bind reads the approval that the diff is to be bound to.
LEMMA BindCheckStep ==
  ASSUME IInv, NEW t \in Workers, NEW w \in WorkItems, NEW ws \in Workspaces, NEW a \in Approvals,
         NEW h \in Hashes, BindCheck(t, w, ws, a, h)
  PROVE  IInv'
<1>1. TypeOK'
  BY DEF IInv, TypeOK, BindCheck, db, NoTx, Tx, Ops
<1>2. TxOKFor(t)'
  BY DEF IInv, TypeOK, BindCheck, db, NoTx, TxOKFor
<1>3. QED
  BY <1>1, <1>2, QuietStep DEF BindCheck, db

\* diff.bind records an approval and a hash for the item; no row changes.
LEMMA BindCommitStep ==
  ASSUME IInv, NEW t \in Workers, BindCommit(t)
  PROVE  IInv'
<1>1. tx[t] \in Tx /\ tx[t].wi \in WorkItems
  BY DEF IInv, TypeOK, BindCommit, TxOK, TxOKFor
<1>2. [apr |-> tx[t].apr, hash |-> tx[t].hash] \in Bind
  BY <1>1 DEF Tx, Bind
<1>3. TypeOK'
  BY <1>1, <1>2 DEF IInv, TypeOK, BindCommit, Finish, NoTx, Tx, Ops
<1>4. TxOKFor(t)'
  BY EndedTx DEF IInv, TypeOK, BindCommit, Finish
<1>5. QED
  BY <1>3, <1>4, QuietStep DEF BindCommit, Finish, IInv, TypeOK

\* A handler whose transaction fails leaves the tables as they were.
LEMMA RollbackStep ==
  ASSUME IInv, NEW t \in Workers, Rollback(t)
  PROVE  IInv'
<1>1. TypeOK'
  BY DEF IInv, TypeOK, Rollback, Finish, db, NoTx, Tx, Ops
<1>2. TxOKFor(t)'
  BY EndedTx DEF IInv, TypeOK, Rollback, Finish
<1>3. QED
  BY <1>1, <1>2, QuietStep DEF Rollback, Finish, db, IInv, TypeOK

\* Sending an event writes no table.
LEMMA EmitStep ==
  ASSUME IInv, NEW t \in Workers, Emit(t)
  PROVE  IInv'
<1>1. TypeOK'
  BY DEF IInv, TypeOK, Emit, db
<1>2. TxOKFor(t)'
  BY DEF IInv, TxOK, TxOKFor, Emit, db, ReadOf, WaitingFor
<1>3. QED
  BY <1>1, <1>2, QuietStep DEF Emit, db

\* A decision on an approval past its time marks it expired.
LEMMA DecideExpiredStep ==
  ASSUME IInv, NEW t \in Workers, NEW a \in Approvals, DecideExpired(t, a)
  PROVE  IInv'
<1>1. /\ approval[a] \in Approval
      /\ approval' = [approval EXCEPT ![a] = [approval[a] EXCEPT !.status = "EXPIRED"]]
      /\ approval[a].status = "REQUESTED"
      /\ UNCHANGED <<row, item, workspace, design, bind, tx, outcome>>
  BY DEF DecideExpired, IInv, TypeOK
<1>2. TypeOK'
  BY <1>1 DEF IInv, TypeOK, Approval, Statuses
<1>3. \A b \in Approvals :
        /\ approval'[b].wi = approval[b].wi
        /\ approval'[b].type = approval[b].type
        /\ approval'[b].status = "ABSENT" <=> approval[b].status = "ABSENT"
        /\ approval'[b].status \in {"REQUESTED", "EXPIRED"} <=>
             approval[b].status \in {"REQUESTED", "EXPIRED"}
  BY <1>1 DEF IInv, TypeOK, Approval
<1>4. Forward /\ Kept
  BY <1>1, <1>3 DEF Forward, Kept, IInv, TypeOK, Row
<1>5. TxOK'
  BY <1>1, <1>2, <1>4, ReadsAge DEF TxOK
<1>6. (FreshRows /\ NoStrandedRun /\ WaitingHoldsNoLease /\ ItemFollowsWorkflow)'
  BY <1>1 DEF IInv, FreshRows, NoStrandedRun, WaitingHoldsNoLease, ItemFollowsWorkflow
<1>7. (ApprovalsOK /\ OpenOnlyWhileWaiting)'
  BY <1>1, <1>3 DEF IInv, ApprovalsOK, OpenOnlyWhileWaiting, WaitingFor
<1>8. WaitingHasApproval'
  BY <1>1, <1>3 DEF IInv, WaitingHasApproval, WaitingFor
<1>9. QED
  BY <1>2, <1>5, <1>6, <1>7, <1>8 DEF IInv

\* Time passing makes an open approval late and nothing else.
LEMMA ApprovalLateStep ==
  ASSUME IInv, NEW a \in Approvals, ApprovalLate(a)
  PROVE  IInv'
<1>1. /\ approval[a] \in Approval
      /\ approval' = [approval EXCEPT ![a] = [approval[a] EXCEPT !.late = TRUE]]
      /\ UNCHANGED <<row, item, workspace, design, bind, tx, outcome>>
  BY DEF ApprovalLate, IInv, TypeOK
<1>2. TypeOK'
  BY <1>1 DEF IInv, TypeOK, Approval
<1>3. \A b \in Approvals :
        /\ approval'[b].wi = approval[b].wi
        /\ approval'[b].type = approval[b].type
        /\ approval'[b].status = approval[b].status
  BY <1>1 DEF IInv, TypeOK, Approval
<1>4. Forward /\ Kept
  BY <1>1, <1>3 DEF Forward, Kept, IInv, TypeOK, Row
<1>5. TxOK'
  BY <1>1, <1>2, <1>4, ReadsAge DEF TxOK
<1>6. (FreshRows /\ NoStrandedRun /\ WaitingHoldsNoLease /\ ItemFollowsWorkflow)'
  BY <1>1 DEF IInv, FreshRows, NoStrandedRun, WaitingHoldsNoLease, ItemFollowsWorkflow
<1>7. (ApprovalsOK /\ OpenOnlyWhileWaiting)'
  BY <1>1, <1>3 DEF IInv, ApprovalsOK, OpenOnlyWhileWaiting, WaitingFor
<1>8. WaitingHasApproval'
  BY <1>1, <1>3 DEF IInv, WaitingHasApproval, WaitingFor
<1>9. QED
  BY <1>2, <1>5, <1>6, <1>7, <1>8 DEF IInv

\* Writing a lease touches nothing else of the row.
LEMMA LeaseStep ==
  ASSUME IInv, NEW w \in WorkItems, NEW l \in Leases, row' = [row EXCEPT ![w].lease = l],
         row[w].state \in Waiting => l = "free"
  PROVE  /\ row' \in [WorkItems -> Row]
         /\ \A v \in WorkItems : /\ row'[v].state = row[v].state
                                 /\ row'[v].rev = row[v].rev
                                 /\ row[v].state \in Waiting => row'[v].lease = "free"
<1> DEFINE new == [row[w] EXCEPT !.lease = l]
<1>1. row \in [WorkItems -> Row] /\ row' = [row EXCEPT ![w] = new]
  BY DEF IInv, TypeOK
<1>2. new \in Row /\ new.state = row[w].state /\ new.rev = row[w].rev /\ new.lease = l
  BY <1>1 DEF Row
<1> HIDE DEF new
<1>3. row' \in [WorkItems -> Row]
  BY <1>1, <1>2
<1>4. row'[w] = new /\ \A v \in WorkItems \ {w} : row'[v] = row[v]
  BY <1>1
<1>5. QED
  BY <1>2, <1>3, <1>4 DEF IInv, WaitingHoldsNoLease

\* A step that writes at most leases and moves at most the transaction of t.
LEMMA LeaseOnlyStep ==
  ASSUME IInv, TypeOK', UNCHANGED <<item, approval>>,
         \A v \in WorkItems : /\ row'[v].state = row[v].state
                              /\ row'[v].rev = row[v].rev
                              /\ row[v].state \in Waiting => row'[v].lease = "free",
         \A u \in Workers : tx'[u] = tx[u] \/ TxOKFor(u)'
  PROVE  IInv'
<1>1. Forward /\ Kept
  BY DEF Forward, Kept, IInv, TypeOK, Row
<1>2. TxOK'
  BY <1>1, ReadsAge DEF TxOK
<1>3. (FreshRows /\ NoStrandedRun /\ WaitingHoldsNoLease /\ ItemFollowsWorkflow)'
  BY DEF IInv, FreshRows, NoStrandedRun, WaitingHoldsNoLease, ItemFollowsWorkflow
<1>4. (ApprovalsOK /\ OpenOnlyWhileWaiting)'
  BY DEF IInv, ApprovalsOK, OpenOnlyWhileWaiting, WaitingFor
<1>5. WaitingHasApproval'
  BY DEF IInv, WaitingHasApproval, WaitingFor
<1>6. QED
  BY <1>2, <1>3, <1>4, <1>5 DEF IInv

\* Time passing makes a lease lapse and nothing else.
LEMMA LeaseLapsesStep ==
  ASSUME IInv, NEW w \in WorkItems, LeaseLapses(w)
  PROVE  IInv'
<1>1. row[w].state \notin Waiting
  BY DEF IInv, WaitingHoldsNoLease, LeaseLapses
<1>2. /\ row' \in [WorkItems -> Row]
      /\ \A v \in WorkItems : /\ row'[v].state = row[v].state
                              /\ row'[v].rev = row[v].rev
                              /\ row[v].state \in Waiting => row'[v].lease = "free"
  BY <1>1, LeaseStep DEF LeaseLapses, Leases
<1>3. TypeOK'
  BY <1>2 DEF IInv, TypeOK, LeaseLapses
<1>4. QED
  BY <1>2, <1>3, LeaseOnlyStep DEF LeaseLapses

\* A resume that read APPLYING_CHANGE takes the lease of a row that is still
\* past the code gate, so no waiting row gets one.
LEMMA ResumeCommitStep ==
  ASSUME IInv, NEW t \in Workers, ResumeCommit(t)
  PROVE  IInv'
<1> DEFINE w == tx[t].wi
<1>1. /\ tx[t].wi \in WorkItems
      /\ tx[t].st \in Resting
      /\ tx[t].st = "APPLYING_CHANGE" => row[w].state \in {"APPLYING_CHANGE", "COMPLETED"}
  BY DEF IInv, TxOK, TxOKFor, ResumeCommit
<1>2. row[w] \in Row
  BY <1>1 DEF IInv, TypeOK
<1>3. Restored(w, row[w].state) \in Seq(Event) /\ Progress(w, tx[t].st) \in Seq(Event)
  <2>1. row[w].state \in States \cup {"ABSENT"} /\ tx[t].st \in States \cup {"ABSENT"}
    BY <1>1, <1>2 DEF Row, IInv, TypeOK, Tx
  <2>2. Restored(w, row[w].state) \in Seq(Event)
    BY <1>1, <2>1, RestoredType
  <2>3. Progress(w, tx[t].st) \in Seq(Event)
    BY <1>1, <2>1 DEF Progress, Event
  <2>4. QED
    BY <2>2, <2>3
<1>4. /\ row' \in [WorkItems -> Row]
      /\ \A v \in WorkItems : /\ row'[v].state = row[v].state
                              /\ row'[v].rev = row[v].rev
                              /\ row[v].state \in Waiting => row'[v].lease = "free"
  <2>1. CASE tx[t].st \in Waiting /\ row' = [row EXCEPT ![w].lease = "free"]
    BY <1>1, <2>1, LeaseStep DEF Leases
  <2>2. CASE row' = row
    BY <2>2 DEF IInv, TypeOK, WaitingHoldsNoLease
  <2>3. CASE tx[t].st \notin Waiting \cup Terminal /\ row' = [row EXCEPT ![w].lease = "held"]
    <3>1. row[w].state \notin Waiting
      BY <1>1, <2>3 DEF Resting, Waiting
    <3>2. QED
      BY <1>1, <2>3, <3>1, LeaseStep DEF Leases
  <2>4. QED
    BY <2>1, <2>2, <2>3 DEF ResumeCommit
<1>5. \E events \in Seq(Event) : Finish(t, events)
  BY <1>3 DEF ResumeCommit
<1>6. TypeOK'
  BY <1>4, <1>5 DEF IInv, TypeOK, ResumeCommit, Finish, NoTx, Tx, Ops
<1>7. \A u \in Workers : tx'[u] = tx[u] \/ TxOKFor(u)'
  BY <1>5, EndedTx DEF Finish, IInv, TypeOK
<1>8. QED
  BY <1>4, <1>6, <1>7, LeaseOnlyStep DEF ResumeCommit

\* What every step that moves the workflow of one item has in common.
LEMMA MoveStep ==
  ASSUME IInv, TypeOK', Kept, NEW t \in Workers, NEW w \in WorkItems, tx'[t] = NoTx,
         \A u \in Workers : u # t => tx'[u] = tx[u],
         \A v \in WorkItems : v # w => row'[v] = row[v] /\ item'[v] = item[v],
         row'[w].rev > row[w].rev,
         row'[w].state \in Resting,
         row[w].state \in {"APPLYING_CHANGE", "COMPLETED"} =>
           row'[w].state \in {"APPLYING_CHANGE", "COMPLETED"},
         row'[w].state \in Waiting => row'[w].lease = "free",
         item'[w] = "COMPLETED" <=> row'[w].state = "COMPLETED"
  PROVE  /\ FreshRows'
         /\ NoStrandedRun'
         /\ WaitingHoldsNoLease'
         /\ ItemFollowsWorkflow'
         /\ TxOK'
<1>1. \A v \in WorkItems : row[v].rev \in Nat /\ row'[v].rev \in Nat
  BY DEF IInv, TypeOK, Row
<1>2. Forward
  BY <1>1 DEF Forward
<1>3. TxOK'
  BY <1>2, EndedTx, TxStep
<1>4. FreshRows' /\ NoStrandedRun'
  BY DEF IInv, FreshRows, NoStrandedRun, Resting, Waiting, Terminal
<1>5. WaitingHoldsNoLease'
  BY DEF IInv, WaitingHoldsNoLease
<1>6. ItemFollowsWorkflow'
  BY DEF IInv, ItemFollowsWorkflow
<1>7. QED
  BY <1>3, <1>4, <1>5, <1>6

\* completeAfterApply moves a workflow past every gate: no approval of it
\* is open, and the item closes with it.
LEMMA CompleteCommitStep ==
  ASSUME IInv, NEW t \in Workers, CompleteCommit(t)
  PROVE  IInv'
<1> DEFINE w == tx[t].wi
           new == ApplyPath(row[w].log, tx[t].st, tx[t].rv, <<"COMPLETED">>, None)
<1>1. /\ w \in WorkItems
      /\ tx[t].rv = row[w].rev
      /\ row[w].state = "APPLYING_CHANGE"
  BY DEF IInv, TxOK, TxOKFor, ReadOf, CompleteCommit
<1>2. row[w].log \in Seq(LogEntry) /\ row[w].rev \in Nat
  BY <1>1 DEF IInv, TypeOK, Row
<1>3. tx[t].st \in States \cup {"ABSENT"} /\ tx[t].rv \in Nat
  BY DEF IInv, TypeOK, Tx
<1>4. new \in Row
  BY <1>2, <1>3, PathTypes, ApplyPathType
<1>5. new.state = "COMPLETED" /\ new.rev = row[w].rev + 1
  <2>1. Len(<<"COMPLETED">>) = 1 /\ <<"COMPLETED">>[1] = "COMPLETED"
    OBVIOUS
  <2>2. QED
    BY <1>1, <2>1 DEF ApplyPath
<1>6. row' = [row EXCEPT ![w] = new] /\ item' = [item EXCEPT ![w] = "COMPLETED"]
  BY DEF CompleteCommit
<1> HIDE DEF new
<1>7. /\ row'[w] = new /\ item'[w] = "COMPLETED"
      /\ \A v \in WorkItems : v # w => row'[v] = row[v] /\ item'[v] = item[v]
  BY <1>1, <1>6 DEF IInv, TypeOK
<1>8. TypeOK'
  <2>1. Progress(w, "COMPLETED") \in Seq(Event)
    BY <1>1 DEF Progress, Event, States, Terminal
  <2>2. QED
    BY <1>1, <1>4, <1>6, <2>1 DEF IInv, TypeOK, CompleteCommit, Finish, NoTx, Tx, Ops
<1>9. Kept /\ approval' = approval
  BY DEF Kept, CompleteCommit
<1>10. FreshRows' /\ NoStrandedRun' /\ WaitingHoldsNoLease' /\ ItemFollowsWorkflow' /\ TxOK'
  <2>1. tx'[t] = NoTx /\ \A u \in Workers : u # t => tx'[u] = tx[u]
    BY DEF CompleteCommit, Finish, IInv, TypeOK
  <2>2. row'[w].rev > row[w].rev /\ row'[w].state = "COMPLETED"
    BY <1>2, <1>5, <1>7
  <2>3. QED
    BY <1>1, <1>7, <1>8, <1>9, <2>1, <2>2, MoveStep DEF Resting, Waiting, Terminal
<1>11. (ApprovalsOK /\ OpenOnlyWhileWaiting)'
  <2>1. \A a \in Approvals : approval[a].status \in {"REQUESTED", "EXPIRED"} => approval[a].wi # w
    BY <1>1 DEF IInv, OpenOnlyWhileWaiting, WaitingFor
  <2>2. OpenOnlyWhileWaiting'
    BY <1>7, <1>9, <2>1 DEF IInv, OpenOnlyWhileWaiting, ApprovalsOK, WaitingFor
  <2>3. ApprovalsOK'
    BY <1>5, <1>7, <1>9 DEF IInv, ApprovalsOK
  <2>4. QED
    BY <2>2, <2>3
<1>12. WaitingHasApproval'
  BY <1>5, <1>7, <1>9 DEF IInv, WaitingHasApproval, WaitingFor, Waiting
<1>13. QED
  BY <1>8, <1>10, <1>11, <1>12 DEF IInv

\* A new work item: no approval can name it yet.
LEMMA SubmitStep ==
  ASSUME IInv, NEW t \in Workers, NEW w \in WorkItems, NEW ws \in Workspaces, NEW d \in Hashes,
         NEW a \in Approvals, Submit(t, w, ws, d, a)
  PROVE  IInv'
<1> DEFINE new == ApplyPath(ReceivedRow.log, "RECEIVED", ReceivedRow.rev, StartPath, None)
           apr == Requested(w, "DESIGN")
<1>1. new \in Row
  <2>1. ReceivedRow.log \in Seq(LogEntry) /\ ReceivedRow.rev \in Nat
    BY DEF ReceivedRow, LogEntry, States
  <2>2. "RECEIVED" \in States \cup {"ABSENT"}
    BY DEF States
  <2>3. QED
    BY <2>1, <2>2, PathTypes, ApplyPathType
<1>2. new.state = "WAITING_DESIGN_APPROVAL" /\ new.rev = 4 /\ new.lease = "free"
  <2>1. Len(StartPath) = 4 /\ StartPath[4] = "WAITING_DESIGN_APPROVAL" /\ ReceivedRow.rev = 0
    BY DEF StartPath, ReceivedRow
  <2>2. QED
    BY <2>1 DEF ApplyPath, Waiting
<1>3. /\ apr \in Approval
      /\ apr.wi = w /\ apr.type = "DESIGN" /\ apr.status = "REQUESTED"
  BY DEF Requested, Approval, Types, Statuses
<1>4. /\ row' = [row EXCEPT ![w] = new]
      /\ item' = [item EXCEPT ![w] = "OPEN"]
      /\ approval' = [approval EXCEPT ![a] = apr]
  BY DEF Submit
<1> HIDE DEF new, apr
<1>5. /\ row'[w] = new /\ item'[w] = "OPEN" /\ approval'[a] = apr
      /\ \A v \in WorkItems : v # w => row'[v] = row[v] /\ item'[v] = item[v]
      /\ \A b \in Approvals : b # a => approval'[b] = approval[b]
  BY <1>4 DEF IInv, TypeOK
<1>6. TypeOK'
  <2>1. "WAITING_DESIGN_APPROVAL" \in States \cup {"ABSENT"}
    BY DEF States, Waiting
  <2>2. Progress(w, "WAITING_DESIGN_APPROVAL") \o View(w, "WAITING_DESIGN_APPROVAL", a) \in Seq(Event)
    BY <2>1, EventSeqs
  <2>3. row' \in [WorkItems -> Row] /\ approval' \in [Approvals -> Approval]
    BY <1>1, <1>3, <1>4 DEF IInv, TypeOK
  <2>4. tx' \in [Workers -> Tx] /\ outcome' \in [Workers -> Seq(Event)]
    BY <2>2 DEF IInv, TypeOK, Submit, Finish, NoTx, Tx, Ops
  <2>5. QED
    BY <1>4, <2>3, <2>4 DEF IInv, TypeOK, Submit
<1>7. row[w].state = "ABSENT" /\ row[w].rev \in Nat /\ approval[a].status = "ABSENT"
  BY DEF Submit, IInv, TypeOK, Row
<1>8. \A b \in Approvals : approval[b].wi # w
  BY <1>7, NoneIsNoId DEF IInv, ApprovalsOK
<1>9. Kept
  BY <1>5, <1>7 DEF Kept
<1>10. FreshRows' /\ NoStrandedRun' /\ WaitingHoldsNoLease' /\ ItemFollowsWorkflow' /\ TxOK'
  <2>1. tx'[t] = NoTx /\ \A u \in Workers : u # t => tx'[u] = tx[u]
    BY DEF Submit, Finish, IInv, TypeOK
  <2>2. row'[w].rev > row[w].rev
    BY <1>2, <1>5, <1>7 DEF IInv, FreshRows
  <2>3. QED
    BY <1>2, <1>5, <1>6, <1>7, <1>9, <2>1, <2>2, MoveStep DEF Resting, Waiting
<1>11. ApprovalsOK'
  BY <1>2, <1>3, <1>5, <1>8 DEF IInv, ApprovalsOK, Types
<1>12. OpenOnlyWhileWaiting'
  <2>1. ASSUME NEW x \in Approvals, NEW y \in Approvals, approval'[x].status # "ABSENT",
               approval'[x].wi = approval'[y].wi, approval'[x].type = approval'[y].type
        PROVE  x = y
    BY <1>3, <1>5, <1>8, <2>1 DEF IInv, OpenOnlyWhileWaiting
  <2>2. ASSUME NEW x \in Approvals, approval'[x].status \in {"REQUESTED", "EXPIRED"}
        PROVE  row'[approval'[x].wi].state = WaitingFor(approval'[x].type)
    <3>1. CASE x = a
      BY <1>2, <1>3, <1>5, <3>1 DEF WaitingFor
    <3>2. CASE x # a
      BY <1>5, <1>8, <2>2, <3>2 DEF IInv, OpenOnlyWhileWaiting, ApprovalsOK
    <3>3. QED
      BY <3>1, <3>2
  <2>3. QED
    BY <2>1, <2>2 DEF OpenOnlyWhileWaiting, WaitingFor
<1>13. WaitingHasApproval'
  <2>1. ASSUME NEW v \in WorkItems, row'[v].state \in Waiting
        PROVE  \E b \in Approvals : /\ approval'[b].wi = v
                                    /\ WaitingFor(approval'[b].type) = row'[v].state
                                    /\ approval'[b].status \in {"REQUESTED", "EXPIRED"}
    <3>1. CASE v = w
      BY <1>2, <1>3, <1>5, <3>1 DEF WaitingFor
    <3>2. CASE v # w
      <4>1. PICK b \in Approvals : /\ approval[b].wi = v
                                   /\ WaitingFor(approval[b].type) = row[v].state
                                   /\ approval[b].status \in {"REQUESTED", "EXPIRED"}
        BY <1>5, <2>1, <3>2 DEF IInv, WaitingHasApproval
      <4>2. approval'[b] = approval[b]
        BY <1>5, <1>7, <4>1
      <4>3. QED
        BY <1>5, <3>2, <4>1, <4>2
    <3>3. QED
      BY <3>1, <3>2
  <2>2. QED
    BY <2>1 DEF WaitingHasApproval, WaitingFor
<1>14. QED
  BY <1>6, <1>10, <1>11, <1>12, <1>13 DEF IInv

\* A transaction whose two conditional UPDATEs succeed read the current row,
\* and no other approval of the item is open.
LEMMA ConsumeReads ==
  ASSUME IInv, NEW t \in Workers, ConsumeGuard(t)
  PROVE  /\ tx[t] \in Tx
         /\ tx[t].apr \in Approvals
         /\ tx[t].dec \in {"APPROVE", "REJECT"}
         /\ approval[tx[t].apr].status = "REQUESTED"
         /\ approval[tx[t].apr].type \in Types
         /\ DecidedItem(t) \in WorkItems
         /\ tx[t].rv = row[DecidedItem(t)].rev
         /\ tx[t].st = row[DecidedItem(t)].state
         /\ row[DecidedItem(t)].state = WaitingFor(approval[tx[t].apr].type)
         /\ \A b \in Approvals :
              approval[b].wi = DecidedItem(t) /\ approval[b].status \in {"REQUESTED", "EXPIRED"} =>
                b = tx[t].apr
<1>1. tx[t] \in Tx /\ tx[t].apr \in Approvals /\ tx[t].dec \in {"APPROVE", "REJECT"}
  BY DEF IInv, TypeOK, TxOK, TxOKFor, ConsumeGuard
<1>2. approval[tx[t].apr].status = "REQUESTED" /\ tx[t].rv = row[DecidedItem(t)].rev
  BY DEF ConsumeGuard
<1>3. approval[tx[t].apr].type \in Types /\ DecidedItem(t) \in WorkItems
  BY <1>1, <1>2 DEF IInv, ApprovalsOK, DecidedItem
<1>4. tx[t].st = row[DecidedItem(t)].state
  BY <1>2 DEF IInv, TxOK, TxOKFor, ReadOf, ConsumeGuard, DecidedItem
<1>5. row[DecidedItem(t)].state = WaitingFor(approval[tx[t].apr].type)
  BY <1>1, <1>2 DEF IInv, OpenOnlyWhileWaiting, DecidedItem
<1>6. ASSUME NEW b \in Approvals, approval[b].wi = DecidedItem(t),
             approval[b].status \in {"REQUESTED", "EXPIRED"}
      PROVE  b = tx[t].apr
  <2>1. approval[b].type \in Types /\ WaitingFor(approval[b].type) = row[DecidedItem(t)].state
    BY <1>6 DEF IInv, OpenOnlyWhileWaiting, ApprovalsOK
  <2>2. approval[b].type = approval[tx[t].apr].type
    BY <1>3, <1>5, <2>1 DEF WaitingFor, Types
  <2>3. QED
    BY <1>1, <1>6, <2>2 DEF IInv, OpenOnlyWhileWaiting, DecidedItem
<1>7. QED
  BY <1>1, <1>2, <1>3, <1>4, <1>5, <1>6

\* The row a decision leaves.
LEMMA DecidedRowIs ==
  ASSUME IInv, NEW t \in Workers, ConsumeGuard(t), NEW path \in Seq(States), path # <<>>,
         DecidedRow(t, path)
  PROVE  /\ row' \in [WorkItems -> Row]
         /\ \A v \in WorkItems : v # DecidedItem(t) => row'[v] = row[v]
         /\ row'[DecidedItem(t)].state = path[Len(path)]
         /\ row'[DecidedItem(t)].rev = row[DecidedItem(t)].rev + Len(path)
         /\ path[Len(path)] \in Waiting \cup Terminal => row'[DecidedItem(t)].lease = "free"
         /\ UNCHANGED <<item, workspace, design, bind>>
<1> DEFINE w == DecidedItem(t)
           new == ApplyPath(row[w].log, tx[t].st, tx[t].rv, path, tx[t].apr)
<1>1. /\ w \in WorkItems /\ tx[t].apr \in Approvals
      /\ tx[t].st \in States \cup {"ABSENT"} /\ tx[t].rv \in Nat /\ tx[t].rv = row[w].rev
  BY ConsumeReads DEF Tx
<1>2. row[w].log \in Seq(LogEntry) /\ row \in [WorkItems -> Row]
  BY <1>1 DEF IInv, TypeOK, Row
<1>3. new \in Row
  BY <1>1, <1>2, ApplyPathType
<1>4. /\ new.state = path[Len(path)]
      /\ new.rev = row[w].rev + Len(path)
      /\ path[Len(path)] \in Waiting \cup Terminal => new.lease = "free"
  BY <1>1 DEF ApplyPath
<1>5. row' = [row EXCEPT ![w] = new] /\ UNCHANGED <<item, workspace, design, bind>>
  BY DEF DecidedRow
<1> HIDE DEF new, w
<1>6. row' \in [WorkItems -> Row] /\ row'[w] = new
  BY <1>1, <1>2, <1>3, <1>5
<1>7. \A v \in WorkItems : v # w => row'[v] = row[v]
  BY <1>1, <1>2, <1>5
<1>8. QED
  BY <1>4, <1>5, <1>6, <1>7 DEF w

\* The approval row a decision leaves.
LEMMA ConsumedIs ==
  ASSUME IInv, NEW t \in Workers, ConsumeGuard(t)
  PROVE  /\ Consumed(t) \in Approval
         /\ Consumed(t).wi = DecidedItem(t)
         /\ Consumed(t).type = approval[tx[t].apr].type
         /\ Consumed(t).status \in {"CONSUMED", "REJECTED"}
<1>1. approval[tx[t].apr] \in Approval /\ tx[t].hash \in Hashes \cup {None}
  BY ConsumeReads DEF IInv, TypeOK, Tx
<1>2. QED
  BY <1>1 DEF Consumed, DecidedItem, Approval, Statuses

\* A decision consumes the one open approval of its item and moves the
\* workflow on, to rest or to the run that opens the next gate.
LEMMA DecideCommitStep ==
  ASSUME IInv, NEW t \in Workers, DecideCommit(t)
  PROVE  IInv'
<1> DEFINE w == DecidedItem(t)
           a == tx[t].apr
           path == AfterDecision(approval[a].type, tx[t].dec)
           new == Consumed(t)
<1>0. /\ ConsumeGuard(t)
      /\ Len(path) = 1
      /\ DecidedRow(t, path)
      /\ approval' = [approval EXCEPT ![a] = new]
      /\ Finish(t, Progress(w, path[1]))
  BY DEF DecideCommit
<1>1. /\ w \in WorkItems /\ a \in Approvals
      /\ approval[a].wi = w /\ approval[a].status = "REQUESTED" /\ approval[a].type \in Types
      /\ row[w].state = WaitingFor(approval[a].type)
      /\ \A b \in Approvals :
           approval[b].wi = w /\ approval[b].status \in {"REQUESTED", "EXPIRED"} => b = a
  BY <1>0, ConsumeReads DEF DecidedItem
<1>2. path[1] \in {"REJECTED", "APPLYING_CHANGE"} /\ path \in Seq(States) /\ path # <<>>
  <2>1. tx[t].dec \in {"APPROVE", "REJECT"}
    BY <1>0, ConsumeReads
  <2>2. path \in Seq(States) /\ path # <<>>
    BY PathTypes
  <2>3. path = <<"REJECTED">> \/ path = <<"APPLYING_CHANGE">>
    BY <1>0, <1>1, <2>1, DecisionPaths
  <2>4. QED
    BY <2>2, <2>3
<1>3. /\ new \in Approval /\ new.wi = w /\ new.type = approval[a].type
      /\ new.status \in {"CONSUMED", "REJECTED"}
  BY <1>0, ConsumedIs
<1>4. /\ row' \in [WorkItems -> Row]
      /\ \A v \in WorkItems : v # w => row'[v] = row[v]
      /\ row'[w].state = path[1]
      /\ row'[w].rev = row[w].rev + 1
      /\ UNCHANGED <<item, workspace, design, bind>>
  BY <1>0, <1>2, DecidedRowIs
<1> HIDE DEF w, a, path, new
<1>5. approval'[a] = new /\ \A b \in Approvals : b # a => approval'[b] = approval[b]
  BY <1>0, <1>1 DEF IInv, TypeOK
<1>6. TypeOK'
  <2>1. Progress(w, path[1]) \in Seq(Event)
    BY <1>1, <1>2 DEF Progress, Event, States, Terminal
  <2>2. tx' \in [Workers -> Tx] /\ outcome' \in [Workers -> Seq(Event)]
    BY <1>0, <2>1 DEF IInv, TypeOK, Finish, NoTx, Tx, Ops
  <2>3. approval' \in [Approvals -> Approval]
    BY <1>0, <1>3 DEF IInv, TypeOK
  <2>4. QED
    BY <1>4, <2>2, <2>3 DEF IInv, TypeOK
<1>7. Kept
  BY <1>1, <1>3, <1>5 DEF Kept
<1>8. FreshRows' /\ NoStrandedRun' /\ WaitingHoldsNoLease' /\ ItemFollowsWorkflow' /\ TxOK'
  <2>1. tx'[t] = NoTx /\ \A u \in Workers : u # t => tx'[u] = tx[u]
    BY <1>0 DEF Finish, IInv, TypeOK
  <2>2. row'[w].rev > row[w].rev
    BY <1>1, <1>4 DEF IInv, TypeOK, Row
  <2>3. item'[w] # "COMPLETED" /\ row[w].state \notin {"APPLYING_CHANGE", "COMPLETED"}
    BY <1>1, <1>4 DEF IInv, ItemFollowsWorkflow, WaitingFor
  <2>4. QED
    BY <1>1, <1>2, <1>4, <1>6, <1>7, <2>1, <2>2, <2>3, MoveStep DEF Resting, Waiting, Terminal
<1>9. ApprovalsOK'
  BY <1>1, <1>2, <1>3, <1>4, <1>5 DEF IInv, ApprovalsOK
<1>10. OpenOnlyWhileWaiting'
  <2>1. \A b \in Approvals : /\ approval'[b].wi = approval[b].wi
                             /\ approval'[b].type = approval[b].type
                             /\ approval'[b].status # "ABSENT" => approval[b].status # "ABSENT"
    BY <1>1, <1>3, <1>5
  <2>2. ASSUME NEW x \in Approvals, approval'[x].status \in {"REQUESTED", "EXPIRED"}
        PROVE  row'[approval'[x].wi].state = WaitingFor(approval'[x].type)
    BY <1>1, <1>3, <1>4, <1>5, <2>2 DEF IInv, OpenOnlyWhileWaiting, ApprovalsOK
  <2>3. \A x, y \in Approvals :
          /\ approval'[x].status # "ABSENT"
          /\ approval'[x].wi = approval'[y].wi
          /\ approval'[x].type = approval'[y].type
          => x = y
    BY <2>1 DEF IInv, OpenOnlyWhileWaiting
  <2>4. QED
    BY <2>2, <2>3 DEF OpenOnlyWhileWaiting, WaitingFor
<1>11. WaitingHasApproval'
  <2>1. ASSUME NEW v \in WorkItems, row'[v].state \in Waiting
        PROVE  \E b \in Approvals : /\ approval'[b].wi = v
                                    /\ WaitingFor(approval'[b].type) = row'[v].state
                                    /\ approval'[b].status \in {"REQUESTED", "EXPIRED"}
    <3>1. v # w
      BY <1>2, <1>4, <2>1 DEF Waiting
    <3>2. PICK b \in Approvals : /\ approval[b].wi = v
                                 /\ WaitingFor(approval[b].type) = row[v].state
                                 /\ approval[b].status \in {"REQUESTED", "EXPIRED"}
      BY <1>4, <2>1, <3>1 DEF IInv, WaitingHasApproval
    <3>3. QED
      BY <1>1, <1>4, <1>5, <3>1, <3>2
  <2>2. QED
    BY <2>1 DEF WaitingHasApproval, WaitingFor
<1>12. QED
  BY <1>6, <1>8, <1>9, <1>10, <1>11 DEF IInv

\* The new code approval b is the item's first: the row still waited for the
\* design, and ApprovalsOK allows no code approval that early.
LEMMA DecideImplementStep ==
  ASSUME IInv, NEW t \in Workers, NEW b \in Approvals, DecideImplement(t, b)
  PROVE  IInv'
<1> DEFINE w == DecidedItem(t)
           a == tx[t].apr
           path == AfterDecision(approval[a].type, tx[t].dec)
           new == Consumed(t)
           req == Requested(w, "CODE_CHANGE")
<1>0. /\ ConsumeGuard(t)
      /\ Len(path) = 4
      /\ approval[b].status = "ABSENT"
      /\ DecidedRow(t, path)
      /\ approval' = [approval EXCEPT ![a] = new, ![b] = req]
      /\ Finish(t, Progress(w, path[4]) \o View(w, path[4], b))
  BY DEF DecideImplement
<1>1. /\ w \in WorkItems /\ a \in Approvals
      /\ approval[a].wi = w /\ approval[a].status = "REQUESTED" /\ approval[a].type \in Types
      /\ row[w].state = WaitingFor(approval[a].type)
      /\ \A c \in Approvals :
           approval[c].wi = w /\ approval[c].status \in {"REQUESTED", "EXPIRED"} => c = a
  BY <1>0, ConsumeReads DEF DecidedItem
<1>2. /\ path[4] = "WAITING_CODE_APPROVAL" /\ approval[a].type = "DESIGN"
      /\ path \in Seq(States) /\ path # <<>>
  <2>1. tx[t].dec \in {"APPROVE", "REJECT"}
    BY <1>0, ConsumeReads
  <2>2. path \in Seq(States) /\ path # <<>>
    BY PathTypes
  <2>3. QED
    BY <1>0, <1>1, <2>1, <2>2, DecisionPaths
<1>3. /\ new \in Approval /\ new.wi = w /\ new.type = "DESIGN"
      /\ new.status \in {"CONSUMED", "REJECTED"}
  BY <1>0, <1>2, ConsumedIs
<1>4. /\ req \in Approval /\ req.wi = w /\ req.type = "CODE_CHANGE" /\ req.status = "REQUESTED"
  BY <1>1 DEF Requested, Approval, Types, Statuses
<1>5. /\ row' \in [WorkItems -> Row]
      /\ \A v \in WorkItems : v # w => row'[v] = row[v]
      /\ row'[w].state = "WAITING_CODE_APPROVAL"
      /\ row'[w].rev = row[w].rev + 4
      /\ row'[w].lease = "free"
      /\ UNCHANGED <<item, workspace, design, bind>>
  BY <1>0, <1>2, DecidedRowIs DEF Waiting
<1> HIDE DEF w, a, path, new, req
<1>6. /\ a # b /\ approval'[a] = new /\ approval'[b] = req
      /\ \A c \in Approvals : c # a /\ c # b => approval'[c] = approval[c]
  BY <1>0, <1>1 DEF IInv, TypeOK
<1>7. \A c \in Approvals : approval[c].wi = w => approval[c].type # "CODE_CHANGE"
  <2>1. row[w].state = "WAITING_DESIGN_APPROVAL"
    BY <1>1, <1>2 DEF WaitingFor
  <2>2. QED
    BY <1>1, <2>1, NoneIsNoId DEF IInv, ApprovalsOK
<1>8. TypeOK'
  <2>1. path[4] \in States \cup {"ABSENT"}
    BY <1>2 DEF States, Waiting
  <2>2. Progress(w, path[4]) \o View(w, path[4], b) \in Seq(Event)
    BY <1>1, <2>1, EventSeqs
  <2>3. tx' \in [Workers -> Tx] /\ outcome' \in [Workers -> Seq(Event)]
    BY <1>0, <2>2 DEF IInv, TypeOK, Finish, NoTx, Tx, Ops
  <2>4. approval' \in [Approvals -> Approval]
    BY <1>0, <1>3, <1>4 DEF IInv, TypeOK
  <2>5. QED
    BY <1>5, <2>3, <2>4 DEF IInv, TypeOK
<1>9. Kept
  BY <1>0, <1>1, <1>2, <1>3, <1>6 DEF Kept
<1>10. FreshRows' /\ NoStrandedRun' /\ WaitingHoldsNoLease' /\ ItemFollowsWorkflow' /\ TxOK'
  <2>1. tx'[t] = NoTx /\ \A u \in Workers : u # t => tx'[u] = tx[u]
    BY <1>0 DEF Finish, IInv, TypeOK
  <2>2. row'[w].rev > row[w].rev
    BY <1>1, <1>5 DEF IInv, TypeOK, Row
  <2>3. item'[w] # "COMPLETED" /\ row[w].state \notin {"APPLYING_CHANGE", "COMPLETED"}
    BY <1>1, <1>5 DEF IInv, ItemFollowsWorkflow, WaitingFor
  <2>4. QED
    BY <1>1, <1>5, <1>8, <1>9, <2>1, <2>2, <2>3, MoveStep DEF Resting, Waiting, Terminal
<1>11. ApprovalsOK'
  BY <1>1, <1>3, <1>4, <1>5, <1>6 DEF IInv, ApprovalsOK, Types
<1>12. OpenOnlyWhileWaiting'
  <2>1. ASSUME NEW x \in Approvals, NEW y \in Approvals, approval'[x].status # "ABSENT",
               approval'[x].wi = approval'[y].wi, approval'[x].type = approval'[y].type
        PROVE  x = y
    <3>1. CASE x = b \/ y = b
      BY <1>3, <1>4, <1>6, <1>7, <2>1, <3>1
    <3>2. CASE x # b /\ y # b
      BY <1>1, <1>2, <1>3, <1>6, <2>1, <3>2 DEF IInv, OpenOnlyWhileWaiting
    <3>3. QED
      BY <3>1, <3>2
  <2>2. ASSUME NEW x \in Approvals, approval'[x].status \in {"REQUESTED", "EXPIRED"}
        PROVE  row'[approval'[x].wi].state = WaitingFor(approval'[x].type)
    <3>1. CASE x = b
      BY <1>4, <1>5, <1>6, <3>1 DEF WaitingFor
    <3>2. CASE x # b
      BY <1>1, <1>3, <1>5, <1>6, <2>2, <3>2 DEF IInv, OpenOnlyWhileWaiting, ApprovalsOK
    <3>3. QED
      BY <3>1, <3>2
  <2>3. QED
    BY <2>1, <2>2 DEF OpenOnlyWhileWaiting, WaitingFor
<1>13. WaitingHasApproval'
  <2>1. ASSUME NEW v \in WorkItems, row'[v].state \in Waiting
        PROVE  \E c \in Approvals : /\ approval'[c].wi = v
                                    /\ WaitingFor(approval'[c].type) = row'[v].state
                                    /\ approval'[c].status \in {"REQUESTED", "EXPIRED"}
    <3>1. CASE v = w
      BY <1>4, <1>5, <1>6, <3>1 DEF WaitingFor
    <3>2. CASE v # w
      <4>1. PICK c \in Approvals : /\ approval[c].wi = v
                                   /\ WaitingFor(approval[c].type) = row[v].state
                                   /\ approval[c].status \in {"REQUESTED", "EXPIRED"}
        BY <1>5, <2>1, <3>2 DEF IInv, WaitingHasApproval
      <4>2. approval'[c] = approval[c]
        BY <1>0, <1>1, <1>6, <3>2, <4>1
      <4>3. QED
        BY <1>5, <3>2, <4>1, <4>2
    <3>3. QED
      BY <3>1, <3>2
  <2>2. QED
    BY <2>1 DEF WaitingHasApproval, WaitingFor
<1>14. QED
  BY <1>8, <1>10, <1>11, <1>12, <1>13 DEF IInv

-----------------------------------------------------------------------------
\* A step that changes nothing keeps the invariant.
LEMMA StutterStep ==
  ASSUME IInv, UNCHANGED vars
  PROVE  IInv'
BY DEF IInv, vars, TypeOK, FreshRows, NoStrandedRun, ApprovalsOK, OpenOnlyWhileWaiting,
       WaitingHasApproval, WaitingHoldsNoLease, ItemFollowsWorkflow, TxOK, TxOKFor, ReadOf, WaitingFor

\* No step of any handler, and no passing of time, breaks the invariant.
LEMMA NextInv == IInv /\ [Next]_vars => IInv'
<1> SUFFICES ASSUME IInv, [Next]_vars PROVE IInv'
  OBVIOUS
<1>1. ASSUME NEW t \in Workers, Handle(t) PROVE IInv'
  BY <1>1, SubmitStep, DecideCheckStep, DecideExpiredStep, DecideLoadStep, DecideCommitStep,
     DecideImplementStep, CompleteLoadStep, CompleteCommitStep, CompleteAgainStep, ResumeLoadStep,
     ResumeCommitStep, BindCheckStep, BindCommitStep, RollbackStep, EmitStep DEF Handle
<1>2. ASSUME NEW a \in Approvals, ApprovalLate(a) PROVE IInv'
  BY <1>2, ApprovalLateStep
<1>3. ASSUME NEW w \in WorkItems, LeaseLapses(w) PROVE IInv'
  BY <1>3, LeaseLapsesStep
<1>4. QED
  BY <1>1, <1>2, <1>3, StutterStep DEF Next

\* The invariant holds of every reachable state, for any number of work items,
\* approvals and handler threads.
THEOREM Invariance == Spec => []IInv
BY InitInv, NextInv, PTL DEF Spec

-----------------------------------------------------------------------------
(* What follows from it.                                                   *)

\* Every column, transaction and event has its type, however handlers interleave.
THEOREM TypeCorrect == Spec => []TypeOK
BY Invariance, PTL DEF IInv

\* WorkflowEngine opens one approval per gate, and a decided or passed gate
\* leaves nothing open that a late approval.decide could still use.
THEOREM OpenApprovals == Spec => []OpenOnlyWhileWaiting
BY Invariance, PTL DEF IInv

\* A workflow that waits always has the approval the user can be shown, and no
\* lease: applyTransition releases it on entering a waiting state, and no
\* resumeAfterRestart that acts on an old read gives it back.
THEOREM WaitingStaysDecidable == Spec => []WaitingIsDecidable
BY Invariance, PTL DEF IInv, WaitingIsDecidable

\* No rollback or crash of a handler leaves a workflow in a state that only a
\* running handler would leave, and completeAfterApply closes the work item
\* together with its workflow.
THEOREM NothingStranded == Spec => []CommitsAreWhole
BY Invariance, PTL DEF IInv, CommitsAreWhole

\* No handler writes an approval row that is already decided or expired.
LEMMA FinalStep ==
  ASSUME IInv, [Next]_vars, NEW c \in Approvals,
         approval[c].status \in {"CONSUMED", "REJECTED", "EXPIRED"}
  PROVE  approval'[c] = approval[c]
<1>1. ASSUME NEW t \in Workers, Handle(t) PROVE approval'[c] = approval[c]
  <2>1. ASSUME NEW w \in WorkItems, NEW ws \in Workspaces, NEW d \in Hashes, NEW a \in Approvals,
               Submit(t, w, ws, d, a)
        PROVE  approval'[c] = approval[c]
    BY <2>1 DEF Submit, IInv, TypeOK
  <2>2. ASSUME NEW a \in Approvals, DecideExpired(t, a) PROVE approval'[c] = approval[c]
    BY <2>2 DEF DecideExpired, IInv, TypeOK
  <2>3. ASSUME DecideCommit(t) PROVE approval'[c] = approval[c]
    BY <2>3 DEF DecideCommit, ConsumeGuard, IInv, TypeOK
  <2>4. ASSUME NEW b \in Approvals, DecideImplement(t, b) PROVE approval'[c] = approval[c]
    BY <2>4 DEF DecideImplement, ConsumeGuard, IInv, TypeOK
  <2>5. CASE approval' = approval
    BY <2>5
  <2>6. QED
    BY <1>1, <2>1, <2>2, <2>3, <2>4, <2>5
       DEF Handle, DecideCheck, DecideLoad, CompleteLoad, CompleteCommit, CompleteAgain, ResumeLoad,
           ResumeCommit, BindCheck, BindCommit, Rollback, Emit, db
<1>2. ASSUME NEW a \in Approvals, ApprovalLate(a) PROVE approval'[c] = approval[c]
  BY <1>2 DEF ApprovalLate, Usable, IInv, TypeOK
<1>3. QED
  BY <1>1, <1>2 DEF Next, LeaseLapses, vars

\* Two decisions on one approval, or a decision and its expiry, have one winner.
THEOREM Finality == Spec => DecisionsAreFinal
<1>1. IInv /\ [Next]_vars =>
        [\A a \in Approvals : approval[a].status \in {"CONSUMED", "REJECTED", "EXPIRED"} =>
           approval'[a] = approval[a]]_vars
  BY FinalStep
<1>2. QED
  BY <1>1, Invariance, PTL DEF Spec, DecisionsAreFinal

=============================================================================
