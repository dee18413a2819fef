------------------------ MODULE ServerHistoryProofs ------------------------
(***************************************************************************)
(* What the server's tables remember: the audit trail workflow_transition, *)
(* the decisions behind it, the events a handler still has to send, and    *)
(* the promise of ApprovalGate.  Everything rests on the inductive         *)
(* invariant of WorkflowServerProofs: a commit whose conditional UPDATEs   *)
(* succeed acts on the rows as they are.                                   *)
(***************************************************************************)
EXTENDS WorkflowServerProofs

-----------------------------------------------------------------------------
(* How a step changes the tables                                           *)

\* A step that moves no workflow: states, revisions and histories stay, and an
\* approval at most expires.
AtRest ==
  /\ \A v \in WorkItems : /\ row'[v].state = row[v].state
                          /\ row'[v].rev = row[v].rev
                          /\ row'[v].log = row[v].log
  /\ \A a \in Approvals : /\ approval'[a].wi = approval[a].wi
                          /\ approval'[a].type = approval[a].type
                          /\ \/ approval'[a].status = approval[a].status
                             \/ approval[a].status = "REQUESTED" /\ approval'[a].status = "EXPIRED"

\* Writing a lease keeps state, revision and history.
LEMMA LeaseKeepsRow ==
  ASSUME IInv, NEW w \in WorkItems, NEW l, row' = [row EXCEPT ![w].lease = l]
  PROVE  \A v \in WorkItems : /\ row'[v].state = row[v].state
                              /\ row'[v].rev = row[v].rev
                              /\ row'[v].log = row[v].log
<1>1. row \in [WorkItems -> Row] /\ row[w] \in Row
  BY DEF IInv, TypeOK
<1>2. row'[w] = [row[w] EXCEPT !.lease = l] /\ \A v \in WorkItems \ {w} : row'[v] = row[v]
  BY <1>1
<1> QED
  BY <1>1, <1>2 DEF Row

\* The steps that move a workflow are chat.submit, a decision and
\* apply.completed; every other step is at rest.
LEMMA StepKinds ==
  ASSUME IInv, [Next]_vars
  PROVE  \/ AtRest
         \/ \E t \in Workers :
              \/ \E w \in WorkItems, ws \in Workspaces, d \in Hashes, a \in Approvals :
                   Submit(t, w, ws, d, a)
              \/ DecideCommit(t)
              \/ \E b \in Approvals : DecideImplement(t, b)
              \/ CompleteCommit(t)
<1>1. row' = row /\ approval' = approval => AtRest
  BY DEF AtRest
<1>2. ASSUME NEW a \in Approvals, approval[a].status = "REQUESTED", row' = row,
             \/ approval' = [approval EXCEPT ![a].status = "EXPIRED"]
             \/ approval' = [approval EXCEPT ![a].late = TRUE]
      PROVE  AtRest
  <2>1. approval \in [Approvals -> Approval] /\ approval[a] \in Approval
    BY DEF IInv, TypeOK
  <2>2. \A b \in Approvals \ {a} : approval'[b] = approval[b]
    BY <1>2, <2>1
  <2>3. \/ approval'[a] = [approval[a] EXCEPT !.status = "EXPIRED"]
        \/ approval'[a] = [approval[a] EXCEPT !.late = TRUE]
    BY <1>2, <2>1
  <2>4. /\ approval'[a].wi = approval[a].wi
        /\ approval'[a].type = approval[a].type
        /\ approval'[a].status \in {approval[a].status, "EXPIRED"}
    <3>1. CASE approval'[a] = [approval[a] EXCEPT !.status = "EXPIRED"]
      BY <2>1, <3>1 DEF Approval
    <3>2. CASE approval'[a] = [approval[a] EXCEPT !.late = TRUE]
      BY <2>1, <3>2 DEF Approval
    <3> QED
      BY <2>3, <3>1, <3>2
  <2> QED
    BY <1>2, <2>2, <2>4 DEF AtRest
<1>3. ASSUME NEW w \in WorkItems, NEW l, row' = [row EXCEPT ![w].lease = l], approval' = approval
      PROVE  AtRest
  BY <1>3, LeaseKeepsRow DEF AtRest
<1>4. ASSUME NEW t \in Workers, ResumeCommit(t) PROVE AtRest
  <2>1. tx[t].wi \in WorkItems
    BY <1>4 DEF IInv, TxOK, TxOKFor, ResumeCommit
  <2> QED
    BY <1>1, <1>3, <1>4, <2>1 DEF ResumeCommit
<1>5. ASSUME NEW a \in Approvals, ApprovalLate(a) PROVE AtRest
  BY <1>2, <1>5 DEF ApprovalLate, Usable
<1>6. ASSUME NEW w \in WorkItems, LeaseLapses(w) PROVE AtRest
  BY <1>3, <1>6 DEF LeaseLapses
<1>7. ASSUME NEW t \in Workers, NEW a \in Approvals, DecideExpired(t, a) PROVE AtRest
  BY <1>2, <1>7 DEF DecideExpired
<1> QED
  BY <1>1, <1>4, <1>5, <1>6, <1>7
     DEF Next, Handle, DecideCheck, DecideLoad, CompleteLoad, CompleteAgain, ResumeLoad,
         BindCheck, BindCommit, Rollback, Emit, db, vars

\* What chat.submit writes.
LEMMA SubmitMoves ==
  ASSUME IInv, NEW t \in Workers, NEW w \in WorkItems, NEW ws \in Workspaces, NEW d \in Hashes,
         NEW a \in Approvals, Submit(t, w, ws, d, a)
  PROVE  /\ row[w].state = "ABSENT"
         /\ row'[w] = ApplyPath(ReceivedRow.log, "RECEIVED", 0, StartPath, None)
         /\ PathAllowed("RECEIVED", StartPath)
         /\ row'[w].state = "WAITING_DESIGN_APPROVAL"
         /\ \A v \in WorkItems : v # w => row'[v] = row[v]
         /\ approval[a].status = "ABSENT" /\ approval'[a] = Requested(w, "DESIGN")
         /\ \A b \in Approvals : b # a => approval'[b] = approval[b]
<1> DEFINE new == ApplyPath(ReceivedRow.log, "RECEIVED", 0, StartPath, None)
<1>1. ReceivedRow.rev = 0
  BY DEF ReceivedRow
<1>2. new.state = "WAITING_DESIGN_APPROVAL"
  BY DEF ApplyPath, StartPath
<1>3. row' = [row EXCEPT ![w] = new]
  BY <1>1 DEF Submit
<1> HIDE DEF new
<1>4. row'[w] = new /\ \A v \in WorkItems : v # w => row'[v] = row[v]
  BY <1>3 DEF IInv, TypeOK
<1>5. approval'[a] = Requested(w, "DESIGN") /\ \A b \in Approvals : b # a => approval'[b] = approval[b]
  BY DEF Submit, IInv, TypeOK
<1> QED
  BY <1>2, <1>4, <1>5 DEF Submit, new

\* What completeAfterApply writes.
LEMMA CompleteMoves ==
  ASSUME IInv, NEW t \in Workers, CompleteCommit(t), NEW w, w = tx[t].wi
  PROVE  /\ w \in WorkItems
         /\ row[w].state = "APPLYING_CHANGE"
         /\ row'[w] = ApplyPath(row[w].log, "APPLYING_CHANGE", row[w].rev, <<"COMPLETED">>, None)
         /\ PathAllowed("APPLYING_CHANGE", <<"COMPLETED">>)
         /\ row'[w].state = "COMPLETED"
         /\ \A v \in WorkItems : v # w => row'[v] = row[v]
         /\ approval' = approval
<1>1. /\ w \in WorkItems
      /\ tx[t].rv = row[w].rev
      /\ row[w].state = "APPLYING_CHANGE"
      /\ tx[t].st = "APPLYING_CHANGE"
  BY DEF IInv, TxOK, TxOKFor, ReadOf, CompleteCommit
<1> DEFINE new == ApplyPath(row[w].log, "APPLYING_CHANGE", row[w].rev, <<"COMPLETED">>, None)
<1>2. new.state = "COMPLETED"
  BY DEF ApplyPath
<1>3. row' = [row EXCEPT ![w] = new]
  BY <1>1 DEF CompleteCommit
<1> HIDE DEF new
<1>4. row'[w] = new /\ \A v \in WorkItems : v # w => row'[v] = row[v]
  BY <1>1, <1>3 DEF IInv, TypeOK
<1>5. approval' = approval /\ PathAllowed("APPLYING_CHANGE", <<"COMPLETED">>)
  BY <1>1 DEF CompleteCommit
<1> QED
  BY <1>1, <1>2, <1>4, <1>5 DEF new

\* What a decision writes: the approval a of w it was about, the row of w and,
\* when a design is approved, a fresh code approval.
Decided(w, a, path) ==
  /\ approval[a].wi = w /\ approval[a].status = "REQUESTED" /\ approval[a].type \in Types
  /\ row[w].state = WaitingFor(approval[a].type)
  /\ path \in Seq(States) /\ path # <<>>
  /\ PathAllowed(row[w].state, path)
  /\ row'[w] = ApplyPath(row[w].log, row[w].state, row[w].rev, path, a)
  /\ row'[w].state = path[Len(path)]
  /\ \A v \in WorkItems : v # w => row'[v] = row[v]
  /\ approval'[a].wi = w /\ approval'[a].type = approval[a].type
  /\ \/ path = <<"REJECTED">> /\ approval'[a].status = "REJECTED"
     \/ /\ path = <<"APPLYING_CHANGE">> /\ approval[a].type = "CODE_CHANGE"
        /\ approval'[a].status = "CONSUMED"
     \/ /\ path = <<"IMPLEMENTING", "REVIEWING", "PREPARING_CHANGE", "WAITING_CODE_APPROVAL">>
        /\ approval[a].type = "DESIGN" /\ approval'[a].status = "CONSUMED"
  /\ \A b \in Approvals : b # a =>
       \/ approval'[b] = approval[b]
       \/ approval[b].status = "ABSENT" /\ approval'[b] = Requested(w, "CODE_CHANGE")

\* AfterDecision is the path that fits the decision and the approval's type.
LEMMA PathOfDecision ==
  ASSUME NEW type \in Types, NEW dec \in {"APPROVE", "REJECT"},
         NEW path, path = AfterDecision(type, dec)
  PROVE  \/ path = <<"REJECTED">> /\ dec = "REJECT"
         \/ path = <<"APPLYING_CHANGE">> /\ dec = "APPROVE" /\ type = "CODE_CHANGE"
         \/ /\ path = <<"IMPLEMENTING", "REVIEWING", "PREPARING_CHANGE", "WAITING_CODE_APPROVAL">>
            /\ dec = "APPROVE" /\ type = "DESIGN"
BY DEF AfterDecision, Types

\* The row and the approval that every decision writes.
LEMMA DecisionWrites ==
  ASSUME IInv, NEW t \in Workers, ConsumeGuard(t), NEW w, w = DecidedItem(t), NEW a, a = tx[t].apr,
         NEW path, path = AfterDecision(approval[a].type, tx[t].dec), DecidedRow(t, path),
         approval'[a] = Consumed(t),
         \A b \in Approvals : b # a =>
           \/ approval'[b] = approval[b]
           \/ approval[b].status = "ABSENT" /\ approval'[b] = Requested(w, "CODE_CHANGE")
  PROVE  w \in WorkItems /\ a \in Approvals /\ Decided(w, a, path)
<1>1. /\ a \in Approvals /\ w \in WorkItems
      /\ tx[t].dec \in {"APPROVE", "REJECT"}
      /\ approval[a].wi = w /\ approval[a].status = "REQUESTED" /\ approval[a].type \in Types
      /\ tx[t].rv = row[w].rev /\ tx[t].st = row[w].state
      /\ row[w].state = WaitingFor(approval[a].type)
  BY ConsumeReads DEF DecidedItem
<1>2. path \in Seq(States) /\ path # <<>>
  BY PathTypes
<1>3. \/ path = <<"REJECTED">> /\ tx[t].dec = "REJECT"
      \/ path = <<"APPLYING_CHANGE">> /\ tx[t].dec = "APPROVE" /\ approval[a].type = "CODE_CHANGE"
      \/ /\ path = <<"IMPLEMENTING", "REVIEWING", "PREPARING_CHANGE", "WAITING_CODE_APPROVAL">>
         /\ tx[t].dec = "APPROVE" /\ approval[a].type = "DESIGN"
  BY <1>1, PathOfDecision
<1>4. row'[w].state = path[Len(path)] /\ \A v \in WorkItems : v # w => row'[v] = row[v]
  BY <1>2, DecidedRowIs
<1>5. row'[w] = ApplyPath(row[w].log, row[w].state, row[w].rev, path, a)
  <2> DEFINE new == ApplyPath(row[w].log, row[w].state, row[w].rev, path, a)
  <2>1. row' = [row EXCEPT ![w] = new]
    BY <1>1 DEF DecidedRow
  <2> HIDE DEF new
  <2> QED
    BY <1>1, <2>1 DEF IInv, TypeOK, new
<1>6. PathAllowed(row[w].state, path)
  BY <1>1 DEF DecidedRow
<1>7. /\ approval'[a].wi = w /\ approval'[a].type = approval[a].type
      /\ approval'[a].status = IF tx[t].dec = "APPROVE" THEN "CONSUMED" ELSE "REJECTED"
  <2>1. approval[a] \in Approval
    BY <1>1 DEF IInv, TypeOK
  <2> QED
    BY <1>1, <2>1 DEF Consumed, Approval
<1>8. \/ path = <<"REJECTED">> /\ approval'[a].status = "REJECTED"
      \/ /\ path = <<"APPLYING_CHANGE">> /\ approval[a].type = "CODE_CHANGE"
         /\ approval'[a].status = "CONSUMED"
      \/ /\ path = <<"IMPLEMENTING", "REVIEWING", "PREPARING_CHANGE", "WAITING_CODE_APPROVAL">>
         /\ approval[a].type = "DESIGN" /\ approval'[a].status = "CONSUMED"
  BY <1>3, <1>7
<1> QED
  BY <1>1, <1>2, <1>4, <1>5, <1>6, <1>7, <1>8 DEF Decided

\* Both commits of WorkflowEngine.decide write that.
LEMMA DecideMoves ==
  ASSUME IInv, NEW t \in Workers, DecideCommit(t) \/ \E b \in Approvals : DecideImplement(t, b)
  PROVE  /\ DecidedItem(t) \in WorkItems /\ tx[t].apr \in Approvals
         /\ Decided(DecidedItem(t), tx[t].apr, AfterDecision(approval[tx[t].apr].type, tx[t].dec))
<1> DEFINE w == DecidedItem(t)
           a == tx[t].apr
           path == AfterDecision(approval[a].type, tx[t].dec)
           new == Consumed(t)
           req == Requested(w, "CODE_CHANGE")
<1>1. ConsumeGuard(t) /\ DecidedRow(t, path)
  BY DEF DecideCommit, DecideImplement
<1>2. a \in Approvals
  BY <1>1, ConsumeReads
<1>3. \/ approval' = [approval EXCEPT ![a] = new]
      \/ \E b \in Approvals : /\ approval[b].status = "ABSENT"
                              /\ approval' = [approval EXCEPT ![a] = new, ![b] = req]
  BY DEF DecideCommit, DecideImplement
<1>4. approval[a].status # "ABSENT"
  BY <1>1 DEF ConsumeGuard
<1>5. /\ approval'[a] = new
      /\ \A b \in Approvals : b # a =>
           \/ approval'[b] = approval[b]
           \/ approval[b].status = "ABSENT" /\ approval'[b] = req
  <2> HIDE DEF new, req, a, w
  <2>1. CASE approval' = [approval EXCEPT ![a] = new]
    BY <1>2, <2>1 DEF IInv, TypeOK
  <2>2. ASSUME NEW b \in Approvals, approval[b].status = "ABSENT",
               approval' = [approval EXCEPT ![a] = new, ![b] = req]
        PROVE  /\ approval'[a] = new
               /\ \A c \in Approvals : c # a =>
                    \/ approval'[c] = approval[c]
                    \/ approval[c].status = "ABSENT" /\ approval'[c] = req
    BY <1>2, <1>4, <2>2 DEF IInv, TypeOK
  <2> QED
    BY <1>3, <2>1, <2>2
<1> HIDE DEF path
<1> QED
  BY <1>1, <1>5, DecisionWrites DEF path

-----------------------------------------------------------------------------
(* The audit trail                                                         *)

\* The rows of workflow_transition for a path, as insertTransition writes them.
Entries(s, path, by) ==
  [i \in 1 .. Len(path) |-> [from |-> Before(s, path, i), to |-> path[i],
                             by |-> IF i = 1 THEN by ELSE None]]

\* new is log followed by those rows.
Appended(new, log, s, path, by) ==
  /\ new \in Seq(LogEntry)
  /\ Len(new) = Len(log) + Len(path)
  /\ \A i \in 1 .. Len(log) : new[i] = log[i]
  /\ \A j \in 1 .. Len(path) : /\ new[Len(log) + j].from = Before(s, path, j)
                               /\ new[Len(log) + j].to = path[j]
                               /\ new[Len(log) + j].by = IF j = 1 THEN by ELSE None

\* A path of transitions keeps the history it finds and appends its own rows.
LEMMA GrownLog ==
  ASSUME NEW log \in Seq(LogEntry), NEW s \in States \cup {"ABSENT"}, NEW rv \in Nat,
         NEW path \in Seq(States), NEW by \in Approvals \cup {None},
         NEW r, r = ApplyPath(log, s, rv, path, by)
  PROVE  Appended(r.log, log, s, path, by)
<1> DEFINE new == r.log
           es == Entries(s, path, by)
<1>1. es \in Seq(LogEntry)
  BY EntriesAreSeq DEF Entries
<1>2. Len(es) = Len(path)
  BY DEF Entries
<1>3. new = log \o es
  BY DEF ApplyPath, Entries
<1>4. \A j \in 1 .. Len(path) : /\ es[j].from = Before(s, path, j)
                               /\ es[j].to = path[j]
                               /\ es[j].by = IF j = 1 THEN by ELSE None
  BY DEF Entries
<1> HIDE DEF es, new
<1>5. Len(log) \in Nat /\ Len(path) \in Nat
  OBVIOUS
<1>6. \A i \in 1 .. Len(log) : new[i] = log[i]
  BY <1>1, <1>3
<1>7. \A j \in 1 .. Len(path) : new[Len(log) + j] = es[j]
  BY <1>1, <1>2, <1>3, <1>5
<1>8. new \in Seq(LogEntry) /\ Len(new) = Len(log) + Len(path)
  <2>1. log \o es \in Seq(LogEntry)
    BY <1>1
  <2>2. Len(log \o es) = Len(log) + Len(es)
    BY <1>1
  <2> QED
    BY <1>2, <1>3, <2>1, <2>2
<1>9. Appended(new, log, s, path, by)
  BY <1>4, <1>6, <1>7, <1>8 DEF Appended
<1> QED
  BY <1>9 DEF new

\* A history that leads over allowed edges from creation to s at revision rv.
Chain(log, s, rv) ==
  /\ Len(log) = rv + 1
  /\ log[Len(log)].to = s
  /\ \A i \in 1 .. Len(log) :
       /\ <<log[i].from, log[i].to>> \in Allowed
       /\ log[i].from = IF i = 1 THEN "ABSENT" ELSE log[i - 1].to

\* applyTransition along an allowed path extends a history that led to the
\* state the path starts in.
LEMMA PathExtends ==
  ASSUME NEW log \in Seq(LogEntry), NEW s \in States \cup {"ABSENT"}, NEW rv \in Nat,
         NEW path \in Seq(States), path # <<>>, NEW by \in Approvals \cup {None},
         Chain(log, s, rv), PathAllowed(s, path),
         NEW r, r = ApplyPath(log, s, rv, path, by)
  PROVE  Chain(r.log, r.state, r.rev)
<1> DEFINE new == r.log
           n == Len(log)
           k == Len(path)
<1>1. /\ Len(new) = n + k
      /\ \A i \in 1 .. n : new[i] = log[i]
      /\ \A j \in 1 .. k : new[n + j].from = Before(s, path, j) /\ new[n + j].to = path[j]
  <2>1. Appended(new, log, s, path, by)
    BY GrownLog
  <2> HIDE DEF new
  <2> QED
    BY <2>1 DEF Appended
<1>2. r.state = path[k] /\ r.rev = rv + k
  BY DEF ApplyPath
<1>3. n = rv + 1 /\ n \in Nat /\ k \in Nat /\ k >= 1
  BY DEF Chain
<1> HIDE DEF n, k, new
<1>4. Len(new) = r.rev + 1 /\ new[Len(new)].to = r.state
  BY <1>1, <1>2, <1>3
<1>5. ASSUME NEW i \in 1 .. n
      PROVE  /\ <<new[i].from, new[i].to>> \in Allowed
             /\ new[i].from = IF i = 1 THEN "ABSENT" ELSE new[i - 1].to
  <2>1. new[i] = log[i] /\ (i # 1 => new[i - 1] = log[i - 1])
    BY <1>1, <1>3
  <2> QED
    BY <2>1 DEF Chain, n
<1>6. ASSUME NEW j \in 1 .. k
      PROVE  /\ <<new[n + j].from, new[n + j].to>> \in Allowed
             /\ new[n + j].from = new[n + j - 1].to
  <2>1. <<Before(s, path, j), path[j]>> \in Allowed
    BY DEF PathAllowed, k
  <2>2. CASE j = 1
    <3>1. new[n + j - 1] = log[n] /\ log[n].to = s
      BY <1>1, <1>3, <2>2 DEF Chain, n
    <3> QED
      BY <1>1, <2>1, <2>2, <3>1 DEF Before
  <2>3. CASE j # 1
    <3>1. j - 1 \in 1 .. k /\ n + (j - 1) = n + j - 1
      BY <1>3, <2>3
    <3>2. new[n + j - 1].to = path[j - 1]
      BY <1>1, <3>1
    <3> QED
      BY <1>1, <2>1, <2>3, <3>2 DEF Before
  <2> QED
    BY <2>2, <2>3
<1>7. ASSUME NEW i \in 1 .. Len(new)
      PROVE  /\ <<new[i].from, new[i].to>> \in Allowed
             /\ new[i].from = IF i = 1 THEN "ABSENT" ELSE new[i - 1].to
  <2>1. CASE i <= n
    BY <1>3, <1>5, <2>1
  <2>2. CASE i > n
    <3>1. i - n \in 1 .. k /\ n + (i - n) = i /\ n + (i - n) - 1 = i - 1 /\ i # 1
      BY <1>1, <1>3, <2>2
    <3> QED
      BY <1>6, <3>1
  <2> QED
    BY <1>1, <1>3, <2>1, <2>2
<1> QED
  BY <1>4, <1>7 DEF Chain, new

\* The history receive writes.
LEMMA ReceivedChain ==
  /\ Chain(ReceivedRow.log, "RECEIVED", 0)
  /\ ReceivedRow.log \in Seq(LogEntry)
  /\ "RECEIVED" \in States
<1> DEFINE e == [from |-> "ABSENT", to |-> "RECEIVED", by |-> None]
<1>1. ReceivedRow.log = <<e>> /\ "RECEIVED" \in States
  BY DEF ReceivedRow, States
<1>2. e \in LogEntry /\ e.from = "ABSENT" /\ e.to = "RECEIVED"
  BY <1>1 DEF LogEntry
<1> HIDE DEF e
<1>3. Len(<<e>>) = 1 /\ <<e>>[1] = e /\ <<e>> \in Seq(LogEntry)
  BY <1>2
<1>4. <<"ABSENT", "RECEIVED">> \in Allowed
  BY DEF Allowed
<1> QED
  BY <1>1, <1>2, <1>3, <1>4 DEF Chain

\* HistoryIsPath, row by row.
LEMMA HistoryByRow ==
  HistoryIsPath <=> \A w \in WorkItems : row[w].state # "ABSENT" =>
                      Chain(row[w].log, row[w].state, row[w].rev)
BY DEF HistoryIsPath, Chain

\* No step of any handler breaks the trail.
LEMMA HistoryStep == IInv /\ HistoryIsPath /\ [Next]_vars => HistoryIsPath'
<1> SUFFICES ASSUME IInv, HistoryIsPath, [Next]_vars,
                    NEW v \in WorkItems, row'[v].state # "ABSENT"
             PROVE  Chain(row'[v].log, row'[v].state, row'[v].rev)
  BY DEF HistoryIsPath, Chain
<1>1. row[v].state # "ABSENT" => Chain(row[v].log, row[v].state, row[v].rev)
  BY DEF HistoryIsPath, Chain
<1>2. row[v] \in Row
  BY DEF IInv, TypeOK
<1>3. row'[v] = row[v] => Chain(row'[v].log, row'[v].state, row'[v].rev)
  BY <1>1
<1>4. CASE AtRest
  BY <1>1, <1>4 DEF AtRest
<1>5. ASSUME NEW t \in Workers, NEW w \in WorkItems, NEW ws \in Workspaces, NEW d \in Hashes,
             NEW a \in Approvals, Submit(t, w, ws, d, a)
      PROVE  Chain(row'[v].log, row'[v].state, row'[v].rev)
  BY <1>3, <1>5, SubmitMoves, ReceivedChain, PathTypes, PathExtends
<1>6. ASSUME NEW w \in WorkItems, NEW a \in Approvals, NEW path, Decided(w, a, path)
      PROVE  Chain(row'[v].log, row'[v].state, row'[v].rev)
  <2>1. CASE v = w
    <3>1. row[w].state # "ABSENT"
      BY <1>6 DEF Decided, WaitingFor
    <3>2. row[w].log \in Seq(LogEntry) /\ row[w].state \in States \cup {"ABSENT"} /\ row[w].rev \in Nat
      BY <1>2, <2>1 DEF Row
    <3> QED
      BY <1>1, <1>6, <2>1, <3>1, <3>2, PathExtends DEF Decided
  <2> QED
    BY <1>3, <1>6, <2>1 DEF Decided
<1>7. ASSUME NEW t \in Workers, CompleteCommit(t)
      PROVE  Chain(row'[v].log, row'[v].state, row'[v].rev)
  <2>1. CASE v = tx[t].wi
    <3>1. /\ row[v].state = "APPLYING_CHANGE"
          /\ row'[v] = ApplyPath(row[v].log, "APPLYING_CHANGE", row[v].rev, <<"COMPLETED">>, None)
          /\ PathAllowed("APPLYING_CHANGE", <<"COMPLETED">>)
      BY <1>7, <2>1, CompleteMoves
    <3>2. row[v].log \in Seq(LogEntry) /\ row[v].rev \in Nat /\ "APPLYING_CHANGE" \in States
      BY <1>2 DEF Row, States
    <3>3. Chain(row[v].log, "APPLYING_CHANGE", row[v].rev)
      BY <1>1, <3>1
    <3> QED
      BY <3>1, <3>2, <3>3, PathTypes, PathExtends
  <2> QED
    BY <1>3, <1>7, <2>1, CompleteMoves
<1> QED
  BY <1>4, <1>5, <1>6, <1>7, StepKinds, DecideMoves

\* workflow_transition is a complete audit trail, however many handlers race for
\* a workflow row: its rows lead from creation to the current state over the
\* edges of WorkflowTransitions.ALLOWED, one for each revision.
THEOREM AuditTrail == Spec => []HistoryIsPath
<1>1. Init => HistoryIsPath
  BY DEF Init, NoRow, HistoryIsPath
<1> QED
  BY <1>1, Invariance, HistoryStep, PTL DEF Spec

-----------------------------------------------------------------------------
(* The decisions behind the trail                                          *)

\* A transition out of a waiting state names the decided approval behind it in
\* the approval table.
GateDecided(table, w, e) ==
  e.from \in Waiting =>
    /\ e.by \in Approvals
    /\ table[e.by].wi = w
    /\ WaitingFor(table[e.by].type) = e.from
    /\ table[e.by].status = IF e.to = "REJECTED" THEN "REJECTED" ELSE "CONSUMED"

\* GatesAreDecided, entry by entry.
LEMMA GatesByEntry ==
  GatesAreDecided <=> \A w \in WorkItems : \A i \in 1 .. Len(row[w].log) : GateDecided(approval, w, row[w].log[i])
BY DEF GatesAreDecided, GateDecided

\* A decision stays behind its transition: decided approvals never change.
LEMMA GateStaysDecided ==
  ASSUME IInv, [Next]_vars, NEW w \in WorkItems, NEW e, GateDecided(approval, w, e)
  PROVE  GateDecided(approval', w, e)
<1> SUFFICES ASSUME e.from \in Waiting PROVE GateDecided(approval', w, e)
  BY DEF GateDecided
<1>1. approval'[e.by] = approval[e.by]
  BY FinalStep DEF GateDecided
<1> QED
  BY <1>1 DEF GateDecided, WaitingFor

\* A row that grew by a path whose new entries are decided has only decided gates.
LEMMA GrownGates ==
  ASSUME IInv, GatesAreDecided, [Next]_vars, NEW w \in WorkItems,
         NEW log \in Seq(LogEntry), \A i \in 1 .. Len(log) : GateDecided(approval', w, log[i]),
         NEW s \in States \cup {"ABSENT"}, NEW rv \in Nat, NEW path \in Seq(States),
         NEW by \in Approvals \cup {None},
         row'[w] = ApplyPath(log, s, rv, path, by),
         \A j \in 1 .. Len(path) : Before(s, path, j) \in Waiting =>
           /\ j = 1 /\ by \in Approvals /\ approval'[by].wi = w
           /\ WaitingFor(approval'[by].type) = s
           /\ approval'[by].status = IF path[1] = "REJECTED" THEN "REJECTED" ELSE "CONSUMED"
  PROVE  \A i \in 1 .. Len(row'[w].log) : GateDecided(approval', w, row'[w].log[i])
<1> DEFINE new == row'[w].log
           n == Len(log)
           k == Len(path)
<1>1. Appended(new, log, s, path, by)
  BY GrownLog
<1>2. n \in Nat /\ k \in Nat
  OBVIOUS
<1> HIDE DEF new, n, k
<1>3. /\ Len(new) = n + k
      /\ \A i \in 1 .. n : new[i] = log[i]
      /\ \A j \in 1 .. k : /\ new[n + j].from = Before(s, path, j)
                           /\ new[n + j].to = path[j]
                           /\ new[n + j].by = IF j = 1 THEN by ELSE None
  BY <1>1 DEF Appended, n, k
<1>4. ASSUME NEW j \in 1 .. k PROVE GateDecided(approval', w, new[n + j])
  <2> DEFINE e == new[n + j]
  <2>1. e.from = Before(s, path, j) /\ e.to = path[j] /\ e.by = IF j = 1 THEN by ELSE None
    BY <1>3
  <2> HIDE DEF e
  <2>2. ASSUME e.from \in Waiting
        PROVE  /\ e.by \in Approvals /\ approval'[e.by].wi = w
               /\ WaitingFor(approval'[e.by].type) = e.from
               /\ approval'[e.by].status = IF e.to = "REJECTED" THEN "REJECTED" ELSE "CONSUMED"
    <3>1. /\ j = 1 /\ by \in Approvals /\ approval'[by].wi = w
          /\ WaitingFor(approval'[by].type) = s
          /\ approval'[by].status = IF path[1] = "REJECTED" THEN "REJECTED" ELSE "CONSUMED"
      BY <2>1, <2>2 DEF k
    <3>2. e.from = s /\ e.to = path[1] /\ e.by = by
      BY <2>1, <3>1 DEF Before
    <3> QED
      BY <3>1, <3>2
  <2>3. GateDecided(approval', w, e)
    BY <2>2 DEF GateDecided, WaitingFor
  <2> QED
    BY <2>3 DEF e
<1>5. ASSUME NEW i \in 1 .. Len(new) PROVE GateDecided(approval', w, new[i])
  <2>1. CASE i <= n
    BY <1>2, <1>3, <2>1 DEF n
  <2>2. CASE i > n
    <3>1. i - n \in 1 .. k /\ n + (i - n) = i
      BY <1>2, <1>3, <2>2
    <3> QED
      BY <1>4, <3>1
  <2> QED
    BY <1>2, <1>3, <2>1, <2>2
<1> QED
  BY <1>5 DEF new

\* No step of any handler leaves a gate without its decision.
LEMMA GatesStep == IInv /\ GatesAreDecided /\ [Next]_vars => GatesAreDecided'
<1> SUFFICES ASSUME IInv, GatesAreDecided, [Next]_vars, NEW v \in WorkItems
             PROVE  \A i \in 1 .. Len(row'[v].log) : GateDecided(approval', v, row'[v].log[i])
  BY DEF GatesAreDecided, GateDecided
<1>1. \A i \in 1 .. Len(row[v].log) : GateDecided(approval', v, row[v].log[i])
  BY GateStaysDecided, GatesByEntry
<1>2. row[v].log \in Seq(LogEntry) /\ row[v].state \in States \cup {"ABSENT"} /\ row[v].rev \in Nat
  BY DEF IInv, TypeOK, Row
<1>3. CASE row'[v].log = row[v].log
  BY <1>1, <1>3
<1>4. ASSUME NEW t \in Workers, NEW ws \in Workspaces, NEW d \in Hashes,
             NEW a \in Approvals, Submit(t, v, ws, d, a)
      PROVE  \A i \in 1 .. Len(row'[v].log) : GateDecided(approval', v, row'[v].log[i])
  <2>1. row'[v] = ApplyPath(ReceivedRow.log, "RECEIVED", 0, StartPath, None)
    BY <1>4, SubmitMoves
  <2>2. \A i \in 1 .. Len(ReceivedRow.log) : GateDecided(approval', v, ReceivedRow.log[i])
    <3>1. Len(ReceivedRow.log) = 1 /\ ReceivedRow.log[1].from = "ABSENT"
      BY DEF ReceivedRow
    <3> QED
      BY <3>1 DEF GateDecided, Waiting
  <2>3. \A j \in 1 .. Len(StartPath) : Before("RECEIVED", StartPath, j) \notin Waiting
    BY DEF StartPath, Before, Waiting
  <2> QED
    BY <2>1, <2>2, <2>3, ReceivedChain, PathTypes, GrownGates
<1>5. ASSUME NEW a \in Approvals, NEW path, Decided(v, a, path)
      PROVE  \A i \in 1 .. Len(row'[v].log) : GateDecided(approval', v, row'[v].log[i])
  <2>1. ASSUME NEW j \in 1 .. Len(path), Before(row[v].state, path, j) \in Waiting
        PROVE  /\ j = 1 /\ a \in Approvals /\ approval'[a].wi = v
               /\ WaitingFor(approval'[a].type) = row[v].state
               /\ approval'[a].status = IF path[1] = "REJECTED" THEN "REJECTED" ELSE "CONSUMED"
    <3>1. CASE path = <<"REJECTED">> /\ approval'[a].status = "REJECTED"
      BY <1>5, <2>1, <3>1 DEF Decided, WaitingFor
    <3>2. CASE path = <<"APPLYING_CHANGE">> /\ approval'[a].status = "CONSUMED"
      BY <1>5, <2>1, <3>2 DEF Decided, WaitingFor
    <3>3. CASE /\ path = <<"IMPLEMENTING", "REVIEWING", "PREPARING_CHANGE", "WAITING_CODE_APPROVAL">>
               /\ approval'[a].status = "CONSUMED"
      <4>1. j = 1
        BY <2>1, <3>3 DEF Before, Waiting
      <4> QED
        BY <1>5, <3>3, <4>1 DEF Decided, WaitingFor
    <3> QED
      BY <1>5, <3>1, <3>2, <3>3 DEF Decided
  <2>2. path \in Seq(States) /\ row'[v] = ApplyPath(row[v].log, row[v].state, row[v].rev, path, a)
    BY <1>5 DEF Decided
  <2> QED
    BY <1>1, <1>2, <2>1, <2>2, GrownGates
<1>6. ASSUME NEW t \in Workers, CompleteCommit(t), v = tx[t].wi
      PROVE  \A i \in 1 .. Len(row'[v].log) : GateDecided(approval', v, row'[v].log[i])
  <2>1. row'[v] = ApplyPath(row[v].log, "APPLYING_CHANGE", row[v].rev, <<"COMPLETED">>, None)
    BY <1>6, CompleteMoves
  <2>2. \A j \in 1 .. Len(<<"COMPLETED">>) : Before("APPLYING_CHANGE", <<"COMPLETED">>, j) \notin Waiting
    BY DEF Before, Waiting
  <2>3. "APPLYING_CHANGE" \in States
    BY DEF States
  <2> QED
    BY <1>1, <1>2, <2>1, <2>2, <2>3, PathTypes, GrownGates
<1>7. ASSUME NEW t \in Workers, NEW w \in WorkItems, NEW ws \in Workspaces, NEW d \in Hashes,
             NEW a \in Approvals, Submit(t, w, ws, d, a), w # v
      PROVE  row'[v].log = row[v].log
  BY <1>7, SubmitMoves
<1>8. ASSUME NEW w \in WorkItems, NEW a \in Approvals, NEW path, Decided(w, a, path), w # v
      PROVE  row'[v].log = row[v].log
  BY <1>8 DEF Decided
<1>9. ASSUME NEW t \in Workers, CompleteCommit(t), v # tx[t].wi
      PROVE  row'[v].log = row[v].log
  BY <1>9, CompleteMoves
<1>10. AtRest => row'[v].log = row[v].log
  BY DEF AtRest
<1> QED
  BY <1>3, <1>4, <1>5, <1>6, <1>7, <1>8, <1>9, <1>10, StepKinds, DecideMoves

\* Every transition out of a waiting state was decided: WorkflowEngine.decide
\* consumes an approval of that item and type and moves the row in one
\* transaction, and no later handler touches either.
THEOREM DecidedGates == Spec => []GatesAreDecided
<1>1. Init => GatesAreDecided
  BY DEF Init, NoRow, GatesAreDecided
<1> QED
  BY <1>1, Invariance, GatesStep, PTL DEF Spec

-----------------------------------------------------------------------------
(* The promise of ApprovalGate                                             *)

\* A step that decides no approval grants nothing and takes nothing back.
LEMMA GrantsAtRest ==
  ASSUME NEW v \in WorkItems,
         \A c \in Approvals :
           \/ /\ approval'[c].wi = approval[c].wi
              /\ approval'[c].type = approval[c].type
              /\ \/ approval'[c].status = approval[c].status
                 \/ approval[c].status # "CONSUMED" /\ approval'[c].status # "CONSUMED"
           \/ approval[c].status # "CONSUMED" /\ approval'[c].status # "CONSUMED"
  PROVE  GrantedTo(v)' = GrantedTo(v)
BY DEF GrantedTo

\* A decision grants at most the gate of the approval it consumes, to the
\* work item of that approval, and that gate was not granted before.
LEMMA GrantsDecided ==
  ASSUME IInv, NEW w \in WorkItems, NEW a \in Approvals, NEW path, Decided(w, a, path),
         NEW v \in WorkItems
  PROVE  /\ v # w \/ approval'[a].status = "REJECTED" => GrantedTo(v)' = GrantedTo(v)
         /\ v = w /\ approval'[a].status = "CONSUMED" =>
              /\ approval[a].type \notin GrantedTo(v)
              /\ GrantedTo(v)' = GrantedTo(v) \cup {approval[a].type}
<1>1. /\ approval[a].wi = w /\ approval[a].status = "REQUESTED" /\ approval[a].type \in Types
      /\ approval'[a].wi = w /\ approval'[a].type = approval[a].type
  BY DEF Decided
<1>2. ASSUME NEW c \in Approvals, c # a
      PROVE  \/ approval'[c] = approval[c]
             \/ approval[c].status # "CONSUMED" /\ approval'[c].status # "CONSUMED"
  BY <1>2 DEF Decided, Requested
<1>3. ASSUME v # w \/ approval'[a].status = "REJECTED" PROVE GrantedTo(v)' = GrantedTo(v)
  BY <1>1, <1>2, <1>3 DEF GrantedTo
<1>4. ASSUME v = w, approval'[a].status = "CONSUMED"
      PROVE  /\ approval[a].type \notin GrantedTo(v)
             /\ GrantedTo(v)' = GrantedTo(v) \cup {approval[a].type}
  <2>1. ASSUME NEW c \in Approvals, approval[c].wi = w, approval[c].type = approval[a].type,
               approval[c].status = "CONSUMED"
        PROVE  FALSE
    BY <1>1, <2>1 DEF IInv, OpenOnlyWhileWaiting
  <2>2. approval[a].type \notin GrantedTo(v)
    BY <1>4, <2>1 DEF GrantedTo
  <2>3. ASSUME NEW ty \in Types
        PROVE  ty \in GrantedTo(v)' <=> ty \in GrantedTo(v) \/ ty = approval[a].type
    BY <1>1, <1>2, <1>4, <2>3 DEF GrantedTo
  <2>4. GrantedTo(v)' \subseteq Types /\ GrantedTo(v) \subseteq Types
    BY DEF GrantedTo
  <2> QED
    BY <1>1, <2>2, <2>3, <2>4
<1> QED
  BY <1>3, <1>4

\* The refinement mapping: how far a work item is, and what was granted to it.
Phase   == [w \in WorkItems |-> PhaseOf(row[w].state)]
Granted == [w \in WorkItems |-> GrantedTo(w)]

\* The mapping of the next state, work item by work item.
LEMMA MappedNext ==
  /\ Phase' = [w \in WorkItems |-> PhaseOf(row'[w].state)]
  /\ \A w \in WorkItems : Phase[w] = PhaseOf(row[w].state) /\ Granted[w] = GrantedTo(w)
  /\ Granted' = [w \in WorkItems |-> GrantedTo(w)']
BY DEF Phase, Granted, PhaseOf, GrantedTo

\* A step that moves one work item maps to an assignment to that work item.
LEMMA MappedMove ==
  ASSUME NEW w \in WorkItems, NEW to, PhaseOf(row'[w].state) = to,
         NEW g, GrantedTo(w)' = g,
         \A v \in WorkItems : v # w => row'[v].state = row[v].state /\ GrantedTo(v)' = GrantedTo(v)
  PROVE  /\ Phase' = [Phase EXCEPT ![w] = to]
         /\ Granted' = [Granted EXCEPT ![w] = g]
<1>1. \A v \in WorkItems : v # w => PhaseOf(row'[v].state) = PhaseOf(row[v].state)
  BY DEF PhaseOf
<1>2. Phase' = [Phase EXCEPT ![w] = to]
  BY <1>1, MappedNext DEF Phase
<1>3. Granted' = [Granted EXCEPT ![w] = g]
  BY MappedNext DEF Granted
<1> QED
  BY <1>2, <1>3

\* Every committed transaction is one step of ApprovalGate or invisible to it.
LEMMA GateStep == IInv /\ [Next]_vars => [Gate!Next]_<<Phase, Granted>>
<1> SUFFICES ASSUME IInv, [Next]_vars PROVE Gate!Next \/ UNCHANGED <<Phase, Granted>>
  OBVIOUS
<1>1. CASE AtRest
  <2>1. \A w \in WorkItems : PhaseOf(row'[w].state) = PhaseOf(row[w].state)
    BY <1>1 DEF AtRest, PhaseOf
  <2>2. \A w \in WorkItems : GrantedTo(w)' = GrantedTo(w)
    BY <1>1, GrantsAtRest DEF AtRest
  <2> QED
    BY <2>1, <2>2, MappedNext DEF Phase, Granted
<1>2. ASSUME NEW t \in Workers, NEW w \in WorkItems, NEW ws \in Workspaces, NEW d \in Hashes,
             NEW a \in Approvals, Submit(t, w, ws, d, a)
      PROVE  Gate!Open(w)
  <2>1. \A v \in WorkItems : GrantedTo(v)' = GrantedTo(v)
    <3>1. approval[a].status = "ABSENT" /\ approval'[a].status = "REQUESTED"
      <4>1. approval[a].status = "ABSENT" /\ approval'[a] = Requested(w, "DESIGN")
        BY <1>2, SubmitMoves
      <4> QED
        BY <4>1 DEF Requested
    <3>2. \A b \in Approvals : b # a => approval'[b] = approval[b]
      BY <1>2, SubmitMoves
    <3> QED
      BY <3>1, <3>2, GrantsAtRest
  <2>2. Phase[w] = "new" /\ PhaseOf(row'[w].state) = "design"
    BY <1>2, SubmitMoves, MappedNext DEF PhaseOf
  <2>3. Phase' = [Phase EXCEPT ![w] = "design"] /\ Granted' = Granted
    <3>1. \A v \in WorkItems : v # w => row'[v].state = row[v].state
      BY <1>2, SubmitMoves
    <3>2. Phase' = [Phase EXCEPT ![w] = "design"]
      BY <2>1, <2>2, <3>1, MappedMove
    <3>3. Granted' = Granted
      BY <2>1, MappedNext DEF Granted
    <3> QED
      BY <3>2, <3>3
  <2> QED
    BY <2>2, <2>3 DEF Gate!Open, Gate!Move, Phase, Granted
<1>3. ASSUME NEW w \in WorkItems, NEW a \in Approvals, NEW path, Decided(w, a, path)
      PROVE  Gate!GrantDesign(w) \/ Gate!GrantCode(w) \/ Gate!Refuse(w)
  <2>1. /\ row[w].state = WaitingFor(approval[a].type)
        /\ approval[a].type \in Types
        /\ row'[w].state = path[Len(path)]
        /\ \A v \in WorkItems : v # w => row'[v].state = row[v].state
    BY <1>3 DEF Decided
  <2>2. \A v \in WorkItems : v # w => GrantedTo(v)' = GrantedTo(v)
    BY <1>3, GrantsDecided
  <2>3. CASE path = <<"REJECTED">> /\ approval'[a].status = "REJECTED"
    <3>1. Phase[w] \in {"design", "code"} /\ PhaseOf(row'[w].state) = "rejected"
      BY <2>1, <2>3, MappedNext DEF PhaseOf, WaitingFor
    <3>2. GrantedTo(w)' = GrantedTo(w)
      BY <1>3, <2>3, GrantsDecided
    <3>3. Phase' = [Phase EXCEPT ![w] = "rejected"] /\ Granted' = Granted
      BY <2>1, <2>2, <3>1, <3>2, MappedMove, MappedNext DEF Granted
    <3> QED
      BY <3>1, <3>3 DEF Gate!Refuse, Gate!Move, Phase, Granted
  <2>4. CASE /\ path = <<"APPLYING_CHANGE">> /\ approval[a].type = "CODE_CHANGE"
             /\ approval'[a].status = "CONSUMED"
    <3>1. Phase[w] = "code" /\ PhaseOf(row'[w].state) = "apply"
      BY <2>1, <2>4, MappedNext DEF PhaseOf, WaitingFor
    <3>2. "CODE_CHANGE" \notin GrantedTo(w) /\ GrantedTo(w)' = GrantedTo(w) \cup {"CODE_CHANGE"}
      BY <1>3, <2>4, GrantsDecided
    <3>3. Phase' = [Phase EXCEPT ![w] = "apply"]
      BY <2>1, <2>2, <3>1, MappedMove
    <3>4. /\ Granted' = [Granted EXCEPT ![w] = GrantedTo(w) \cup {"CODE_CHANGE"}]
          /\ "CODE_CHANGE" \notin Granted[w] /\ Granted[w] = GrantedTo(w)
      BY <2>1, <2>2, <3>2, MappedMove, MappedNext
    <3> QED
      BY <3>1, <3>3, <3>4 DEF Gate!GrantCode, Gate!Move, Gate!Grant, Phase, Granted
  <2>5. CASE /\ path = <<"IMPLEMENTING", "REVIEWING", "PREPARING_CHANGE", "WAITING_CODE_APPROVAL">>
             /\ approval[a].type = "DESIGN" /\ approval'[a].status = "CONSUMED"
    <3>1. Phase[w] = "design" /\ PhaseOf(row'[w].state) = "code"
      BY <2>1, <2>5, MappedNext DEF PhaseOf, WaitingFor
    <3>2. "DESIGN" \notin GrantedTo(w) /\ GrantedTo(w)' = GrantedTo(w) \cup {"DESIGN"}
      BY <1>3, <2>5, GrantsDecided
    <3>3. Phase' = [Phase EXCEPT ![w] = "code"]
      BY <2>1, <2>2, <3>1, MappedMove
    <3>4. /\ Granted' = [Granted EXCEPT ![w] = GrantedTo(w) \cup {"DESIGN"}]
          /\ "DESIGN" \notin Granted[w] /\ Granted[w] = GrantedTo(w)
      BY <2>1, <2>2, <3>2, MappedMove, MappedNext
    <3> QED
      BY <3>1, <3>3, <3>4 DEF Gate!GrantDesign, Gate!Move, Gate!Grant, Phase, Granted
  <2> QED
    BY <1>3, <2>3, <2>4, <2>5 DEF Decided
<1>4. ASSUME NEW t \in Workers, CompleteCommit(t)
      PROVE  tx[t].wi \in WorkItems /\ Gate!Finish(tx[t].wi)
  <2> DEFINE w == tx[t].wi
  <2>1. /\ w \in WorkItems /\ row[w].state = "APPLYING_CHANGE" /\ row'[w].state = "COMPLETED"
        /\ \A v \in WorkItems : v # w => row'[v].state = row[v].state
        /\ approval' = approval
    BY <1>4, CompleteMoves
  <2> HIDE DEF w
  <2>2. \A v \in WorkItems : GrantedTo(v)' = GrantedTo(v)
    BY <2>1, GrantsAtRest
  <2>3. Phase[w] = "apply" /\ PhaseOf(row'[w].state) = "done"
    BY <2>1, MappedNext DEF PhaseOf
  <2>4. Phase' = [Phase EXCEPT ![w] = "done"] /\ Granted' = Granted
    BY <2>1, <2>2, <2>3, MappedMove, MappedNext DEF Granted
  <2>5. Gate!Finish(w)
    BY <2>3, <2>4 DEF Gate!Finish, Gate!Move, Phase, Granted
  <2> QED
    BY <2>1, <2>5 DEF w
<1> QED
  BY <1>1, <1>2, <1>3, <1>4, StepKinds, DecideMoves DEF Gate!Next

\* The server keeps the two-gate promise of ApprovalGate for every number of work
\* items and racing handlers: each committed transaction of WorkflowEngine opens
\* a work item, grants or refuses the gate it waits at, finishes it after its
\* change was applied, or changes nothing the promise is about.
THEOREM TwoGates == Spec => ImplementsGate
<1>1. Init => Gate!Init
  <2> SUFFICES ASSUME Init PROVE Gate!Init
    OBVIOUS
  <2>1. \A w \in WorkItems : PhaseOf(row[w].state) = "new"
    BY DEF Init, NoRow, PhaseOf
  <2>2. \A w \in WorkItems : GrantedTo(w) = {}
    BY DEF Init, NoApproval, GrantedTo
  <2> QED
    BY <2>1, <2>2 DEF Gate!Init
<1>2. IInv /\ [Next]_vars => [Gate!Next]_<<[w \in WorkItems |-> PhaseOf(row[w].state)],
                                           [w \in WorkItems |-> GrantedTo(w)]>>
  BY GateStep DEF Phase, Granted
<1> QED
  BY <1>1, <1>2, Invariance, PTL DEF Spec, ImplementsGate, Gate!Spec

-----------------------------------------------------------------------------
(* The events a handler still has to send                                  *)

\* The table holds a consumed code approval of w.
CodeGranted(table, w) ==
  \E a \in Approvals : /\ table[a].wi = w
                       /\ table[a].type = "CODE_CHANGE"
                       /\ table[a].status = "CONSUMED"

\* The event says nothing that the table does not authorise.
Authorised(table, e) ==
  /\ e.kind = "workflow.progress" /\ e.st \in {"APPLYING_CHANGE", "COMPLETED"} => CodeGranted(table, e.wi)
  /\ e.kind # "workflow.progress" =>
       /\ e.apr \in Approvals
       /\ table[e.apr].wi = e.wi
       /\ e.kind = "design.review" <=> table[e.apr].type = "DESIGN"

AllAuthorised(table, events) == \A i \in 1 .. Len(events) : Authorised(table, events[i])

\* A workflow beyond the code gate was granted it, ...
BeyondGate ==
  \A w \in WorkItems : row[w].state \in {"APPLYING_CHANGE", "COMPLETED"} => CodeGranted(approval, w)

\* ... and so was one that a resume has seen beyond it ...
ResumesBeyondGate ==
  \A t \in Workers : tx[t].op = "resume" /\ tx[t].st \in {"APPLYING_CHANGE", "COMPLETED"} =>
                       CodeGranted(approval, tx[t].wi)

\* ... and all that waits to be sent is authorised.
EventInv ==
  /\ BeyondGate
  /\ ResumesBeyondGate
  /\ \A t \in Workers : AllAuthorised(approval, outcome[t])

\* The strengthened form implies what the agent can rely on.
LEMMA EventInvIsEnough == EventInv => EventsAreAuthorised
BY DEF EventInv, EventsAreAuthorised, AllAuthorised, Authorised, CodeGranted

\* No step takes an approval row back or gives it to another workflow.
LEMMA KeptStep ==
  ASSUME IInv, [Next]_vars
  PROVE  Kept
<1>1. AtRest => Kept
  BY DEF AtRest, Kept
<1>2. ASSUME NEW t \in Workers, NEW w \in WorkItems, NEW ws \in Workspaces, NEW d \in Hashes,
             NEW a \in Approvals, Submit(t, w, ws, d, a)
      PROVE  Kept
  <2>1. approval[a].status = "ABSENT" /\ \A b \in Approvals : b # a => approval'[b] = approval[b]
    BY <1>2, SubmitMoves
  <2> QED
    BY <2>1 DEF Kept
<1>3. ASSUME NEW w \in WorkItems, NEW a \in Approvals, NEW path, Decided(w, a, path)
      PROVE  Kept
  <2>1. /\ approval[a].wi = w /\ approval'[a].wi = w /\ approval'[a].type = approval[a].type
        /\ approval'[a].status \in {"CONSUMED", "REJECTED"}
    BY <1>3 DEF Decided
  <2>2. \A b \in Approvals : b # a => approval'[b] = approval[b] \/ approval[b].status = "ABSENT"
    BY <1>3 DEF Decided
  <2> QED
    BY <2>1, <2>2 DEF Kept
<1>4. ASSUME NEW t \in Workers, CompleteCommit(t) PROVE Kept
  BY <1>4, CompleteMoves DEF Kept
<1> QED
  BY <1>1, <1>2, <1>3, <1>4, StepKinds, DecideMoves

\* A granted code gate stays granted.
LEMMA GrantedStays ==
  ASSUME IInv, [Next]_vars, NEW w, CodeGranted(approval, w)
  PROVE  CodeGranted(approval', w)
<1>1. PICK a \in Approvals : /\ approval[a].wi = w
                             /\ approval[a].type = "CODE_CHANGE"
                             /\ approval[a].status = "CONSUMED"
  BY DEF CodeGranted
<1>2. approval'[a] = approval[a]
  BY <1>1, FinalStep
<1> QED
  BY <1>1, <1>2 DEF CodeGranted

\* An authorised event stays so, however late it is sent.
LEMMA AuthorisedStays ==
  ASSUME IInv, [Next]_vars, NEW e \in Event, Authorised(approval, e)
  PROVE  Authorised(approval', e)
<1>1. CASE e.kind = "workflow.progress"
  BY <1>1, GrantedStays DEF Authorised
<1>2. CASE e.kind # "workflow.progress"
  <2>1. /\ e.apr \in Approvals /\ approval[e.apr].wi = e.wi
        /\ e.kind = "design.review" <=> approval[e.apr].type = "DESIGN"
    BY <1>2 DEF Authorised
  <2>2. approval[e.apr].status # "ABSENT"
    BY <2>1, NoneIsNoId DEF IInv, ApprovalsOK, Event
  <2>3. approval'[e.apr].wi = approval[e.apr].wi /\ approval'[e.apr].type = approval[e.apr].type
    BY <2>1, <2>2, KeptStep DEF Kept
  <2> QED
    BY <1>2, <2>1, <2>3 DEF Authorised
<1> QED
  BY <1>1, <1>2

\* What progressOf sends is authorised if the state it names is.
LEMMA ProgressAuthorised ==
  ASSUME NEW table, NEW w, NEW s, s \in {"APPLYING_CHANGE", "COMPLETED"} => CodeGranted(table, w)
  PROVE  AllAuthorised(table, Progress(w, s))
<1> DEFINE e == [kind |-> "workflow.progress", wi |-> w, st |-> s, apr |-> None]
<1>1. Authorised(table, e)
  BY DEF Authorised
<1> HIDE DEF e
<1>2. Progress(w, s) = <<e>>
  BY DEF Progress, e
<1> QED
  BY <1>1, <1>2 DEF AllAuthorised

\* What viewFor adds is authorised if the approval is the one the state waits for.
LEMMA ViewAuthorised ==
  ASSUME NEW table, NEW w, NEW s, NEW a \in Approvals,
         table[a].wi = w, table[a].type \in Types, s = WaitingFor(table[a].type)
  PROVE  AllAuthorised(table, Progress(w, s) \o View(w, s, a))
<1> DEFINE e == [kind |-> "workflow.progress", wi |-> w, st |-> s, apr |-> None]
           k == IF s = "WAITING_DESIGN_APPROVAL" THEN "design.review" ELSE "change.proposed"
           f == [kind |-> k, wi |-> w, st |-> "ABSENT", apr |-> a]
<1>1. Authorised(table, e)
  BY DEF Authorised, WaitingFor
<1>2. Authorised(table, f)
  <2>1. k \in {"design.review", "change.proposed"} /\ (k = "design.review" <=> table[a].type = "DESIGN")
    BY DEF WaitingFor, Types
  <2> HIDE DEF k
  <2> QED
    BY <2>1 DEF Authorised
<1>3. Progress(w, s) \o View(w, s, a) = <<e>> \o <<f>>
  BY DEF Progress, View
<1> HIDE DEF e, f
<1>4. \A i \in 1 .. Len(<<e>> \o <<f>>) : (<<e>> \o <<f>>)[i] \in {e, f}
  <2>1. <<e>> \in Seq({e, f}) /\ <<f>> \in Seq({e, f})
    OBVIOUS
  <2> QED
    BY <2>1
<1> QED
  BY <1>1, <1>2, <1>3, <1>4 DEF AllAuthorised

\* What a restore sends is authorised by the tables it is read from.
LEMMA RestoredAuthorised ==
  ASSUME BeyondGate, NEW w \in WorkItems
  PROVE  AllAuthorised(approval, Restored(w, row[w].state))
<1>1. CASE Pending(w, row[w].state) = {}
  BY <1>1, ProgressAuthorised DEF Restored, BeyondGate
<1>2. CASE Pending(w, row[w].state) # {}
  <2> DEFINE a == CHOOSE a \in Pending(w, row[w].state) : TRUE
  <2>1. a \in Pending(w, row[w].state)
    BY <1>2
  <2>2. Restored(w, row[w].state) = Progress(w, row[w].state) \o View(w, row[w].state, a)
    BY <1>2 DEF Restored
  <2> HIDE DEF a
  <2> QED
    BY <2>1, <2>2, ViewAuthorised DEF Pending
<1> QED
  BY <1>1, <1>2

\* No handler passes the code gate without the grant.
LEMMA BeyondGateStep ==
  ASSUME IInv, EventInv, [Next]_vars
  PROVE  BeyondGate'
<1> SUFFICES ASSUME NEW v \in WorkItems, row'[v].state \in {"APPLYING_CHANGE", "COMPLETED"}
             PROVE  CodeGranted(approval', v)
  BY DEF BeyondGate, CodeGranted
<1>1. CASE row[v].state \in {"APPLYING_CHANGE", "COMPLETED"}
  BY <1>1, GrantedStays DEF EventInv, BeyondGate
<1>2. ASSUME NEW w \in WorkItems, NEW a \in Approvals, NEW path, Decided(w, a, path), v = w
      PROVE  CodeGranted(approval', v)
  <2>1. CASE path = <<"APPLYING_CHANGE">> /\ approval[a].type = "CODE_CHANGE" /\ approval'[a].status = "CONSUMED"
    BY <1>2, <2>1 DEF Decided, CodeGranted
  <2>2. row'[v].state = path[Len(path)]
    BY <1>2 DEF Decided
  <2>3. CASE path # <<"APPLYING_CHANGE">>
    BY <1>2, <2>2, <2>3 DEF Decided
  <2> QED
    BY <1>2, <2>1, <2>3 DEF Decided
<1>3. ASSUME NEW w \in WorkItems, NEW a \in Approvals, NEW path, Decided(w, a, path), v # w
      PROVE  row'[v].state = row[v].state
  BY <1>3 DEF Decided
<1>4. ASSUME NEW t \in Workers, NEW w \in WorkItems, NEW ws \in Workspaces, NEW d \in Hashes,
             NEW a \in Approvals, Submit(t, w, ws, d, a)
      PROVE  row'[v].state = row[v].state
  BY <1>4, SubmitMoves
<1>5. ASSUME NEW t \in Workers, CompleteCommit(t)
      PROVE  row[v].state \in {"APPLYING_CHANGE", "COMPLETED"}
  BY <1>5, CompleteMoves
<1>6. AtRest => row'[v].state = row[v].state
  BY DEF AtRest
<1> QED
  BY <1>1, <1>2, <1>3, <1>4, <1>5, <1>6, StepKinds, DecideMoves

\* A resume remembers a state beyond the code gate only if it read one.
LEMMA ResumesStep ==
  ASSUME IInv, EventInv, [Next]_vars
  PROVE  ResumesBeyondGate'
<1> SUFFICES ASSUME NEW u \in Workers, tx'[u].op = "resume",
                    tx'[u].st \in {"APPLYING_CHANGE", "COMPLETED"}
             PROVE  CodeGranted(approval', tx'[u].wi)
  BY DEF ResumesBeyondGate, CodeGranted
<1>1. CASE tx'[u] = tx[u]
  BY <1>1, GrantedStays DEF EventInv, ResumesBeyondGate
<1>2. ASSUME NEW w \in WorkItems, ResumeLoad(u, w)
      PROVE  CodeGranted(approval', tx'[u].wi)
  <2>1. tx'[u] = [NoTx EXCEPT !.op = "resume", !.wi = w, !.st = row[w].state]
    BY <1>2 DEF ResumeLoad, IInv, TypeOK
  <2>2. tx'[u].wi = w /\ tx'[u].st = row[w].state
    BY <2>1 DEF NoTx
  <2> QED
    BY <2>2, GrantedStays DEF EventInv, BeyondGate
<1>3. ASSUME NEW t \in Workers, Handle(t)
      PROVE  \/ tx'[u] = tx[u]
             \/ \E w \in WorkItems : ResumeLoad(u, w)
  <2>1. tx \in [Workers -> Tx]
    BY DEF IInv, TypeOK
  <2>2. CASE t # u
    BY <1>3, <2>1, <2>2
       DEF Handle, Submit, DecideCheck, DecideExpired, DecideLoad, DecideCommit, DecideImplement, CompleteLoad,
           CompleteCommit, CompleteAgain, ResumeLoad, ResumeCommit, BindCheck, BindCommit, Rollback, Emit, Finish
  <2>3. ASSUME t = u, NEW events, Finish(u, events) PROVE FALSE
    BY <2>1, <2>3 DEF Finish, NoTx
  <2>4. ASSUME NEW w \in WorkItems, NEW ws \in Workspaces, NEW a \in Approvals, NEW h \in Hashes,
               NEW dec \in {"APPROVE", "REJECT"}, DecideCheck(u, w, ws, a, h, dec)
        PROVE FALSE
    <3>1. tx'[u] = [NoTx EXCEPT !.op = "decide", !.wi = w, !.apr = a, !.hash = h, !.dec = dec]
      BY <2>1, <2>4 DEF DecideCheck
    <3> QED
      BY <3>1 DEF NoTx
  <2>5. ASSUME DecideLoad(u) PROVE FALSE
    <3>1. tx'[u] = [tx[u] EXCEPT !.op = "consume", !.st = row[DecidedItem(u)].state, !.rv = row[DecidedItem(u)].rev]
      BY <2>1, <2>5 DEF DecideLoad
    <3> QED
      BY <2>1, <3>1 DEF Tx
  <2>6. ASSUME NEW w \in WorkItems, NEW ws \in Workspaces, CompleteLoad(u, w, ws) PROVE FALSE
    <3>1. tx'[u] = [NoTx EXCEPT !.op = "complete", !.wi = w, !.st = row[w].state, !.rv = row[w].rev]
      BY <2>1, <2>6 DEF CompleteLoad
    <3> QED
      BY <3>1 DEF NoTx
  <2>7. ASSUME NEW w \in WorkItems, NEW ws \in Workspaces, NEW a \in Approvals, NEW h \in Hashes,
               BindCheck(u, w, ws, a, h)
        PROVE FALSE
    <3>1. tx'[u] = [NoTx EXCEPT !.op = "bind", !.wi = w, !.apr = a, !.hash = h]
      BY <2>1, <2>7 DEF BindCheck
    <3> QED
      BY <3>1 DEF NoTx
  <2> QED
    BY <1>3, <2>2, <2>3, <2>4, <2>5, <2>6, <2>7
       DEF Handle, Submit, DecideExpired, DecideCommit, DecideImplement, CompleteCommit, CompleteAgain,
           ResumeCommit, BindCommit, Rollback, Emit
<1> QED
  BY <1>1, <1>2, <1>3 DEF Next, ApprovalLate, LeaseLapses, vars

\* The events of every handler stay authorised if those of the one that moves are.
LEMMA OutcomeStep ==
  ASSUME IInv, EventInv, [Next]_vars, NEW t \in Workers,
         \A u \in Workers : u # t => outcome'[u] = outcome[u],
         AllAuthorised(approval', outcome'[t]), NEW v \in Workers
  PROVE  AllAuthorised(approval', outcome'[v])
<1>1. CASE v # t
  <2>1. outcome'[v] = outcome[v] /\ outcome[v] \in Seq(Event)
    BY <1>1 DEF IInv, TypeOK
  <2>2. \A i \in 1 .. Len(outcome[v]) : outcome[v][i] \in Event
    BY <2>1
  <2> QED
    BY <2>1, <2>2, AuthorisedStays DEF EventInv, AllAuthorised
<1> QED
  BY <1>1

\* What a handler has to send after its step is authorised by the tables it leaves.
LEMMA HandlerAuthorised ==
  ASSUME IInv, EventInv, [Next]_vars, NEW t \in Workers, Handle(t)
  PROVE  AllAuthorised(approval', outcome'[t])
<1>1. ASSUME NEW w \in WorkItems, NEW ws \in Workspaces, NEW d \in Hashes, NEW a \in Approvals,
             Submit(t, w, ws, d, a)
      PROVE  AllAuthorised(approval', outcome'[t])
  <2>1. approval'[a] = Requested(w, "DESIGN")
    BY <1>1, SubmitMoves
  <2>2. /\ approval'[a].wi = w /\ approval'[a].type = "DESIGN"
        /\ "DESIGN" \in Types /\ WaitingFor("DESIGN") = "WAITING_DESIGN_APPROVAL"
    BY <2>1 DEF Requested, Types, WaitingFor
  <2>3. outcome'[t] = Progress(w, "WAITING_DESIGN_APPROVAL") \o View(w, "WAITING_DESIGN_APPROVAL", a)
    BY <1>1 DEF Submit, Finish, IInv, TypeOK
  <2> QED
    BY <2>2, <2>3, ViewAuthorised
<1>2. ASSUME DecideCommit(t)
      PROVE  AllAuthorised(approval', outcome'[t])
  <2> DEFINE w == DecidedItem(t)
             a == tx[t].apr
             path == AfterDecision(approval[a].type, tx[t].dec)
  <2>1. w \in WorkItems /\ a \in Approvals /\ Decided(w, a, path)
    BY <1>2, DecideMoves
  <2>2. outcome'[t] = Progress(w, path[1]) /\ Len(path) = 1
    BY <1>2 DEF DecideCommit, Finish, IInv, TypeOK
  <2> HIDE DEF w, a, path
  <2>3. path[1] \in {"APPLYING_CHANGE", "COMPLETED"} => CodeGranted(approval', w)
    BY <2>1, <2>2 DEF Decided, CodeGranted
  <2> QED
    BY <2>2, <2>3, ProgressAuthorised
<1>3. ASSUME NEW b \in Approvals, DecideImplement(t, b)
      PROVE  AllAuthorised(approval', outcome'[t])
  <2> DEFINE w == DecidedItem(t)
             a == tx[t].apr
             path == AfterDecision(approval[a].type, tx[t].dec)
             req == Requested(w, "CODE_CHANGE")
             new == Consumed(t)
  <2>1. a \in Approvals /\ approval[a].type \in Types /\ tx[t].dec \in {"APPROVE", "REJECT"}
    BY <1>3, ConsumeReads DEF DecideImplement
  <2>2. path[4] = "WAITING_CODE_APPROVAL"
    BY <1>3, <2>1, DecisionPaths DEF DecideImplement
  <2>3. outcome'[t] = Progress(w, path[4]) \o View(w, path[4], b)
    BY <1>3 DEF DecideImplement, Finish, IInv, TypeOK
  <2>4. approval' = [approval EXCEPT ![a] = new, ![b] = req]
    BY <1>3 DEF DecideImplement
  <2>5. req.wi = w /\ req.type = "CODE_CHANGE"
    BY DEF Requested
  <2> HIDE DEF w, a, path, req, new
  <2>6. approval'[b] = req
    BY <2>4 DEF IInv, TypeOK
  <2>7. "CODE_CHANGE" \in Types /\ WaitingFor("CODE_CHANGE") = "WAITING_CODE_APPROVAL"
    BY DEF Types, WaitingFor
  <2> QED
    BY <2>2, <2>3, <2>5, <2>6, <2>7, ViewAuthorised
<1>4. ASSUME CompleteCommit(t)
      PROVE  AllAuthorised(approval', outcome'[t])
  <2> DEFINE w == tx[t].wi
  <2>1. w \in WorkItems /\ row[w].state = "APPLYING_CHANGE" /\ approval' = approval
    BY <1>4, CompleteMoves
  <2>2. outcome'[t] = Progress(w, "COMPLETED")
    BY <1>4 DEF CompleteCommit, Finish, IInv, TypeOK
  <2> HIDE DEF w
  <2> QED
    BY <2>1, <2>2, ProgressAuthorised DEF EventInv, BeyondGate
<1>5. ASSUME NEW w \in WorkItems, NEW ws \in Workspaces, CompleteAgain(t, w, ws)
      PROVE  AllAuthorised(approval', outcome'[t])
  <2>1. approval' = approval /\ row[w].state = "COMPLETED" /\ outcome'[t] = Progress(w, "COMPLETED")
    BY <1>5 DEF CompleteAgain, Finish, db, IInv, TypeOK
  <2> QED
    BY <2>1, ProgressAuthorised DEF EventInv, BeyondGate
<1>6. ASSUME ResumeCommit(t)
      PROVE  AllAuthorised(approval', outcome'[t])
  <2> DEFINE w == tx[t].wi
  <2>1. w \in WorkItems /\ approval' = approval /\ tx[t].op = "resume"
    BY <1>6 DEF ResumeCommit, IInv, TxOK, TxOKFor
  <2>2. \/ outcome'[t] = Restored(w, row[w].state)
        \/ outcome'[t] = Progress(w, tx[t].st)
    BY <1>6 DEF ResumeCommit, Finish, IInv, TypeOK
  <2> HIDE DEF w
  <2>3. tx[t].st \in {"APPLYING_CHANGE", "COMPLETED"} => CodeGranted(approval, w)
    BY <2>1 DEF EventInv, ResumesBeyondGate, w
  <2> QED
    BY <2>1, <2>2, <2>3, RestoredAuthorised, ProgressAuthorised DEF EventInv
<1>7. ASSUME BindCommit(t) \/ Rollback(t)
       PROVE  AllAuthorised(approval', outcome'[t])
  <2>1. outcome'[t] = <<>>
    BY <1>7 DEF BindCommit, Rollback, Finish, IInv, TypeOK
  <2> QED
    BY <2>1 DEF AllAuthorised
<1>8. ASSUME outcome' = outcome
       PROVE  AllAuthorised(approval', outcome'[t])
  <2>1. outcome[t] \in Seq(Event)
    BY DEF IInv, TypeOK
  <2>2. \A i \in 1 .. Len(outcome[t]) : outcome[t][i] \in Event
    BY <2>1
  <2> QED
    BY <1>8, <2>2, AuthorisedStays DEF EventInv, AllAuthorised
<1>9. ASSUME Emit(t)
       PROVE  AllAuthorised(approval', outcome'[t])
  <2> DEFINE o == outcome[t]
  <2>1. o \in Seq(Event) /\ o # <<>> /\ outcome'[t] = Tail(o)
    BY <1>9 DEF Emit, IInv, TypeOK
  <2>2. AllAuthorised(approval, o)
    BY DEF EventInv
  <2> HIDE DEF o
  <2>3. /\ Len(Tail(o)) = Len(o) - 1 /\ Len(o) \in Nat
        /\ \A i \in 1 .. Len(Tail(o)) : Tail(o)[i] = o[i + 1]
    BY <2>1
  <2>4. \A i \in 1 .. Len(Tail(o)) : i + 1 \in 1 .. Len(o)
    BY <2>3
  <2>5. \A i \in 1 .. Len(o) : Authorised(approval', o[i])
    BY <2>1, <2>2, AuthorisedStays DEF AllAuthorised
  <2> QED
    BY <2>1, <2>3, <2>4, <2>5 DEF AllAuthorised
<1> QED
  BY <1>1, <1>2, <1>3, <1>4, <1>5, <1>6, <1>7, <1>8, <1>9
     DEF Handle, DecideCheck, DecideExpired, DecideLoad, CompleteLoad, ResumeLoad, BindCheck

\* No step leaves an event to be sent that the tables do not authorise.
LEMMA EventStep == IInv /\ EventInv /\ [Next]_vars => EventInv'
<1> SUFFICES ASSUME IInv, EventInv, [Next]_vars PROVE EventInv'
  OBVIOUS
<1>1. ASSUME NEW v \in Workers PROVE AllAuthorised(approval', outcome'[v])
  <2>1. ASSUME NEW t \in Workers, Handle(t) PROVE AllAuthorised(approval', outcome'[v])
    <3>1. \A u \in Workers : u # t => outcome'[u] = outcome[u]
      BY <2>1
         DEF Handle, Submit, DecideCheck, DecideExpired, DecideLoad, DecideCommit, DecideImplement, CompleteLoad,
             CompleteCommit, CompleteAgain, ResumeLoad, ResumeCommit, BindCheck, BindCommit, Rollback, Emit,
             Finish, IInv, TypeOK
    <3> QED
      BY <2>1, <3>1, HandlerAuthorised, OutcomeStep
  <2>2. CASE outcome' = outcome
    <3>1. outcome[v] \in Seq(Event)
      BY DEF IInv, TypeOK
    <3>2. \A i \in 1 .. Len(outcome[v]) : outcome[v][i] \in Event
      BY <3>1
    <3> QED
      BY <2>2, <3>2, AuthorisedStays DEF EventInv, AllAuthorised
  <2> QED
    BY <2>1, <2>2 DEF Next, ApprovalLate, LeaseLapses, vars
<1>2. BeyondGate' /\ ResumesBeyondGate'
  BY BeyondGateStep, ResumesStep
<1>3. \A v \in Workers : AllAuthorised(approval, outcome[v])'
  BY <1>1 DEF AllAuthorised, Authorised, CodeGranted
<1> QED
  BY <1>2, <1>3 DEF EventInv

\* What emitOutcome still has to send is authorised when it is sent, however long
\* after the commit and however many handlers ran in between: it never announces
\* a change to apply without a consumed code approval, nor shows an approval of
\* another work item or kind.
THEOREM AuthorisedEvents == Spec => []EventsAreAuthorised
<1>1. Init => EventInv
  BY DEF Init, NoRow, NoTx, EventInv, BeyondGate, ResumesBeyondGate, AllAuthorised
<1>2. Spec => []EventInv
  BY <1>1, Invariance, EventStep, PTL DEF Spec
<1> QED
  BY <1>2, EventInvIsEnough, PTL

=============================================================================
