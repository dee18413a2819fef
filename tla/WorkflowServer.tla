--------------------------- MODULE WorkflowServer ---------------------------
(***************************************************************************)
(* The server side of onCode: WorkflowEngine and ApprovalService over      *)
(* their PostgreSQL tables, driven by the handlers of ChatIntake and       *)
(* ApprovalIntake.  AgentSessionService hands every event of the agent     *)
(* stream to a cached thread pool, so handlers run concurrently and in any *)
(* order: Workers is the (named) bound on how many run at once.            *)
(*                                                                         *)
(* A handler is one database transaction at READ COMMITTED.  It is         *)
(* modelled as its reads, each a step that copies what later code uses     *)
(* into tx[t], and one commit step.  The commit is atomic because every    *)
(* UPDATE takes a row lock that is held until the commit, and re-evaluates *)
(* its WHERE clause on the row it finally gets: the conditional UPDATEs    *)
(* (status = 'REQUESTED', revision = :expected) are the commit's guards.   *)
(* A transaction that fails a check, meets a tool or database error, or    *)
(* dies with the server leaves nothing behind: Rollback.                   *)
(*                                                                         *)
(* After its commit a handler sends its outcome event by event             *)
(* (emitOutcome), interleaved with the other handlers: outcome[t].         *)
(***************************************************************************)
EXTENDS Naturals, Sequences

CONSTANTS
  WorkItems,   \* work item ids (WI-...); the workflow of an item is 1:1 with it
  Approvals,   \* approval ids (APR-...), handed out fresh
  Workspaces,  \* workspace ids
  Hashes,      \* design identities and diff hashes
  Workers,     \* threads of the server's event pool
  None         \* SQL null / absent field

ASSUME NoneIsNoId ==
  None \notin WorkItems \cup Approvals \cup Workspaces \cup Hashes

VARIABLES
  row,        \* table workflow, joined with workflow_transition: log
  item,       \* work_item.status
  workspace,  \* context ctx://work-items/{id}/workspace/latest
  design,     \* sha256 of context .../design/latest
  bind,       \* context .../approval_bind/latest
  approval,   \* table approval
  tx,         \* what a worker's open transaction has read
  outcome     \* events a worker still has to send to the agent

db   == <<row, item, workspace, design, bind, approval>>
vars == <<row, item, workspace, design, bind, approval, tx, outcome>>

-----------------------------------------------------------------------------
(* WorkflowState, WorkflowTransitions                                      *)

Waiting  == {"WAITING_DESIGN_APPROVAL", "WAITING_CODE_APPROVAL"}
Terminal == {"COMPLETED", "REJECTED"}
States   == {"RECEIVED", "CLASSIFYING", "DISCOVERING_CONTEXT", "DESIGNING",
             "IMPLEMENTING", "REVIEWING", "PREPARING_CHANGE",
             "APPLYING_CHANGE"} \cup Waiting \cup Terminal

\* The edges of the map ALLOWED; creation is the edge from "ABSENT" (from == null).
Allowed ==
  {<<"ABSENT", "RECEIVED">>,
   <<"RECEIVED", "CLASSIFYING">>,
   <<"CLASSIFYING", "DISCOVERING_CONTEXT">>,
   <<"DISCOVERING_CONTEXT", "DESIGNING">>,
   <<"DESIGNING", "WAITING_DESIGN_APPROVAL">>,
   <<"WAITING_DESIGN_APPROVAL", "IMPLEMENTING">>,
   <<"WAITING_DESIGN_APPROVAL", "REJECTED">>,
   <<"IMPLEMENTING", "REVIEWING">>,
   <<"REVIEWING", "PREPARING_CHANGE">>,
   <<"PREPARING_CHANGE", "WAITING_CODE_APPROVAL">>,
   <<"WAITING_CODE_APPROVAL", "APPLYING_CHANGE">>,
   <<"WAITING_CODE_APPROVAL", "REJECTED">>,
   <<"APPLYING_CHANGE", "COMPLETED">>}

Types == {"DESIGN", "CODE_CHANGE"}

\* The state in which an approval of this type is decided (targetAfterDecision).
WaitingFor(type) ==
  IF type = "DESIGN" THEN "WAITING_DESIGN_APPROVAL" ELSE "WAITING_CODE_APPROVAL"

\* MUTANT: the approved design is recorded, implementAndReview is not called.
MutAfterDecisionNoImplement(type, dec) ==
  IF dec = "REJECT" THEN <<"REJECTED">>
  ELSE IF type = "DESIGN" THEN <<"IMPLEMENTING">>
  ELSE <<"APPLYING_CHANGE">>

\* The states a decision leads to, in order.  An approved design runs
\* implementAndReview in the deciding transaction.
AfterDecision(type, dec) ==
  IF dec = "REJECT" THEN <<"REJECTED">>
  ELSE IF type = "DESIGN"
  THEN <<"IMPLEMENTING", "REVIEWING", "PREPARING_CHANGE", "WAITING_CODE_APPROVAL">>
  ELSE <<"APPLYING_CHANGE">>

\* receive, driveLinearTo(DESIGNING), senior design, transition.
StartPath ==
  <<"CLASSIFYING", "DISCOVERING_CONTEXT", "DESIGNING", "WAITING_DESIGN_APPROVAL">>

-----------------------------------------------------------------------------
(* Rows                                                                    *)

Statuses == {"ABSENT", "REQUESTED", "CONSUMED", "REJECTED", "EXPIRED"}
Leases   == {"free", "held", "lapsed"}   \* null, until > now, until < now

LogEntry == [from : States \cup {"ABSENT"}, to : States, by : Approvals \cup {None}]
Row      == [state : States \cup {"ABSENT"}, rev : Nat, lease : Leases, log : Seq(LogEntry)]
Bind     == [apr : Approvals \cup {None}, hash : Hashes \cup {None}]

\* late: expires_at has passed.  on: the identity or diff hash the decision
\* named (the table does not keep it; it is here to state properties).
Approval == [wi : WorkItems \cup {None}, type : Types \cup {None}, status : Statuses,
             late : BOOLEAN, on : Hashes \cup {None}]

Ops == {"idle", "decide", "consume", "complete", "resume", "bind"}
Tx  == [op : Ops, wi : WorkItems \cup {None}, apr : Approvals \cup {None},
        hash : Hashes \cup {None}, dec : {"APPROVE", "REJECT", None},
        st : States \cup {"ABSENT"}, rv : Nat]

Event == [kind : {"workflow.progress", "design.review", "change.proposed"},
          wi : WorkItems, st : States \cup {"ABSENT"}, apr : Approvals \cup {None}]

NoRow      == [state |-> "ABSENT", rev |-> 0, lease |-> "free", log |-> <<>>]
NoBind     == [apr |-> None, hash |-> None]
NoApproval == [wi |-> None, type |-> None, status |-> "ABSENT", late |-> FALSE, on |-> None]
NoTx       == [op |-> "idle", wi |-> None, apr |-> None, hash |-> None, dec |-> None,
               st |-> "ABSENT", rv |-> 0]

\* WorkflowEngine.receive
ReceivedRow ==
  [state |-> "RECEIVED", rev |-> 0, lease |-> "held",
   log |-> <<[from |-> "ABSENT", to |-> "RECEIVED", by |-> None]>>]

\* The state a path starting in s is in before its i-th step.
Before(s, path, i) == IF i = 1 THEN s ELSE path[i - 1]

\* MUTANT: only terminal states release the lease.
MutApplyPathKeepsLease(log, s, rv, path, by) ==
  LET to == path[Len(path)]
  IN  [state |-> to,
       rev   |-> rv + Len(path),
       lease |-> IF to \in Terminal THEN "free" ELSE "held",
       log   |-> log \o [i \in 1 .. Len(path) |->
                           [from |-> Before(s, path, i), to |-> path[i],
                            by |-> IF i = 1 THEN by ELSE None]]]

\* The row applyTransition leaves after it is called for each state of path
\* in turn in one transaction, on a row read with state s and revision rv.
\* The lease is released when the path ends in a waiting or terminal state.
ApplyPath(log, s, rv, path, by) ==
  LET to == path[Len(path)]
  IN  [state |-> to,
       rev   |-> rv + Len(path),
       lease |-> IF to \in Waiting \cup Terminal THEN "free" ELSE "held",
       log   |-> log \o [i \in 1 .. Len(path) |->
                           [from |-> Before(s, path, i), to |-> path[i],
                            by |-> IF i = 1 THEN by ELSE None]]]

\* The check applyTransition makes before each of those transitions.
PathAllowed(s, path) ==
  \A i \in 1 .. Len(path) : <<Before(s, path, i), path[i]>> \in Allowed

\* ApprovalService.request, from openApproval on entering a waiting state.
Requested(w, type) ==
  [wi |-> w, type |-> type, status |-> "REQUESTED", late |-> FALSE, on |-> None]

\* ApprovalService.requireUsable, when it returns
Usable(a) == approval[a].status = "REQUESTED" /\ ~approval[a].late

-----------------------------------------------------------------------------
(* Outcomes: ChatIntake.progressOf, ApprovalIntake.viewFor, emitOutcome.   *)
(* A handler's progress events before its last one name stages that are    *)
(* only displayed; they are left out.                                      *)

Progress(w, s) == <<[kind |-> "workflow.progress", wi |-> w, st |-> s, apr |-> None]>>

View(w, s, a) ==
  <<[kind |-> IF s = "WAITING_DESIGN_APPROVAL" THEN "design.review" ELSE "change.proposed",
     wi |-> w, st |-> "ABSENT", apr |-> a]>>

\* MUTANT: findRequested without the workflow_id condition.
MutPendingAnyItem(w, s) ==
  {a \in Approvals : /\ approval[a].status = "REQUESTED"
                     /\ approval[a].type \in Types
                     /\ s = WaitingFor(approval[a].type)}

\* findRequested for the type the state waits for
Pending(w, s) ==
  {a \in Approvals : /\ approval[a].status = "REQUESTED"
                     /\ approval[a].wi = w
                     /\ approval[a].type \in Types
                     /\ s = WaitingFor(approval[a].type)}

\* Progress of the current row, and the approval it waits for if there is one.
Restored(w, s) ==
  IF Pending(w, s) = {} THEN Progress(w, s)
  ELSE Progress(w, s) \o View(w, s, CHOOSE a \in Pending(w, s) : TRUE)

-----------------------------------------------------------------------------
Init ==
  /\ row = [w \in WorkItems |-> NoRow]
  /\ item = [w \in WorkItems |-> "ABSENT"]
  /\ workspace = [w \in WorkItems |-> None]
  /\ design = [w \in WorkItems |-> None]
  /\ bind = [w \in WorkItems |-> NoBind]
  /\ approval = [a \in Approvals |-> NoApproval]
  /\ tx = [t \in Workers |-> NoTx]
  /\ outcome = [t \in Workers |-> <<>>]

Idle(t) == tx[t].op = "idle" /\ outcome[t] = <<>>

Finish(t, events) ==
  /\ tx' = [tx EXCEPT ![t] = NoTx]
  /\ outcome' = [outcome EXCEPT ![t] = events]

\* chat.submit without work_item_id: everything up to the design approval is
\* one transaction; it creates its rows, so no other transaction can meet it.
Submit(t, w, ws, d, a) ==
  /\ Idle(t)
  /\ row[w].state = "ABSENT"
  /\ approval[a].status = "ABSENT"
  /\ PathAllowed("RECEIVED", StartPath)
  /\ row' = [row EXCEPT ![w] =
               ApplyPath(ReceivedRow.log, "RECEIVED", ReceivedRow.rev, StartPath, None)]
  /\ item' = [item EXCEPT ![w] = "OPEN"]
  /\ workspace' = [workspace EXCEPT ![w] = ws]
  /\ design' = [design EXCEPT ![w] = d]
  /\ approval' = [approval EXCEPT ![a] = Requested(w, "DESIGN")]
  /\ Finish(t, Progress(w, "WAITING_DESIGN_APPROVAL") \o View(w, "WAITING_DESIGN_APPROVAL", a))
  /\ UNCHANGED bind

\* The identity the decision must name: the stored design, or the diff hash
\* the agent bound to this very approval.
Named(w, a, h) ==
  IF approval[a].type = "DESIGN" THEN h = design[w]
  ELSE bind[w] = [apr |-> a, hash |-> h]

\* What ApprovalIntake.decide checks before it calls WorkflowEngine.decide.
DecideAccepts(w, ws, a, h) ==
  /\ Usable(a)
  /\ approval[a].wi = w
  /\ workspace[w] = ws
  /\ Named(w, a, h)

\* approval.decide, up to that call.  A request that is not accepted changes
\* nothing.
DecideCheck(t, w, ws, a, h, dec) ==
  /\ Idle(t)
  /\ DecideAccepts(w, ws, a, h)
  /\ tx' = [tx EXCEPT ![t] = [NoTx EXCEPT !.op = "decide", !.wi = w, !.apr = a,
                                          !.hash = h, !.dec = dec]]
  /\ UNCHANGED <<db, outcome>>

\* approval.decide on an approval whose time is up: markExpired is committed.
DecideExpired(t, a) ==
  /\ Idle(t)
  /\ approval[a].status = "REQUESTED"
  /\ approval[a].late
  /\ approval' = [approval EXCEPT ![a].status = "EXPIRED"]
  /\ UNCHANGED <<row, item, workspace, design, bind, tx, outcome>>

\* The workflow a decision moves is the approval's, not the request's.
DecidedItem(t) == approval[tx[t].apr].wi

\* WorkflowEngine.decide reads the approval again and the workflow row, and
\* checks that the row waits for this type.
DecideLoad(t) ==
  /\ tx[t].op = "decide"
  /\ Usable(tx[t].apr)
  /\ row[DecidedItem(t)].state = WaitingFor(approval[tx[t].apr].type)
  /\ tx' = [tx EXCEPT ![t] = [@ EXCEPT !.op = "consume",
                                       !.st = row[DecidedItem(t)].state,
                                       !.rv = row[DecidedItem(t)].rev]]
  /\ UNCHANGED <<db, outcome>>

\* MUTANT: consumeIfRequested without the condition on status.
MutConsumeAnyStatus(t) ==
  /\ tx[t].op = "consume"
  /\ row[DecidedItem(t)].rev = tx[t].rv

\* MUTANT: neither UPDATE is conditional.
MutConsumeUnguarded(t) == tx[t].op = "consume"

\* consumeIfRequested and the first updateState, with their WHERE clauses.
ConsumeGuard(t) ==
  /\ tx[t].op = "consume"
  /\ approval[tx[t].apr].status = "REQUESTED"
  /\ row[DecidedItem(t)].rev = tx[t].rv

\* MUTANT: the decision's name is stored as the status.
MutConsumedDecision(t) ==
  [approval[tx[t].apr] EXCEPT !.status = tx[t].dec, !.on = tx[t].hash]

\* MUTANT: a refused approval stays open.
MutConsumedApprovalsOnly(t) ==
  [approval[tx[t].apr] EXCEPT
     !.status = IF tx[t].dec = "APPROVE" THEN "CONSUMED" ELSE @,
     !.on = tx[t].hash]

\* ApprovalService.consume
Consumed(t) ==
  [approval[tx[t].apr] EXCEPT
     !.status = IF tx[t].dec = "APPROVE" THEN "CONSUMED" ELSE "REJECTED",
     !.on = tx[t].hash]

\* The decision's transitions, each checked against Allowed.
DecidedRow(t, path) ==
  /\ PathAllowed(tx[t].st, path)
  /\ row' = [row EXCEPT ![DecidedItem(t)] =
               ApplyPath(row[DecidedItem(t)].log, tx[t].st, tx[t].rv, path, tx[t].apr)]
  /\ UNCHANGED <<item, workspace, design, bind>>

\* REJECT, or APPROVE of a code change.
DecideCommit(t) ==
  LET w == DecidedItem(t)
      path == AfterDecision(approval[tx[t].apr].type, tx[t].dec)
  IN /\ ConsumeGuard(t)
     /\ Len(path) = 1
     /\ DecidedRow(t, path)
     /\ approval' = [approval EXCEPT ![tx[t].apr] = Consumed(t)]
     /\ Finish(t, Progress(w, path[1]))

\* MUTANT: openApproval asks for the design again.
MutImplementOpensDesign(t, b) ==
  LET w == DecidedItem(t)
      path == AfterDecision(approval[tx[t].apr].type, tx[t].dec)
  IN /\ ConsumeGuard(t)
     /\ Len(path) = 4
     /\ approval[b].status = "ABSENT"
     /\ DecidedRow(t, path)
     /\ approval' = [approval EXCEPT ![tx[t].apr] = Consumed(t),
                                     ![b] = Requested(w, "DESIGN")]
     /\ Finish(t, Progress(w, path[4]) \o View(w, path[4], b))

\* APPROVE of a design: implementAndReview joins the transaction and ends in
\* WAITING_CODE_APPROVAL with a fresh CODE_CHANGE approval b.
DecideImplement(t, b) ==
  LET w == DecidedItem(t)
      path == AfterDecision(approval[tx[t].apr].type, tx[t].dec)
  IN /\ ConsumeGuard(t)
     /\ Len(path) = 4
     /\ approval[b].status = "ABSENT"
     /\ DecidedRow(t, path)
     /\ approval' = [approval EXCEPT ![tx[t].apr] = Consumed(t),
                                     ![b] = Requested(w, "CODE_CHANGE")]
     /\ Finish(t, Progress(w, path[4]) \o View(w, path[4], b))

\* apply.completed: the row must be APPLYING_CHANGE
CompleteLoad(t, w, ws) ==
  /\ Idle(t)
  /\ workspace[w] = ws
  /\ row[w].state = "APPLYING_CHANGE"
  /\ tx' = [tx EXCEPT ![t] = [NoTx EXCEPT !.op = "complete", !.wi = w,
                                          !.st = row[w].state, !.rv = row[w].rev]]
  /\ UNCHANGED <<db, outcome>>

\* MUTANT: updateState without the condition on revision.
MutCompleteNoRevision(t) ==
  LET w == tx[t].wi
  IN /\ tx[t].op = "complete"
     /\ row' = [row EXCEPT ![w] =
                  ApplyPath(row[w].log, tx[t].st, tx[t].rv, <<"COMPLETED">>, None)]
     /\ item' = [item EXCEPT ![w] = "COMPLETED"]
     /\ Finish(t, Progress(w, "COMPLETED"))
     /\ UNCHANGED <<workspace, design, bind, approval>>

\* MUTANT: the work item is left open.
MutCompleteItemOpen(t) ==
  LET w == tx[t].wi
  IN /\ tx[t].op = "complete"
     /\ row[w].rev = tx[t].rv
     /\ row' = [row EXCEPT ![w] =
                  ApplyPath(row[w].log, tx[t].st, tx[t].rv, <<"COMPLETED">>, None)]
     /\ Finish(t, Progress(w, "COMPLETED"))
     /\ UNCHANGED <<item, workspace, design, bind, approval>>

\* WorkflowEngine.completeAfterApply, on the row as it was read
CompleteCommit(t) ==
  LET w == tx[t].wi
  IN /\ tx[t].op = "complete"
     /\ row[w].rev = tx[t].rv
     /\ PathAllowed(tx[t].st, <<"COMPLETED">>)
     /\ row' = [row EXCEPT ![w] =
                  ApplyPath(row[w].log, tx[t].st, tx[t].rv, <<"COMPLETED">>, None)]
     /\ item' = [item EXCEPT ![w] = "COMPLETED"]
     /\ Finish(t, Progress(w, "COMPLETED"))
     /\ UNCHANGED <<workspace, design, bind, approval>>

\* apply.completed again: answered, nothing changes
CompleteAgain(t, w, ws) ==
  /\ Idle(t)
  /\ workspace[w] = ws
  /\ row[w].state = "COMPLETED"
  /\ Finish(t, Progress(w, "COMPLETED"))
  /\ UNCHANGED db

\* session.restore, or chat.submit with work_item_id: resumeAfterRestart reads
\* the row ...
ResumeLoad(t, w) ==
  /\ Idle(t)
  /\ row[w].state # "ABSENT"
  /\ tx' = [tx EXCEPT ![t] = [NoTx EXCEPT !.op = "resume", !.wi = w, !.st = row[w].state]]
  /\ UNCHANGED <<db, outcome>>

\* ... and writes the lease as that state asks: clearLease has no condition,
\* tryAcquireLease looks at the lease only.  It answers with the row it
\* re-reads, except for a terminal one.
ResumeCommit(t) ==
  LET w == tx[t].wi
  IN /\ tx[t].op = "resume"
     /\ \/ /\ tx[t].st \in Waiting
           /\ row' = [row EXCEPT ![w].lease = "free"]
           /\ Finish(t, Restored(w, row[w].state))
        \/ /\ tx[t].st \in Terminal
           /\ Finish(t, Progress(w, tx[t].st))
           /\ UNCHANGED row
        \/ /\ tx[t].st \notin Waiting \cup Terminal
           /\ row[w].lease # "held"
           /\ row' = [row EXCEPT ![w].lease = "held"]
           /\ Finish(t, Restored(w, row[w].state))
     /\ UNCHANGED <<item, workspace, design, bind, approval>>

BindAccepts(w, ws, a) ==
  /\ approval[a].wi = w
  /\ approval[a].type = "CODE_CHANGE"
  /\ approval[a].status = "REQUESTED"
  /\ workspace[w] = ws

\* approval.bind: the checks read the approval ...
BindCheck(t, w, ws, a, h) ==
  /\ Idle(t)
  /\ BindAccepts(w, ws, a)
  /\ tx' = [tx EXCEPT ![t] = [NoTx EXCEPT !.op = "bind", !.wi = w, !.apr = a, !.hash = h]]
  /\ UNCHANGED <<db, outcome>>

\* ... and the upsert of the context row looks at nothing.
BindCommit(t) ==
  /\ tx[t].op = "bind"
  /\ bind' = [bind EXCEPT ![tx[t].wi] = [apr |-> tx[t].apr, hash |-> tx[t].hash]]
  /\ Finish(t, <<>>)
  /\ UNCHANGED <<row, item, workspace, design, approval>>

\* A failed check, a tool or database error, or the end of the process.
Rollback(t) ==
  /\ tx[t].op # "idle"
  /\ Finish(t, <<>>)
  /\ UNCHANGED db

\* One event of emitOutcome leaves (or is dropped by a closed stream).
Emit(t) ==
  /\ outcome[t] # <<>>
  /\ outcome' = [outcome EXCEPT ![t] = Tail(@)]
  /\ UNCHANGED <<db, tx>>

\* The clock passes expires_at ...
ApprovalLate(a) ==
  /\ Usable(a)
  /\ approval' = [approval EXCEPT ![a].late = TRUE]
  /\ UNCHANGED <<row, item, workspace, design, bind, tx, outcome>>

\* ... or lease_until.
LeaseLapses(w) ==
  /\ row[w].lease = "held"
  /\ row' = [row EXCEPT ![w].lease = "lapsed"]
  /\ UNCHANGED <<item, workspace, design, bind, approval, tx, outcome>>

Handle(t) ==
  \/ \E w \in WorkItems, ws \in Workspaces, d \in Hashes, a \in Approvals : Submit(t, w, ws, d, a)
  \/ \E w \in WorkItems, ws \in Workspaces, a \in Approvals, h \in Hashes, dec \in {"APPROVE", "REJECT"} :
       DecideCheck(t, w, ws, a, h, dec)
  \/ \E a \in Approvals : DecideExpired(t, a)
  \/ DecideLoad(t)
  \/ DecideCommit(t)
  \/ \E b \in Approvals : DecideImplement(t, b)
  \/ \E w \in WorkItems, ws \in Workspaces : CompleteLoad(t, w, ws)
  \/ CompleteCommit(t)
  \/ \E w \in WorkItems, ws \in Workspaces : CompleteAgain(t, w, ws)
  \/ \E w \in WorkItems : ResumeLoad(t, w)
  \/ ResumeCommit(t)
  \/ \E w \in WorkItems, ws \in Workspaces, a \in Approvals, h \in Hashes : BindCheck(t, w, ws, a, h)
  \/ BindCommit(t)
  \/ Rollback(t)
  \/ Emit(t)

Next ==
  \/ \E t \in Workers : Handle(t)
  \/ \E a \in Approvals : ApprovalLate(a)
  \/ \E w \in WorkItems : LeaseLapses(w)

Spec == Init /\ [][Next]_vars

-----------------------------------------------------------------------------
(* Properties                                                              *)

\* Every variable holds rows, transactions and events of its type.
TypeOK ==
  /\ row \in [WorkItems -> Row]
  /\ item \in [WorkItems -> {"ABSENT", "OPEN", "COMPLETED"}]
  /\ workspace \in [WorkItems -> Workspaces \cup {None}]
  /\ design \in [WorkItems -> Hashes \cup {None}]
  /\ bind \in [WorkItems -> Bind]
  /\ approval \in [Approvals -> Approval]
  /\ tx \in [Workers -> Tx]
  /\ outcome \in [Workers -> Seq(Event)]

\* workflow_transition is a complete audit trail: with any interleaving of
\* handlers, its rows chain from creation to the current state over allowed
\* edges, one per revision.  A lost update of updateState would break it.
HistoryIsPath ==
  \A w \in WorkItems : row[w].state # "ABSENT" =>
    LET log == row[w].log
    IN /\ Len(log) = row[w].rev + 1
       /\ log[Len(log)].to = row[w].state
       /\ \A i \in 1 .. Len(log) :
            /\ <<log[i].from, log[i].to>> \in Allowed
            /\ log[i].from = IF i = 1 THEN "ABSENT" ELSE log[i - 1].to

\* A transition out of a waiting state was triggered by an approval of the same
\* work item and of the type that state waits for, decided the way the
\* transition went (WorkflowEngine.decide consumes and moves in one transaction).
GatesAreDecided ==
  \A w \in WorkItems : \A i \in 1 .. Len(row[w].log) :
    LET e == row[w].log[i]
    IN e.from \in Waiting =>
         /\ e.by \in Approvals
         /\ approval[e.by].wi = w
         /\ WaitingFor(approval[e.by].type) = e.from
         /\ approval[e.by].status = IF e.to = "REJECTED" THEN "REJECTED" ELSE "CONSUMED"

\* A workflow has at most one approval of a type, ever (the unique index allows
\* more once the first is decided), and it is open only while the workflow
\* waits for that type: no late decision can find a usable approval of a
\* workflow that has moved on.
OpenOnlyWhileWaiting ==
  /\ \A a, b \in Approvals :
       /\ approval[a].status # "ABSENT"
       /\ approval[a].wi = approval[b].wi
       /\ approval[a].type = approval[b].type
       => a = b
  /\ \A a \in Approvals :
       approval[a].status \in {"REQUESTED", "EXPIRED"} =>
         row[approval[a].wi].state = WaitingFor(approval[a].type)

\* A waiting workflow still has the approval it waits for, open or expired.
WaitingHasApproval ==
  \A w \in WorkItems : row[w].state \in Waiting =>
    \E a \in Approvals : /\ approval[a].wi = w
                         /\ WaitingFor(approval[a].type) = row[w].state
                         /\ approval[a].status \in {"REQUESTED", "EXPIRED"}

\* A waiting workflow holds no lease, although a resume acts on a state it
\* read before other handlers moved the row.
WaitingHoldsNoLease ==
  \A w \in WorkItems : row[w].state \in Waiting => row[w].lease = "free"

\* A workflow that waits for the user stays decidable, whatever the handlers that
\* race on it have read: its approval is there and nobody holds its lease.
WaitingIsDecidable == WaitingHasApproval /\ WaitingHoldsNoLease

\* No committed state is one that only a running handler would leave.
NoStrandedRun ==
  \A w \in WorkItems : row[w].state \in {"ABSENT", "APPLYING_CHANGE"} \cup Waiting \cup Terminal

\* The work item is closed exactly when its workflow completed.
ItemFollowsWorkflow ==
  \A w \in WorkItems : item[w] = "COMPLETED" <=> row[w].state = "COMPLETED"

\* Transactions are whole: whatever fails or dies, a workflow rests where somebody
\* outside the server moves it on (the user, or the agent that applies), and its
\* work item agrees with it.
CommitsAreWhole == NoStrandedRun /\ ItemFollowsWorkflow

\* What a handler still has to tell the agent is authorised when it is sent,
\* however late: an APPLYING_CHANGE or COMPLETED progress event only for a work
\* item whose code approval was consumed, a view only for an approval of that
\* item and kind.
EventsAreAuthorised ==
  \A t \in Workers : \A i \in 1 .. Len(outcome[t]) :
    LET e == outcome[t][i]
    IN /\ e.kind = "workflow.progress" /\ e.st \in {"APPLYING_CHANGE", "COMPLETED"} =>
            \E a \in Approvals : /\ approval[a].wi = e.wi
                                 /\ approval[a].type = "CODE_CHANGE"
                                 /\ approval[a].status = "CONSUMED"
       /\ e.kind # "workflow.progress" =>
            /\ approval[e.apr].wi = e.wi
            /\ e.kind = "design.review" <=> approval[e.apr].type = "DESIGN"

\* A decided or expired approval never changes again: two decisions racing for
\* one approval, or a decision racing its expiry, have one winner.
DecisionsAreFinal ==
  [][\A a \in Approvals :
       approval[a].status \in {"CONSUMED", "REJECTED", "EXPIRED"} => approval'[a] = approval[a]]_vars

PhaseOf(s) ==
  IF s = "ABSENT" THEN "new"
  ELSE IF s = "APPLYING_CHANGE" THEN "apply"
  ELSE IF s = "COMPLETED" THEN "done"
  ELSE IF s = "REJECTED" THEN "rejected"
  ELSE IF s \in {"IMPLEMENTING", "REVIEWING", "PREPARING_CHANGE", "WAITING_CODE_APPROVAL"}
  THEN "code"
  ELSE "design"

GrantedTo(w) ==
  {ty \in Types : \E a \in Approvals : /\ approval[a].wi = w
                                       /\ approval[a].type = ty
                                       /\ approval[a].status = "CONSUMED"}

Gate == INSTANCE ApprovalGate WITH
          phase   <- [w \in WorkItems |-> PhaseOf(row[w].state)],
          granted <- [w \in WorkItems |-> GrantedTo(w)]

\* The handlers, with all their interleavings, implement the two-gate protocol:
\* every committed transaction is one step of ApprovalGate or invisible to it.
ImplementsGate == Gate!Spec

=============================================================================
