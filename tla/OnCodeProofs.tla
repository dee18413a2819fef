---------------------------- MODULE OnCodeProofs ----------------------------
(***************************************************************************)
(* Proofs about the three processes together, for any number of work       *)
(* items, workers, edits, reconnects, restarts and faults.                 *)
(*                                                                         *)
(* Every step of OnCode is a step of WorkflowServer or leaves its tables   *)
(* alone, so what ServerHistoryProofs knows of the tables holds here; the  *)
(* invariant adds what the messages between the processes may say.         *)
(***************************************************************************)
EXTENDS OnCode, ServerHistoryProofs

-----------------------------------------------------------------------------
(* The inductive invariant                                                 *)

Review == [kind : {"review"}, wi : WorkItems, ws : Workspaces \cup {None}, apr : Approvals,
           hash : Hashes, dec : {None}]
Note   == [kind : {"progress"}, wi : WorkItems, ws : {None}, apr : {None}, hash : {None},
           dec : States \cup {"ABSENT"}]
Frame  == Review \cup Note

Proposal  == [wi : WorkItems, apr : Approvals, hash : [wi : WorkItems, base : Contents]]
HubState  == [pending : Proposal \cup {NoPending}, last : WorkItems \cup {None},
              ws : Workspaces, issued : SUBSET Workspaces]
IdeState  == [modals : Seq(Review), key : Approvals \cup {None}, item : WorkItems \cup {None},
              asked : SUBSET WorkItems]
Applied   == [p : Proposal, result : {"unchanged", "refused", "written"}]

\* What the agent's messages carry, by kind.
RequestOK(m) ==
  /\ m.wi \in WorkItems
  /\ m.kind = "chat.submit" => m.ws \in Workspaces
  /\ m.kind \in {"approval.decide", "approval.bind"} => m.apr \in Approvals /\ m.hash \in Hashes
  /\ m.kind = "approval.decide" => m.dec \in {"APPROVE", "REJECT"}

Links ==
  /\ \A m \in inbox : RequestOK(m)
  /\ wire \in Seq(Event) /\ push \in Seq(Frame)
  /\ hub \in HubState /\ ide \in IdeState
  /\ disk \in Contents /\ applied \in Seq(Applied)

\* chat.submit remembers where the work item belongs.
Placed == \A w \in WorkItems : row[w].state # "ABSENT" => workspace[w] \in Workspaces

\* The proposal that waits at the Hub names a code approval of its work item.
ForCode(table, p) ==
  p # NoPending => table[p.apr].wi = p.wi /\ table[p.apr].type = "CODE_CHANGE"

\* What the Hub has heard of the server, or still will, is authorised.
Trusted == AllAuthorised(approval, wire) /\ ForCode(approval, hub.pending)

\* The change of w is on the disk, or was there before.
WasApplied(done, w) ==
  \E i \in 1 .. Len(done) : done[i].p.wi = w /\ done[i].result \in {"written", "unchanged"}

\* Whoever completes w, or is about to, has it from an apply.
Earned ==
  /\ \A m \in inbox : m.kind = "apply.completed" => WasApplied(applied, m.wi)
  /\ \A t \in Workers : tx[t].op = "complete" => WasApplied(applied, tx[t].wi)
  /\ \A w \in WorkItems : row[w].state = "COMPLETED" => WasApplied(applied, w)

SystemInv == IInv /\ EventInv /\ Placed /\ Links /\ Trusted /\ Earned

-----------------------------------------------------------------------------
(* The server's part of a step                                             *)

\* An approval that was requested belongs to a work item whose workspace is known.
LEMMA RequestedIsPlaced ==
  ASSUME IInv, Placed, NEW a \in Approvals, approval[a].status = "REQUESTED", NEW w, approval[a].wi = w
  PROVE  w \in WorkItems /\ workspace[w] \in Workspaces
BY DEF IInv, ApprovalsOK, Placed

\* What handleEvent does with a message of the agent is a step of the server.
LEMMA HandleEventStep ==
  ASSUME IInv, Placed, NEW t \in Workers, NEW m, RequestOK(m), HandleEvent(t, m)
  PROVE  [Next]_vars
<1>1. ASSUME NEW a \in Approvals, m.kind = "chat.submit", Submit(t, m.wi, m.ws, DesignOf(m.wi), a)
      PROVE  Handle(t)
  <2>1. m.wi \in WorkItems /\ m.ws \in Workspaces
    BY <1>1 DEF RequestOK
  <2>2. DesignOf(m.wi) \in Hashes
    BY <2>1, DiffsAreHashes DEF DesignOf
  <2> HIDE DEF DesignOf
  <2> QED
    BY <1>1, <2>1, <2>2 DEF Handle
<1>2. ASSUME m.kind = "approval.decide", DecideCheck(t, m.wi, m.ws, m.apr, m.hash, m.dec)
      PROVE  Handle(t)
  <2>1. m.apr \in Approvals /\ m.hash \in Hashes /\ m.dec \in {"APPROVE", "REJECT"} /\ m.wi \in WorkItems
    BY <1>2 DEF RequestOK
  <2>2. approval[m.apr].status = "REQUESTED" /\ approval[m.apr].wi = m.wi /\ workspace[m.wi] = m.ws
    BY <1>2 DEF DecideCheck, DecideAccepts, Usable
  <2>3. m.ws \in Workspaces
    BY <2>1, <2>2, RequestedIsPlaced
  <2> QED
    BY <1>2, <2>1, <2>3 DEF Handle
<1>3. ASSUME m.kind = "approval.decide", DecideExpired(t, m.apr) PROVE Handle(t)
  BY <1>3 DEF RequestOK, Handle
<1>4. ASSUME m.kind = "approval.bind", BindCheck(t, m.wi, m.ws, m.apr, m.hash) PROVE Handle(t)
  <2>1. m.apr \in Approvals /\ m.hash \in Hashes /\ m.wi \in WorkItems
    BY <1>4 DEF RequestOK
  <2>2. approval[m.apr].status = "REQUESTED" /\ approval[m.apr].wi = m.wi /\ workspace[m.wi] = m.ws
    BY <1>4 DEF BindCheck, BindAccepts
  <2>3. m.ws \in Workspaces
    BY <2>1, <2>2, RequestedIsPlaced
  <2> QED
    BY <1>4, <2>1, <2>3 DEF Handle
<1>5. ASSUME CompleteLoad(t, m.wi, m.ws) \/ CompleteAgain(t, m.wi, m.ws) PROVE Handle(t)
  <2>1. m.wi \in WorkItems /\ workspace[m.wi] = m.ws /\ row[m.wi].state # "ABSENT"
    BY <1>5 DEF RequestOK, CompleteLoad, CompleteAgain
  <2>2. m.ws \in Workspaces
    BY <2>1 DEF Placed
  <2> QED
    BY <1>5, <2>1, <2>2 DEF Handle
<1>6. ASSUME ResumeLoad(t, m.wi) PROVE Handle(t)
  BY <1>6 DEF RequestOK, Handle
<1> QED
  BY <1>1, <1>2, <1>3, <1>4, <1>5, <1>6 DEF HandleEvent, Next

\* The steps of OnCode that leave the server alone.
Outside ==
  \/ Listen \/ Show \/ Reconnect \/ AgentRestart
  \/ \E w \in WorkItems : Ask(w)
  \/ \E dec \in {"APPROVE", "REJECT", None} : Decide(dec)
  \/ \E c \in Drafts : Edit(c)

\* Every step is one of the server, or leaves the server alone.
LEMMA ServerStep ==
  ASSUME SystemInv, [NextOnCode]_all
  PROVE  [Next]_vars
<1>1. ASSUME NEW t \in Workers, PickUp(t) PROVE [Next]_vars
  <2>1. PICK m \in inbox : HandleEvent(t, m)
    BY <1>1 DEF PickUp
  <2>2. RequestOK(m)
    BY DEF SystemInv, Links
  <2> QED
    BY <2>1, <2>2, HandleEventStep DEF SystemInv
<1>2. ASSUME NEW t \in Workers, Proceed(t) \/ Send(t) \/ HandlerFails(t) \/ SendLost(t) PROVE Handle(t)
  BY <1>2 DEF Proceed, Send, HandlerFails, SendLost, Handle
<1>3. Clock => Next
  BY DEF Clock, Next
<1>4. Outside => UNCHANGED vars
  BY DEF Outside, Listen, Show, Reconnect, AgentRestart, Ask, Decide, Edit
<1>5. CASE UNCHANGED all
  BY <1>5 DEF all
<1>6. CASE NextOnCode
  BY <1>1, <1>2, <1>3, <1>4, <1>6 DEF NextOnCode, Outside, Next
<1> QED
  BY <1>5, <1>6

\* A workspace is never forgotten.
LEMMA PlacedStep ==
  ASSUME IInv, Placed, [Next]_vars
  PROVE  Placed'
<1> SUFFICES ASSUME NEW v \in WorkItems, row'[v].state # "ABSENT" PROVE workspace'[v] \in Workspaces
  BY DEF Placed
<1>1. ASSUME NEW t \in Workers, NEW w \in WorkItems, NEW ws \in Workspaces, NEW d \in Hashes,
             NEW a \in Approvals, Submit(t, w, ws, d, a)
      PROVE  workspace'[v] \in Workspaces
  <2>1. workspace' = [workspace EXCEPT ![w] = ws] /\ workspace \in [WorkItems -> Workspaces \cup {None}]
    BY <1>1 DEF Submit, IInv, TypeOK
  <2>2. v # w => row'[v] = row[v]
    BY <1>1, SubmitMoves
  <2> QED
    BY <2>1, <2>2 DEF Placed
<1>2. ASSUME NEW w \in WorkItems, NEW a \in Approvals, NEW path, Decided(w, a, path), workspace' = workspace
      PROVE  workspace'[v] \in Workspaces
  <2>1. v # w => row'[v] = row[v]
    BY <1>2 DEF Decided
  <2>2. row[w].state # "ABSENT"
    BY <1>2 DEF Decided, WaitingFor
  <2> QED
    BY <1>2, <2>1, <2>2 DEF Placed
<1>3. ASSUME NEW t \in Workers, CompleteCommit(t) PROVE workspace'[v] \in Workspaces
  <2> DEFINE w == tx[t].wi
  <2>1. row[w].state # "ABSENT" /\ (v # w => row'[v] = row[v])
    BY <1>3, CompleteMoves
  <2>2. workspace' = workspace
    BY <1>3 DEF CompleteCommit
  <2> QED
    BY <2>1, <2>2 DEF Placed
<1>4. CASE AtRest
  <2>1. row[v].state # "ABSENT"
    BY <1>4 DEF AtRest
  <2>2. workspace' = workspace \/ \E t \in Workers, w \in WorkItems, ws \in Workspaces, d \in Hashes, a \in Approvals :
                                    Submit(t, w, ws, d, a)
    BY DEF Next, Handle, DecideCheck, DecideExpired, DecideLoad, DecideCommit, DecideImplement, DecidedRow,
           CompleteLoad, CompleteCommit, CompleteAgain, ResumeLoad, ResumeCommit, BindCheck, BindCommit,
           Rollback, Emit, ApprovalLate, LeaseLapses, db, vars
  <2> QED
    BY <1>1, <2>1, <2>2 DEF Placed
<1>5. ASSUME NEW t \in Workers, DecideCommit(t) \/ \E b \in Approvals : DecideImplement(t, b)
      PROVE  workspace'[v] \in Workspaces
  <2>1. workspace' = workspace
    BY <1>5 DEF DecideCommit, DecideImplement, DecidedRow
  <2> QED
    BY <1>2, <1>5, <2>1, DecideMoves
<1> QED
  BY <1>1, <1>3, <1>4, <1>5, StepKinds

\* What the Hub was told, and the proposal it keeps, stay authorised whatever
\* the server does meanwhile.
LEMMA TrustStays ==
  ASSUME SystemInv, [Next]_vars
  PROVE  AllAuthorised(approval', wire) /\ ForCode(approval', hub.pending)
<1>1. IInv /\ wire \in Seq(Event) /\ hub \in HubState
  BY DEF SystemInv, Links
<1>2. AllAuthorised(approval, wire) /\ ForCode(approval, hub.pending)
  BY DEF SystemInv, Trusted
<1>3. ASSUME NEW i \in 1 .. Len(wire) PROVE Authorised(approval', wire[i])
  <2>1. wire[i] \in Event /\ Authorised(approval, wire[i])
    BY <1>1, <1>2 DEF AllAuthorised
  <2> QED
    BY <1>1, <2>1, AuthorisedStays
<1>4. ASSUME hub.pending # NoPending
      PROVE  /\ approval'[hub.pending.apr].wi = hub.pending.wi
             /\ approval'[hub.pending.apr].type = "CODE_CHANGE"
  <2> DEFINE p == hub.pending
  <2>1. p.wi \in WorkItems /\ p.apr \in Approvals
    BY <1>1, <1>4 DEF HubState, Proposal
  <2>2. approval[p.apr].wi = p.wi /\ approval[p.apr].type = "CODE_CHANGE"
    BY <1>2, <1>4 DEF ForCode
  <2>3. approval[p.apr].status # "ABSENT"
    BY <1>1, <2>1, <2>2, NoneIsNoId DEF IInv, ApprovalsOK
  <2>4. Kept
    BY <1>1, KeptStep
  <2> QED
    BY <2>1, <2>2, <2>3, <2>4 DEF Kept
<1> QED
  BY <1>3, <1>4 DEF AllAuthorised, ForCode

\* Only completeAfterApply completes a workflow.
LEMMA CompletedBy ==
  ASSUME IInv, [Next]_vars, NEW w \in WorkItems, row'[w].state = "COMPLETED"
  PROVE  \/ row[w].state = "COMPLETED"
         \/ \E t \in Workers : tx[t].op = "complete" /\ tx[t].wi = w
<1>1. CASE AtRest
  BY <1>1 DEF AtRest
<1>2. ASSUME NEW t \in Workers, NEW v \in WorkItems, NEW ws \in Workspaces, NEW d \in Hashes,
             NEW a \in Approvals, Submit(t, v, ws, d, a)
      PROVE  row[w].state = "COMPLETED"
  <2>1. row'[v].state = "WAITING_DESIGN_APPROVAL" /\ (w # v => row'[w] = row[w])
    BY <1>2, SubmitMoves
  <2> QED
    BY <2>1
<1>3. ASSUME NEW v \in WorkItems, NEW a \in Approvals, NEW path, Decided(v, a, path)
      PROVE  row[w].state = "COMPLETED"
  <2>1. row'[v].state # "COMPLETED" /\ (w # v => row'[w] = row[w])
    BY <1>3 DEF Decided
  <2> QED
    BY <2>1
<1>4. ASSUME NEW t \in Workers, CompleteCommit(t)
      PROVE  row[w].state = "COMPLETED" \/ (tx[t].op = "complete" /\ tx[t].wi = w)
  <2>1. w # tx[t].wi => row'[w] = row[w]
    BY <1>4, CompleteMoves
  <2>2. tx[t].op = "complete"
    BY <1>4 DEF CompleteCommit
  <2> QED
    BY <2>1, <2>2
<1> QED
  BY <1>1, <1>2, <1>3, <1>4, StepKinds, DecideMoves

\* A transaction that completes w was begun for an apply.completed of w.
LEMMA CompletesFor ==
  ASSUME IInv, NEW t \in Workers, NEW u \in Workers, tx'[u].op = "complete",
         \/ Proceed(t) \/ Send(t) \/ HandlerFails(t) \/ SendLost(t) \/ Clock
         \/ \E m \in inbox : HandleEvent(t, m)
  PROVE  \/ tx[u].op = "complete" /\ tx'[u].wi = tx[u].wi
         \/ \E m \in inbox : m.kind = "apply.completed" /\ tx'[u].wi = m.wi
<1>1. tx \in [Workers -> Tx]
  BY DEF IInv, TypeOK
<1>2. ASSUME tx' = [tx EXCEPT ![t] = NoTx] PROVE tx[u].op = "complete" /\ tx'[u].wi = tx[u].wi
  BY <1>1, <1>2 DEF NoTx
<1>3. ASSUME NEW op, op # "complete", NEW new, tx' = [tx EXCEPT ![t] = new], new.op = op
      PROVE  tx[u].op = "complete" /\ tx'[u].wi = tx[u].wi
  BY <1>1, <1>3
<1>4. ASSUME tx' = tx PROVE tx[u].op = "complete" /\ tx'[u].wi = tx[u].wi
  BY <1>4
<1>5. CASE Proceed(t)
  <2>1. ASSUME DecideLoad(t) PROVE tx[u].op = "complete" /\ tx'[u].wi = tx[u].wi
    <3> DEFINE k == [tx[t] EXCEPT !.op = "consume"]
               j == [k EXCEPT !.st = row[DecidedItem(t)].state]
               new == [j EXCEPT !.rv = row[DecidedItem(t)].rev]
    <3>1. tx' = [tx EXCEPT ![t] = new]
      BY <1>1, <2>1 DEF DecideLoad
    <3>2. new.op = "consume"
      BY <1>1 DEF Tx
    <3> QED
      BY <1>3, <3>1, <3>2
  <2> QED
    BY <1>2, <1>5, <2>1 DEF Proceed, DecideCommit, DecideImplement, CompleteCommit, ResumeCommit,
                             BindCommit, Rollback, Finish
<1>6. CASE Send(t) \/ SendLost(t) \/ Clock
  BY <1>4, <1>6 DEF Send, SendLost, Clock, Emit, ApprovalLate, LeaseLapses
<1>7. CASE HandlerFails(t)
  BY <1>2, <1>7 DEF HandlerFails, Rollback, Finish
<1>8. ASSUME NEW m \in inbox, HandleEvent(t, m)
      PROVE  \/ tx[u].op = "complete" /\ tx'[u].wi = tx[u].wi
             \/ m.kind = "apply.completed" /\ tx'[u].wi = m.wi
  <2>1. ASSUME NEW a \in Approvals, Submit(t, m.wi, m.ws, DesignOf(m.wi), a)
        PROVE  tx[u].op = "complete" /\ tx'[u].wi = tx[u].wi
    BY <1>2, <2>1 DEF Submit, Finish
  <2>2. ASSUME DecideCheck(t, m.wi, m.ws, m.apr, m.hash, m.dec)
        PROVE  tx[u].op = "complete" /\ tx'[u].wi = tx[u].wi
    BY <1>3, <2>2 DEF DecideCheck, NoTx
  <2>3. ASSUME DecideExpired(t, m.apr) PROVE tx[u].op = "complete" /\ tx'[u].wi = tx[u].wi
    BY <1>4, <2>3 DEF DecideExpired
  <2>4. ASSUME BindCheck(t, m.wi, m.ws, m.apr, m.hash)
        PROVE  tx[u].op = "complete" /\ tx'[u].wi = tx[u].wi
    BY <1>3, <2>4 DEF BindCheck, NoTx
  <2>5. ASSUME m.kind = "apply.completed", CompleteLoad(t, m.wi, m.ws)
        PROVE  \/ tx[u].op = "complete" /\ tx'[u].wi = tx[u].wi
               \/ m.kind = "apply.completed" /\ tx'[u].wi = m.wi
    <3> DEFINE new == [NoTx EXCEPT !.op = "complete", !.wi = m.wi, !.st = row[m.wi].state, !.rv = row[m.wi].rev]
    <3>1. tx' = [tx EXCEPT ![t] = new]
      BY <2>5 DEF CompleteLoad
    <3>2. new.wi = m.wi
      BY DEF NoTx
    <3> HIDE DEF new
    <3> QED
      BY <1>1, <2>5, <3>1, <3>2
  <2>6. ASSUME CompleteAgain(t, m.wi, m.ws) PROVE tx[u].op = "complete" /\ tx'[u].wi = tx[u].wi
    BY <1>2, <2>6 DEF CompleteAgain, Finish
  <2>7. ASSUME ResumeLoad(t, m.wi) PROVE tx[u].op = "complete" /\ tx'[u].wi = tx[u].wi
    BY <1>3, <2>7 DEF ResumeLoad, NoTx
  <2>8. ASSUME UNCHANGED vars PROVE tx[u].op = "complete" /\ tx'[u].wi = tx[u].wi
    BY <1>4, <2>8 DEF vars
  <2> QED
    BY <1>8, <2>1, <2>2, <2>3, <2>4, <2>5, <2>6, <2>7, <2>8 DEF HandleEvent
<1> QED
  BY <1>5, <1>6, <1>7, <1>8

\* The steps of a thread of the server, and of its clock.
ServerSide(t) == PickUp(t) \/ Proceed(t) \/ Send(t) \/ HandlerFails(t) \/ SendLost(t) \/ Clock

\* What the server does to the links: it takes events off, and puts on what its
\* handlers were authorised to say.
LEMMA ServerLinks ==
  ASSUME SystemInv, NEW t \in Workers, ServerSide(t)
  PROVE  /\ inbox' \subseteq inbox
         /\ UNCHANGED <<push, hub, ide, disk, applied>>
         /\ wire' = wire \/ \E e \in Event : wire' = Append(wire, e) /\ Authorised(approval', e)
<1>1. CASE Send(t)
  <2> DEFINE e == Head(outcome[t])
  <2>1. outcome[t] \in Seq(Event) /\ outcome[t] # <<>>
    BY <1>1 DEF Send, Emit, SystemInv, IInv, TypeOK
  <2>2. 1 \in 1 .. Len(outcome[t]) /\ e = outcome[t][1] /\ e \in Event
    BY <2>1
  <2>3. Authorised(approval, e)
    BY <2>2 DEF SystemInv, EventInv, AllAuthorised
  <2>4. approval' = approval
    BY <1>1 DEF Send, Emit, db
  <2> QED
    BY <1>1, <2>2, <2>3, <2>4 DEF Send
<1>2. CASE PickUp(t) \/ Proceed(t) \/ HandlerFails(t) \/ SendLost(t) \/ Clock
  BY <1>2 DEF PickUp, Proceed, HandlerFails, SendLost, Clock, local
<1> QED
  BY <1>1, <1>2 DEF ServerSide

\* A step of the server keeps what is known of the links, the messages on them
\* and the applies behind them.
LEMMA ServerKeeps ==
  ASSUME SystemInv, NEW t \in Workers, ServerSide(t), [Next]_vars
  PROVE  Links' /\ Trusted' /\ Earned'
<1> USE ServerLinks
<1>1. Links'
  <2>1. wire' \in Seq(Event)
    BY DEF SystemInv, Links
  <2>2. UNCHANGED <<push, hub, ide, disk, applied>> /\ \A m \in inbox' : RequestOK(m)
    BY DEF SystemInv, Links
  <2> QED
    BY <2>1, <2>2 DEF SystemInv, Links
<1>2. Trusted'
  <2>1. AllAuthorised(approval', wire) /\ ForCode(approval', hub.pending)
    BY TrustStays
  <2>2. ASSUME NEW e \in Event, wire' = Append(wire, e), Authorised(approval', e)
        PROVE  AllAuthorised(approval', wire')
    <3>1. wire \in Seq(Event)
      BY DEF SystemInv, Links
    <3>2. ASSUME NEW i \in 1 .. Len(wire') PROVE Authorised(approval', wire'[i])
      <4>1. (i \in 1 .. Len(wire) /\ wire'[i] = wire[i]) \/ wire'[i] = e
        BY <2>2, <3>1
      <4> QED
        BY <2>1, <2>2, <4>1 DEF AllAuthorised
    <3> QED
      BY <3>2 DEF AllAuthorised
  <2>3. AllAuthorised(approval', wire')
    BY <2>1, <2>2
  <2>4. hub' = hub
    OBVIOUS
  <2> QED
    BY <2>1, <2>3, <2>4 DEF Trusted
<1>3. Earned'
  <2>1. applied' = applied /\ inbox' \subseteq inbox /\ IInv
    BY DEF SystemInv
  <2>2. /\ \A m \in inbox : m.kind = "apply.completed" => WasApplied(applied, m.wi)
        /\ \A u \in Workers : tx[u].op = "complete" => WasApplied(applied, tx[u].wi)
        /\ \A w \in WorkItems : row[w].state = "COMPLETED" => WasApplied(applied, w)
    BY DEF SystemInv, Earned
  <2>3. ASSUME NEW u \in Workers, tx'[u].op = "complete" PROVE WasApplied(applied, tx'[u].wi)
    <3>1. \/ Proceed(t) \/ Send(t) \/ HandlerFails(t) \/ SendLost(t) \/ Clock
          \/ \E m \in inbox : HandleEvent(t, m)
      BY DEF ServerSide, PickUp
    <3>2. \/ tx[u].op = "complete" /\ tx'[u].wi = tx[u].wi
          \/ \E m \in inbox : m.kind = "apply.completed" /\ tx'[u].wi = m.wi
      BY <2>1, <2>3, <3>1, CompletesFor
    <3> QED
      BY <2>2, <3>2
  <2>4. ASSUME NEW w \in WorkItems, row'[w].state = "COMPLETED" PROVE WasApplied(applied, w)
    BY <2>1, <2>2, <2>4, CompletedBy
  <2> QED
    BY <2>1, <2>2, <2>3, <2>4 DEF Earned
<1> QED
  BY <1>1, <1>2, <1>3

-----------------------------------------------------------------------------
(* The agent's and the extension's steps                                   *)

\* The messages of the agent and the frames of the Hub are what they should be.
LEMMA MessageTypes ==
  ASSUME NEW w \in WorkItems, NEW ws \in Workspaces, NEW a \in Approvals, NEW h \in Hashes,
         NEW v \in Workspaces \cup {None}, NEW s \in States \cup {"ABSENT"},
         NEW dec \in {"APPROVE", "REJECT"}
  PROVE  /\ RequestOK(Msg("chat.submit", w, ws, None, None, None))
         /\ RequestOK(Msg("approval.bind", w, ws, a, h, None))
         /\ RequestOK(Msg("approval.decide", w, v, a, h, dec))
         /\ RequestOK(Msg("apply.completed", w, ws, None, None, None))
         /\ RequestOK(Msg("session.restore", w, None, None, None, None))
         /\ Msg("review", w, v, a, h, None) \in Review
         /\ Msg("progress", w, None, None, None, s) \in Note
BY DEF RequestOK, Msg, Review, Note

\* An apply that is recorded takes nothing from the earlier ones.
LEMMA AppliesGrow ==
  ASSUME applied \in Seq(Applied), NEW r \in Applied, NEW w, WasApplied(applied, w)
  PROVE  WasApplied(Append(applied, r), w)
<1>1. PICK i \in 1 .. Len(applied) : applied[i].p.wi = w /\ applied[i].result \in {"written", "unchanged"}
  BY DEF WasApplied
<1>2. i \in 1 .. Len(Append(applied, r)) /\ Append(applied, r)[i] = applied[i]
  OBVIOUS
<1> QED
  BY <1>1, <1>2 DEF WasApplied

\* A step that leaves the server alone and reports no apply keeps Earned.
LEMMA EarnedStays ==
  ASSUME Earned, UNCHANGED <<vars, applied>>,
         \A m \in inbox' : m \in inbox \/ m.kind # "apply.completed"
  PROVE  Earned'
<1>1. tx' = tx /\ row' = row /\ applied' = applied
  BY DEF vars
<1> QED
  BY <1>1 DEF Earned

\* What the Hub remembers after an event: a proposal and a work item.
Remembering(h, p, w) == [h EXCEPT !.pending = p, !.last = w]

\* A Hub that remembers a proposal is still a Hub.
LEMMA HubRemembers ==
  ASSUME NEW h \in HubState, NEW p \in Proposal \cup {NoPending}, NEW w \in WorkItems \cup {None}
  PROVE  /\ Remembering(h, p, w) \in HubState
         /\ Remembering(h, p, w).pending = p
         /\ [h EXCEPT !.last = w] \in HubState
         /\ [h EXCEPT !.last = w].pending = h.pending
<1> DEFINE k == [h EXCEPT !.pending = p]
<1>1. k \in HubState /\ k.pending = p
  BY DEF HubState
<1>2. Remembering(h, p, w) = [k EXCEPT !.last = w]
  BY DEF Remembering
<1> HIDE DEF k
<1>3. ASSUME NEW g \in HubState
      PROVE  [g EXCEPT !.last = w] \in HubState /\ [g EXCEPT !.last = w].pending = g.pending
  BY DEF HubState
<1> QED
  BY <1>1, <1>2, <1>3

\* A reconnecting extension asks for a work item that exists.
LEMMA RestoreTypes ==
  ASSUME ide \in IdeState, NEW last \in WorkItems \cup {None}
  PROVE  \A m \in RestoreOf(last) : RequestOK(m) /\ m.kind = "session.restore"
BY MessageTypes DEF RestoreOf, IdeState, Msg, RequestOK

\* What is left on the wire, and what the Hub keeps, stays trusted when the
\* server does nothing.
LEMMA TrustKept ==
  ASSUME Trusted, wire \in Seq(Event), UNCHANGED vars,
         wire' = wire \/ wire' = <<>> \/ (wire # <<>> /\ wire' = Tail(wire)),
         ForCode(approval, hub'.pending)
  PROVE  Trusted'
<1>1. approval' = approval
  BY DEF vars
<1>2. ASSUME NEW i \in 1 .. Len(wire') PROVE Authorised(approval, wire'[i])
  <2>1. \E j \in 1 .. Len(wire) : wire'[i] = wire[j]
    <3>1. CASE wire' = wire
      BY <3>1, <1>2
    <3>2. CASE wire' = <<>>
      BY <3>2, <1>2
    <3>3. CASE wire # <<>> /\ wire' = Tail(wire)
      <4>1. i + 1 \in 1 .. Len(wire) /\ wire'[i] = wire[i + 1]
        BY <1>2, <3>3
      <4> QED
        BY <4>1
    <3> QED
      BY <3>1, <3>2, <3>3
  <2> QED
    BY <2>1 DEF Trusted, AllAuthorised
<1> QED
  BY <1>1, <1>2 DEF Trusted, AllAuthorised

\* oncode.chat.send
LEMMA AskKeeps ==
  ASSUME SystemInv, NEW w \in WorkItems, Ask(w)
  PROVE  Links' /\ Trusted' /\ Earned'
<1> DEFINE m == Msg("chat.submit", w, hub.ws, None, None, None)
<1>1. Links /\ Trusted /\ Earned
  BY DEF SystemInv
<1>2. UNCHANGED <<vars, wire, push, hub, disk, applied>> /\ inbox' = inbox \cup {m}
  BY DEF Ask
<1>3. RequestOK(m) /\ m.kind # "apply.completed"
  BY <1>1, MessageTypes DEF Links, HubState, Msg, RequestOK
<1>4. ide' \in IdeState
  <2> DEFINE j == [ide EXCEPT !.asked = @ \cup {w}]
  <2>1. j \in IdeState
    BY <1>1 DEF Links, IdeState
  <2>2. ide' = [j EXCEPT !.key = None]
    BY DEF Ask
  <2> HIDE DEF j
  <2> QED
    BY <2>1, <2>2 DEF IdeState
<1> HIDE DEF m
<1>5. Links'
  BY <1>1, <1>2, <1>3, <1>4 DEF Links
<1>6. Trusted'
  BY <1>1, <1>2, TrustKept DEF Links, Trusted
<1>7. Earned'
  BY <1>1, <1>2, <1>3, EarnedStays
<1> QED
  BY <1>5, <1>6, <1>7

\* onMessage of the extension
LEMMA ShowKeeps ==
  ASSUME SystemInv, Show
  PROVE  Links' /\ Trusted' /\ Earned'
<1>1. Links /\ Trusted /\ Earned
  BY DEF SystemInv
<1>2. UNCHANGED <<vars, inbox, wire, hub, disk, applied>>
  BY DEF Show
<1>3. push # <<>> /\ push' = Tail(push) /\ push \in Seq(Frame) /\ ide \in IdeState
  BY <1>1 DEF Show, Links
<1> DEFINE m == Head(push)
<1>4. push' \in Seq(Frame) /\ m \in Frame
  BY <1>3
<1>5. ASSUME m.kind = "progress", ide' = [ide EXCEPT !.item = IF m.dec \in Terminal THEN None ELSE m.wi]
      PROVE  ide' \in IdeState
  <2>1. m.wi \in WorkItems
    BY <1>4 DEF Frame, Review, Note
  <2> HIDE DEF m
  <2> QED
    BY <1>3, <1>5, <2>1 DEF IdeState
<1>6. ASSUME m.kind = "review",
             ide' = IF m.apr = ide.key THEN [ide EXCEPT !.item = m.wi]
                    ELSE [ide EXCEPT !.item = m.wi, !.key = m.apr, !.modals = Append(@, m)]
      PROVE  ide' \in IdeState
  <2>1. m \in Review /\ m.wi \in WorkItems /\ m.apr \in Approvals
    BY <1>4, <1>6 DEF Frame, Review, Note
  <2> HIDE DEF m
  <2> DEFINE j == [ide EXCEPT !.item = m.wi]
             k == [j EXCEPT !.key = m.apr]
  <2>2. j \in IdeState /\ j.modals = ide.modals
    BY <1>3, <2>1 DEF IdeState
  <2>3. k \in IdeState /\ k.modals = ide.modals
    <3> HIDE DEF j
    <3> QED
      BY <2>1, <2>2 DEF IdeState
  <2>4. ide' = j \/ ide' = [k EXCEPT !.modals = Append(ide.modals, m)]
    BY <1>3, <1>6 DEF IdeState
  <2>5. Append(ide.modals, m) \in Seq(Review)
    BY <1>3, <2>1 DEF IdeState
  <2> HIDE DEF j, k
  <2> QED
    BY <2>2, <2>3, <2>4, <2>5 DEF IdeState
<1>7. ide' \in IdeState
  BY <1>5, <1>6 DEF Show
<1>8. Links'
  BY <1>1, <1>2, <1>4, <1>7 DEF Links
<1>9. Trusted'
  BY <1>1, <1>2, TrustKept DEF Links, Trusted
<1>10. Earned'
  BY <1>1, <1>2, EarnedStays
<1> QED
  BY <1>8, <1>9, <1>10

\* sendDecision: the user answers the review on top, or closes it.
LEMMA DecideKeeps ==
  ASSUME SystemInv, NEW dec \in {"APPROVE", "REJECT", None}, Decide(dec)
  PROVE  Links' /\ Trusted' /\ Earned'
<1>1. Links /\ Trusted /\ Earned
  BY DEF SystemInv
<1>2. UNCHANGED <<vars, wire, push, hub, disk, applied>>
  BY DEF Decide
<1>3. ide \in IdeState /\ ide.modals \in Seq(Review) /\ ide.modals # <<>>
  BY <1>1 DEF Links, IdeState, Decide
<1> DEFINE r == Head(ide.modals)
           m == Msg("approval.decide", r.wi, r.ws, r.apr, r.hash, dec)
<1>4. r \in Review /\ Tail(ide.modals) \in Seq(Review)
  BY <1>3
<1>5. ide' \in IdeState
  <2> DEFINE j == [ide EXCEPT !.modals = Tail(ide.modals)]
  <2>1. j \in IdeState
    BY <1>3, <1>4 DEF IdeState
  <2>2. ide' = [j EXCEPT !.key = None]
    BY <1>3 DEF Decide, IdeState
  <2> HIDE DEF j
  <2> QED
    BY <2>1, <2>2 DEF IdeState
<1>6. inbox' = IF dec = None THEN inbox ELSE inbox \cup {m}
  BY DEF Decide
<1>7. dec # None => RequestOK(m)
  <2> HIDE DEF r
  <2> QED
    BY <1>4, MessageTypes DEF Review, RequestOK, Msg
<1>8. m.kind # "apply.completed"
  BY DEF Msg
<1> HIDE DEF m
<1>9. Links'
  BY <1>1, <1>2, <1>5, <1>6, <1>7 DEF Links
<1>10. Trusted'
  BY <1>1, <1>2, TrustKept DEF Links, Trusted
<1>11. Earned'
  BY <1>1, <1>2, <1>6, <1>8, EarnedStays
<1> QED
  BY <1>9, <1>10, <1>11

\* The socket of the extension breaks and comes back, or the user edits the file.
LEMMA ReconnectKeeps ==
  ASSUME SystemInv, Reconnect \/ \E c \in Drafts : Edit(c)
  PROVE  Links' /\ Trusted' /\ Earned'
<1>1. Links /\ Trusted /\ Earned
  BY DEF SystemInv
<1>2. UNCHANGED <<vars, wire, hub, ide, applied>> /\ (push' = push \/ push' = <<>>)
  BY DEF Reconnect, Edit
<1>3. \A m \in inbox' : m \in inbox \/ (RequestOK(m) /\ m.kind = "session.restore")
  BY <1>1, RestoreTypes DEF Reconnect, Edit, Links, HubState
<1>4. disk' \in Contents
  BY <1>1 DEF Reconnect, Edit, Links, Contents
<1>5. Links'
  <2>1. push' \in Seq(Frame)
    <3>1. push \in Seq(Frame) /\ <<>> \in Seq(Frame)
      BY <1>1 DEF Links
    <3>2. push' = push \/ push' = <<>>
      BY <1>2
    <3> QED
      BY <3>1, <3>2
  <2>2. /\ wire' = wire /\ hub' = hub /\ ide' = ide /\ applied' = applied
        /\ \A m \in inbox' : RequestOK(m)
    BY <1>1, <1>2, <1>3 DEF Links
  <2> QED
    BY <1>1, <1>4, <2>1, <2>2 DEF Links
<1>6. Trusted'
  BY <1>1, <1>2, TrustKept DEF Links, Trusted
<1>7. Earned'
  BY <1>1, <1>2, <1>3, EarnedStays
<1> QED
  BY <1>5, <1>6, <1>7

\* A restarted agent knows nothing and is told nothing of what was on its way.
LEMMA RestartKeeps ==
  ASSUME SystemInv, AgentRestart
  PROVE  Links' /\ Trusted' /\ Earned'
<1>1. Links /\ Trusted /\ Earned
  BY DEF SystemInv
<1>2. UNCHANGED <<vars, ide, disk, applied>> /\ wire' = <<>> /\ push' = <<>>
  BY DEF AgentRestart
<1>3. \A m \in inbox' : m \in inbox \/ (RequestOK(m) /\ m.kind = "session.restore")
  BY <1>1, RestoreTypes DEF AgentRestart, Links
<1>4. hub' \in HubState /\ hub'.pending = NoPending
  BY <1>1 DEF AgentRestart, Registered, Links, HubState
<1>5. Links'
  BY <1>1, <1>2, <1>3, <1>4 DEF Links
<1>6. Trusted'
  BY <1>1, <1>2, <1>4, TrustKept DEF Links, ForCode
<1>7. Earned'
  BY <1>1, <1>2, <1>3, EarnedStays
<1> QED
  BY <1>5, <1>6, <1>7

\* What the Hub reads off the stream is an event the server was authorised to send.
LEMMA HeardIsAuthorised ==
  ASSUME SystemInv, wire # <<>>
  PROVE  /\ Head(wire) \in Event /\ Authorised(approval, Head(wire))
         /\ Tail(wire) \in Seq(Event)
<1>1. wire \in Seq(Event) /\ AllAuthorised(approval, wire)
  BY DEF SystemInv, Links, Trusted
<1>2. 1 \in 1 .. Len(wire) /\ Head(wire) = wire[1] /\ Head(wire) \in Event /\ Tail(wire) \in Seq(Event)
  BY <1>1
<1> QED
  BY <1>1, <1>2 DEF AllAuthorised

\* pushDiffReview: the proposal the Hub keeps names the code approval it was
\* announced with.
LEMMA PushDiffReviewKeeps ==
  ASSUME SystemInv, wire # <<>>, wire' = Tail(wire), UNCHANGED <<vars, ide>>,
         Head(wire).kind = "change.proposed", PushDiffReview(Head(wire))
  PROVE  Links' /\ Trusted' /\ Earned'
<1> DEFINE e == Head(wire)
           h == Diff(e.wi, disk)
           p == [wi |-> e.wi, apr |-> e.apr, hash |-> h]
           m == Msg("approval.bind", e.wi, hub.ws, e.apr, h, None)
           f == Msg("review", e.wi, hub.ws, e.apr, h, None)
<1>1. Links /\ Trusted /\ Earned /\ IInv
  BY DEF SystemInv
<1>2. e \in Event /\ Authorised(approval, e) /\ wire' \in Seq(Event)
  BY HeardIsAuthorised
<1>3. /\ hub' = [hub EXCEPT !.pending = p, !.last = e.wi]
      /\ inbox' = inbox \cup {m}
      /\ push' = Append(push, f)
      /\ UNCHANGED <<disk, applied>>
  BY DEF PushDiffReview
<1> HIDE DEF e
<1>4. e.wi \in WorkItems /\ e.apr \in Approvals /\ approval[e.apr].wi = e.wi /\ approval[e.apr].type # "DESIGN"
  BY <1>2 DEF Event, Authorised, e
<1>5. approval[e.apr].type = "CODE_CHANGE"
  BY <1>1, <1>4, NoneIsNoId DEF IInv, ApprovalsOK, Types
<1>6. disk \in Contents /\ hub \in HubState /\ hub.ws \in Workspaces
  BY <1>1 DEF Links, HubState
<1>7. h \in [wi : WorkItems, base : Contents]
  BY <1>4, <1>6 DEF Diff
<1>8. h \in Hashes
  BY <1>4, <1>6, DiffsAreHashes DEF Diff
<1> HIDE DEF h
<1>9. p \in Proposal /\ p.apr = e.apr /\ p.wi = e.wi
  BY <1>4, <1>7 DEF Proposal
<1>10. RequestOK(m) /\ f \in Frame
  BY <1>4, <1>6, <1>8, MessageTypes DEF Frame, Msg, RequestOK, Review
<1>11. m.kind # "apply.completed"
  BY DEF Msg
<1> HIDE DEF p, m, f
<1>12. hub' \in HubState /\ hub'.pending = p
  <2>1. hub' = Remembering(hub, p, e.wi)
    BY <1>3 DEF Remembering
  <2> QED
    BY <1>4, <1>6, <1>9, <2>1, HubRemembers
<1>13. Links'
  <2>1. push' \in Seq(Frame)
    BY <1>1, <1>3, <1>10 DEF Links
  <2>2. \A n \in inbox' : RequestOK(n)
    BY <1>1, <1>3, <1>10 DEF Links
  <2> QED
    BY <1>1, <1>2, <1>3, <1>12, <2>1, <2>2 DEF Links
<1>14. ForCode(approval, hub'.pending)
  BY <1>4, <1>5, <1>9, <1>12 DEF ForCode
<1>15. Trusted'
  <2>1. wire \in Seq(Event)
    BY <1>1 DEF Links
  <2> QED
    BY <1>1, <1>14, <2>1, TrustKept
<1>16. Earned'
  BY <1>1, <1>3, <1>11, EarnedStays
<1> QED
  BY <1>13, <1>15, <1>16

\* design.review is passed on with the workspace the server remembers.
LEMMA PushDesignKeeps ==
  ASSUME SystemInv, wire # <<>>, wire' = Tail(wire), UNCHANGED <<vars, ide>>,
         Head(wire).kind = "design.review", PushDesign(Head(wire))
  PROVE  Links' /\ Trusted' /\ Earned'
<1> DEFINE e == Head(wire)
           h == DesignOf(e.wi)
           f == Msg("review", e.wi, workspace[e.wi], e.apr, h, None)
<1>1. Links /\ Trusted /\ Earned /\ IInv
  BY DEF SystemInv
<1>2. e \in Event /\ Authorised(approval, e) /\ wire' \in Seq(Event)
  BY HeardIsAuthorised
<1>3. /\ hub' = [hub EXCEPT !.last = e.wi]
      /\ push' = Append(push, f)
      /\ UNCHANGED <<inbox, disk, applied>>
  BY DEF PushDesign
<1>4. e.kind = "design.review"
  OBVIOUS
<1> HIDE DEF e
<1>5. e.wi \in WorkItems /\ e.apr \in Approvals
  BY <1>2, <1>4 DEF Event, Authorised
<1>6. h \in Hashes
  BY <1>5, DiffsAreHashes DEF DesignOf
<1>7. workspace[e.wi] \in Workspaces \cup {None}
  BY <1>1, <1>5 DEF IInv, TypeOK
<1> HIDE DEF h
<1>8. f \in Frame
  BY <1>5, <1>6, <1>7 DEF Frame, Review, Msg
<1> HIDE DEF f
<1>9. hub \in HubState /\ wire \in Seq(Event)
  BY <1>1 DEF Links
<1>10. hub' \in HubState /\ hub'.pending = hub.pending
  BY <1>3, <1>5, <1>9, HubRemembers
<1>11. Links'
  <2>1. push' \in Seq(Frame)
    BY <1>1, <1>3, <1>8 DEF Links
  <2> QED
    BY <1>1, <1>2, <1>3, <1>10, <2>1 DEF Links
<1>12. Trusted'
  <2>1. ForCode(approval, hub'.pending)
    BY <1>1, <1>10 DEF Trusted
  <2> QED
    BY <1>1, <1>9, <2>1, TrustKept
<1>13. Earned'
  BY <1>1, <1>3, EarnedStays
<1> QED
  BY <1>11, <1>12, <1>13

\* takePending leaves nothing behind.
LEMMA PendingTaken ==
  ASSUME hub \in HubState, NEW e \in Event
  PROVE  TakePending(e) \in HubState /\ TakePending(e).pending = NoPending
<1>1. e.wi \in WorkItems
  BY DEF Event
<1>2. TakePending(e) = Remembering(hub, NoPending, e.wi)
  BY DEF TakePending, Remembering
<1>3. NoPending \in Proposal \cup {NoPending} /\ e.wi \in WorkItems \cup {None}
  BY <1>1
<1>4. /\ Remembering(hub, NoPending, e.wi) \in HubState
      /\ Remembering(hub, NoPending, e.wi).pending = NoPending
  BY <1>3, HubRemembers, Zenon
<1> QED
  BY <1>2, <1>4

\* applyIfAuthorized: apply.completed is sent only for a change that is on the disk.
LEMMA ApplyPendingKeeps ==
  ASSUME SystemInv, wire # <<>>, wire' = Tail(wire), UNCHANGED <<vars, ide>>, push' \in Seq(Frame),
         ApplyPending(Head(wire))
  PROVE  Links' /\ Trusted' /\ Earned'
<1> DEFINE e == Head(wire)
           p == hub.pending
           result == Revalidate(p)
           r == [p |-> p, result |-> result]
           m == Msg("apply.completed", p.wi, hub.ws, None, None, None)
<1>1. Links /\ Trusted /\ Earned /\ IInv
  BY DEF SystemInv
<1>2. e \in Event /\ wire' \in Seq(Event)
  BY HeardIsAuthorised
<1>3. /\ p # NoPending
      /\ hub' = TakePending(e)
      /\ disk' = IF result = "written" THEN p.wi ELSE disk
      /\ applied' = Append(applied, r)
      /\ inbox' = inbox \cup Completed(p, result)
  BY DEF ApplyPending
<1> HIDE DEF e
<1>4. /\ hub \in HubState /\ wire \in Seq(Event) /\ applied \in Seq(Applied)
      /\ p \in Proposal /\ p.wi \in WorkItems /\ hub.ws \in Workspaces
  BY <1>1, <1>3 DEF Links, HubState, Proposal
<1>5. result \in {"unchanged", "refused", "written"}
  BY DEF Revalidate
<1>6. Completed(p, result) = IF result = "refused" THEN {} ELSE {m}
  BY DEF Completed
<1>7. RequestOK(m) /\ m.wi = p.wi
  BY <1>4 DEF RequestOK, Msg
<1> HIDE DEF result
<1>8. r \in Applied /\ r.p.wi = p.wi /\ r.result = result
  BY <1>4, <1>5 DEF Applied
<1> HIDE DEF p, m, r
<1>9. hub' \in HubState /\ hub'.pending = NoPending
  BY <1>2, <1>3, <1>4, PendingTaken
<1>10. Links'
  <2>1. disk' \in Contents
    BY <1>1, <1>3, <1>4 DEF Links, Contents
  <2>2. applied' \in Seq(Applied)
    BY <1>3, <1>4, <1>8
  <2>3. \A n \in inbox' : RequestOK(n)
    BY <1>1, <1>3, <1>6, <1>7 DEF Links
  <2> QED
    BY <1>1, <1>2, <1>9, <2>1, <2>2, <2>3 DEF Links
<1>11. Trusted'
  BY <1>1, <1>4, <1>9, TrustKept DEF ForCode
<1>12. Earned'
  <2>1. ASSUME NEW w, WasApplied(applied, w) PROVE WasApplied(applied', w)
    BY <1>3, <1>4, <1>8, <2>1, AppliesGrow
  <2>2. ASSUME result # "refused" PROVE WasApplied(applied', p.wi)
    <3>1. Len(applied') \in 1 .. Len(applied') /\ applied'[Len(applied')] = r
      BY <1>3, <1>4, <1>8
    <3> QED
      BY <1>5, <1>8, <2>2, <3>1 DEF WasApplied
  <2>3. ASSUME NEW n \in inbox', n.kind = "apply.completed" PROVE WasApplied(applied', n.wi)
    <3>1. CASE n \in inbox
      BY <1>1, <2>1, <2>3, <3>1 DEF Earned
    <3>2. CASE n \notin inbox
      BY <1>3, <1>6, <1>7, <2>2, <3>2
    <3> QED
      BY <3>1, <3>2
  <2>4. tx' = tx /\ row' = row
    BY DEF vars
  <2> QED
    BY <1>1, <2>1, <2>3, <2>4 DEF Earned
<1> QED
  BY <1>10, <1>11, <1>12

\* Every other workflow.progress lets the Hub forget, never learn, a proposal.
LEMMA ProgressKeeps ==
  ASSUME SystemInv, wire # <<>>, wire' = Tail(wire), UNCHANGED <<vars, ide>>, OnProgress(Head(wire))
  PROVE  Links' /\ Trusted' /\ Earned'
<1> DEFINE e == Head(wire)
<1>1. Links /\ Trusted /\ Earned /\ IInv
  BY DEF SystemInv
<1>2. e \in Event /\ wire' \in Seq(Event)
  BY HeardIsAuthorised
<1>3. hub \in HubState /\ wire \in Seq(Event) /\ push \in Seq(Frame)
  BY <1>1 DEF Links
<1>4. push' \in Seq(Frame)
  <2> DEFINE f == Msg("progress", e.wi, None, None, None, e.st)
  <2>1. push' = Append(push, f)
    BY DEF OnProgress, PushProgress
  <2> HIDE DEF e
  <2>2. f \in Frame
    BY <1>2 DEF Frame, Note, Event, Msg
  <2> HIDE DEF f
  <2> QED
    BY <1>3, <2>1, <2>2
<1>5. CASE ApplyPending(e)
  BY <1>4, <1>5, ApplyPendingKeeps
<1>6. CASE ~ApplyPending(e)
  <2>1. /\ hub' = CASE e.st = "COMPLETED" -> Cleared(hub)
                    [] e.st = "REJECTED"  -> TakePending(e)
                    [] OTHER              -> [hub EXCEPT !.last = e.wi]
        /\ UNCHANGED <<inbox, disk, applied>>
    BY <1>6 DEF OnProgress
  <2> HIDE DEF e
  <2>2. hub' = Cleared(hub) \/ hub' = TakePending(e) \/ hub' = [hub EXCEPT !.last = e.wi]
    BY <2>1
  <2>3. Cleared(hub) \in HubState /\ Cleared(hub).pending = NoPending
    <3>1. Cleared(hub) = Remembering(hub, NoPending, None)
      BY DEF Cleared, Remembering
    <3>2. NoPending \in Proposal \cup {NoPending} /\ None \in WorkItems \cup {None}
      OBVIOUS
    <3>3. /\ Remembering(hub, NoPending, None) \in HubState
          /\ Remembering(hub, NoPending, None).pending = NoPending
      BY <1>3, <3>2, HubRemembers, Zenon
    <3> QED
      BY <3>1, <3>3
  <2>4. [hub EXCEPT !.last = e.wi] \in HubState /\ [hub EXCEPT !.last = e.wi].pending = hub.pending
    BY <1>2, <1>3, HubRemembers DEF Event
  <2>5. hub' \in HubState /\ (hub'.pending = NoPending \/ hub'.pending = hub.pending)
    BY <1>2, <1>3, <2>2, <2>3, <2>4, PendingTaken
  <2>6. Links'
    BY <1>1, <1>2, <1>4, <2>1, <2>5 DEF Links
  <2>7. ForCode(approval, hub'.pending)
    BY <1>1, <2>5 DEF Trusted, ForCode
  <2>8. Trusted'
    BY <1>1, <1>3, <2>7, TrustKept
  <2>9. Earned'
    BY <1>1, <2>1, EarnedStays
  <2> QED
    BY <2>6, <2>8, <2>9
<1> QED
  BY <1>5, <1>6

\* Hub.Listen
LEMMA ListenKeeps ==
  ASSUME SystemInv, Listen
  PROVE  Links' /\ Trusted' /\ Earned'
<1>1. wire # <<>> /\ wire' = Tail(wire) /\ UNCHANGED <<vars, ide>>
  BY DEF Listen
<1> QED
  BY <1>1, PushDiffReviewKeeps, PushDesignKeeps, ProgressKeeps DEF Listen

-----------------------------------------------------------------------------
(* The system                                                              *)

\* Nothing is under way when the three processes start.
LEMMA SystemInit == InitOnCode => SystemInv
<1> SUFFICES ASSUME InitOnCode PROVE SystemInv
  OBVIOUS
<1>1. IInv
  BY InitInv DEF InitOnCode
<1>2. EventInv
  BY DEF InitOnCode, Init, NoRow, NoTx, EventInv, BeyondGate, ResumesBeyondGate, AllAuthorised
<1>3. Placed
  BY DEF InitOnCode, Init, NoRow, Placed
<1>4. hub \in HubState /\ hub.pending = NoPending
  BY DEF InitOnCode, Registered, HubState
<1>5. Links
  <2>1. ide \in IdeState
    BY DEF InitOnCode, IdeState
  <2> QED
    BY <1>4, <2>1 DEF InitOnCode, Links, Contents
<1>6. Trusted
  BY <1>4 DEF InitOnCode, Trusted, AllAuthorised, ForCode
<1>7. Earned
  BY DEF InitOnCode, Init, NoRow, NoTx, Earned
<1> QED
  BY <1>1, <1>2, <1>3, <1>5, <1>6, <1>7 DEF SystemInv

\* Every step of the three processes keeps the invariant.
LEMMA SystemStep == SystemInv /\ [NextOnCode]_all => SystemInv'
<1> SUFFICES ASSUME SystemInv, [NextOnCode]_all PROVE SystemInv'
  OBVIOUS
<1>1. IInv /\ EventInv /\ Placed
  BY DEF SystemInv
<1>2. [Next]_vars
  BY ServerStep
<1>3. IInv'
  BY <1>1, <1>2, NextInv
<1>4. EventInv'
  BY <1>1, <1>2, EventStep
<1>5. Placed'
  BY <1>1, <1>2, PlacedStep
<1>6. ASSUME NEW t \in Workers, ServerSide(t) PROVE Links' /\ Trusted' /\ Earned'
  BY <1>2, <1>6, ServerKeeps
<1>7. ASSUME Clock PROVE Links' /\ Trusted' /\ Earned'
  <2>1. UNCHANGED <<inbox, wire, push, hub, ide, disk, applied, tx>>
    BY <1>7 DEF Clock, local, ApprovalLate, LeaseLapses
  <2>2. Links'
    BY <2>1 DEF SystemInv, Links
  <2>3. Trusted'
    BY <1>2, <2>1, TrustStays DEF Trusted
  <2>4. Earned'
    <3>1. Earned
      BY DEF SystemInv
    <3>2. ASSUME NEW w \in WorkItems, row'[w].state = "COMPLETED" PROVE WasApplied(applied, w)
      BY <1>1, <1>2, <3>1, <3>2, CompletedBy DEF Earned
    <3> QED
      BY <2>1, <3>1, <3>2 DEF Earned
  <2> QED
    BY <2>2, <2>3, <2>4
<1>8. ASSUME Outside PROVE Links' /\ Trusted' /\ Earned'
  BY <1>8, ListenKeeps, AskKeeps, ShowKeeps, DecideKeeps, ReconnectKeeps, RestartKeeps DEF Outside
<1>9. ASSUME UNCHANGED all PROVE Links' /\ Trusted' /\ Earned'
  BY <1>9 DEF all, vars, local, SystemInv, Links, Trusted, Earned
<1>10. Links' /\ Trusted' /\ Earned'
  BY <1>6, <1>7, <1>8, <1>9 DEF NextOnCode, Outside, ServerSide
<1> QED
  BY <1>3, <1>4, <1>5, <1>10 DEF SystemInv

\* What the server's tables, the links between the processes and the agent's
\* memory say agrees, whatever is edited, resent, lost or restarted.
THEOREM SystemInvariance == SpecOnCode => []SystemInv
BY SystemInit, SystemStep, PTL DEF SpecOnCode

\* completeAfterApply completes a work item only after ApplyChanges reported its
\* change written or already there: no lost, late, duplicated or foreign
\* apply.completed does, for any number of items, edits, restarts and faults.
THEOREM CompletionIsEarned == SpecOnCode => []CompletedWasApplied
<1>1. SystemInv => CompletedWasApplied
  BY DEF SystemInv, Earned, WasApplied, CompletedWasApplied
<1> QED
  BY <1>1, SystemInvariance, PTL

\* Every step of the three processes is a step of WorkflowServer, or leaves it
\* alone: what is proved of the server alone holds with the agent and the
\* extension in front of it.
THEOREM ServerInSystem == SpecOnCode => Spec
<1>1. InitOnCode => Init
  BY DEF InitOnCode
<1>2. SystemInv /\ [NextOnCode]_all => [Next]_vars
  BY ServerStep
<1> QED
  BY <1>1, <1>2, SystemInvariance, PTL DEF SpecOnCode, Spec

-----------------------------------------------------------------------------
(* The approval behind an apply                                            *)

\* What applyIfAuthorized takes for granted and does not compare: the
\* APPLYING_CHANGE it hears is about the work item whose proposal it keeps.
HeardForPending ==
  wire # <<>> /\ Authorizes(Head(wire)) /\ hub.pending # NoPending => Head(wire).wi = hub.pending.wi

\* An apply that wrote the file was approved.
ApprovedIn(table, r) ==
  r.result = "written" => table[r.p.apr].status = "CONSUMED" /\ table[r.p.apr].type = "CODE_CHANGE"

\* Only the Hub applies, and only the proposal it keeps.
LEMMA AppliesOf ==
  ASSUME SystemInv, [NextOnCode]_all
  PROVE  \/ applied' = applied
         \/ /\ wire # <<>> /\ Head(wire).kind = "workflow.progress"
            /\ Authorizes(Head(wire)) /\ hub.pending # NoPending /\ UNCHANGED vars
            /\ applied' = Append(applied, [p |-> hub.pending, result |-> Revalidate(hub.pending)])
<1>1. ASSUME NEW t \in Workers, ServerSide(t) PROVE applied' = applied
  BY <1>1, ServerLinks
<1>2. Clock \/ Show \/ Reconnect \/ AgentRestart => applied' = applied
  BY DEF Clock, local, Show, Reconnect, AgentRestart
<1>3. ASSUME NEW w \in WorkItems, Ask(w) PROVE applied' = applied
  BY <1>3 DEF Ask
<1>4. ASSUME NEW dec, Decide(dec) PROVE applied' = applied
  BY <1>4 DEF Decide
<1>5. ASSUME NEW c, Edit(c) PROVE applied' = applied
  BY <1>5 DEF Edit
<1>6. UNCHANGED all => applied' = applied
  BY DEF all, local
<1>7. ASSUME Listen, applied' # applied
      PROVE  /\ wire # <<>> /\ Head(wire).kind = "workflow.progress"
             /\ Authorizes(Head(wire)) /\ hub.pending # NoPending /\ UNCHANGED vars
             /\ applied' = Append(applied, [p |-> hub.pending, result |-> Revalidate(hub.pending)])
  <2>1. wire # <<>> /\ UNCHANGED vars
    BY <1>7 DEF Listen
  <2>2. Head(wire).kind = "workflow.progress" /\ OnProgress(Head(wire))
    BY <1>7 DEF Listen, PushDesign, PushDiffReview
  <2>3. Authorizes(Head(wire)) /\ ApplyPending(Head(wire))
    BY <1>7, <2>2 DEF OnProgress
  <2> QED
    BY <2>1, <2>2, <2>3 DEF ApplyPending
<1> QED
  BY <1>1, <1>2, <1>3, <1>4, <1>5, <1>6, <1>7 DEF NextOnCode, ServerSide

\* The one code approval of the item that the server says is granted is the one
\* the proposal names.
LEMMA PendingIsGranted ==
  ASSUME SystemInv, HeardForPending, wire # <<>>, Head(wire).kind = "workflow.progress",
         Authorizes(Head(wire)), hub.pending # NoPending
  PROVE  /\ approval[hub.pending.apr].status = "CONSUMED"
         /\ approval[hub.pending.apr].type = "CODE_CHANGE"
<1> DEFINE e == Head(wire)
           p == hub.pending
<1>1. CodeGranted(approval, e.wi)
  BY HeardIsAuthorised DEF Authorised, Authorizes
<1>2. e.wi = p.wi
  BY DEF HeardForPending
<1>3. PICK a \in Approvals : /\ approval[a].wi = p.wi
                             /\ approval[a].type = "CODE_CHANGE"
                             /\ approval[a].status = "CONSUMED"
  BY <1>1, <1>2 DEF CodeGranted
<1>4. p.apr \in Approvals
  BY DEF SystemInv, Links, HubState, Proposal
<1>5. approval[p.apr].wi = p.wi /\ approval[p.apr].type = "CODE_CHANGE"
  BY DEF SystemInv, Trusted, ForCode
<1>6. a = p.apr
  BY <1>3, <1>4, <1>5 DEF SystemInv, IInv, OpenOnlyWhileWaiting
<1> QED
  BY <1>3, <1>6

\* An approved apply stays approved, and the next one is approved too.
LEMMA ApprovedStep ==
  SystemInv /\ HeardForPending /\ AppliedWasApproved /\ [NextOnCode]_all => AppliedWasApproved'
<1> SUFFICES ASSUME SystemInv, HeardForPending, AppliedWasApproved, [NextOnCode]_all
             PROVE  AppliedWasApproved'
  OBVIOUS
<1>1. IInv /\ applied \in Seq(Applied) /\ [Next]_vars
  BY ServerStep DEF SystemInv, Links
<1>2. ASSUME NEW i \in 1 .. Len(applied) PROVE ApprovedIn(approval', applied[i])
  <2>1. applied[i] \in Applied
    BY <1>1
  <2>2. applied[i].p.apr \in Approvals
    BY <2>1 DEF Applied, Proposal
  <2>3. ApprovedIn(approval, applied[i])
    BY DEF AppliedWasApproved, ApprovedIn
  <2> QED
    BY <1>1, <2>2, <2>3, FinalStep DEF ApprovedIn
<1>3. \A i \in 1 .. Len(applied') : ApprovedIn(approval', applied'[i])
  <2>1. CASE applied' = applied
    BY <1>2, <2>1
  <2>2. CASE applied' # applied
    <3> DEFINE r == [p |-> hub.pending, result |-> Revalidate(hub.pending)]
    <3>1. /\ wire # <<>> /\ Head(wire).kind = "workflow.progress"
          /\ Authorizes(Head(wire)) /\ hub.pending # NoPending /\ UNCHANGED vars
          /\ applied' = Append(applied, r)
      BY <2>2, AppliesOf
    <3>2. ApprovedIn(approval', r)
      <4>1. approval' = approval
        BY <3>1 DEF vars
      <4>2. /\ approval[hub.pending.apr].status = "CONSUMED"
            /\ approval[hub.pending.apr].type = "CODE_CHANGE"
        BY <3>1, PendingIsGranted
      <4> QED
        BY <4>1, <4>2 DEF ApprovedIn
    <3> HIDE DEF r
    <3>3. ASSUME NEW i \in 1 .. Len(applied') PROVE ApprovedIn(approval', applied'[i])
      <4>1. (i \in 1 .. Len(applied) /\ applied'[i] = applied[i]) \/ applied'[i] = r
        BY <1>1, <3>1
      <4> QED
        BY <1>2, <3>2, <4>1
    <3> QED
      BY <3>3
  <2> QED
    BY <2>1, <2>2
<1> QED
  BY <1>3 DEF AppliedWasApproved, ApprovedIn

\* applyIfAuthorized writes the file only for a consumed code approval, whatever
\* is restored, resent, lost or restarted, provided that each APPLYING_CHANGE it
\* hears is about the work item whose proposal it keeps.  The code does not
\* compare the two: with two work items the proviso fails, and so does the
\* property.
THEOREM ApprovedBeforeApply == SpecOnCode /\ []HeardForPending => []AppliedWasApproved
<1>1. InitOnCode => AppliedWasApproved
  BY DEF InitOnCode, AppliedWasApproved
<1> QED
  BY <1>1, SystemInvariance, ApprovedStep, PTL DEF SpecOnCode

\* Where one work item is open at a time the proviso holds of itself: the agent
\* never writes a change that was not approved.
THEOREM OneItemApprovedBeforeApply ==
  ASSUME \A v, w \in WorkItems : v = w
  PROVE  SpecOnCode => []AppliedWasApproved
<1>1. SystemInv => HeardForPending
  <2> SUFFICES ASSUME SystemInv, wire # <<>>, hub.pending # NoPending
               PROVE  Head(wire).wi = hub.pending.wi
    BY DEF HeardForPending
  <2>1. Head(wire).wi \in WorkItems
    BY HeardIsAuthorised DEF Event
  <2>2. hub.pending.wi \in WorkItems
    BY DEF SystemInv, Links, HubState, Proposal
  <2> QED
    BY <2>1, <2>2
<1> QED
  BY <1>1, SystemInvariance, ApprovedBeforeApply, PTL

=============================================================================
