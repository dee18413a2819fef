------------------------------- MODULE OnCode -------------------------------
(***************************************************************************)
(* The three processes together: the server (WorkflowServer), the Local    *)
(* Agent's Hub, which turns proposals into actual diffs and writes the     *)
(* disk, and the VS Code extension, which shows reviews and sends the      *)
(* user's decisions.  One workspace, one file of it.                       *)
(*                                                                         *)
(* The stream to the agent is FIFO (GrpcToolSession.send holds a lock);    *)
(* the events of the agent are picked up by the server's thread pool in    *)
(* any order, so inbox is a set.  Hub.Listen is one goroutine: each server *)
(* event is handled whole before the next.                                 *)
(*                                                                         *)
(* budget bounds the user's edits and reconnects, the restarts of the agent *)
(* and the faults: a handler that fails, an event that meets a closed      *)
(* stream.  A restarted agent registers the same directory under a new id, *)
(* so Workspaces bounds its restarts too.                                  *)
(***************************************************************************)
EXTENDS WorkflowServer

CONSTANTS
  Drafts,       \* what the user may write into the file
  MaxEdits, MaxRestores, MaxRestarts, MaxFaults

\* What work item w proposes to write is named w.
Contents == WorkItems \cup Drafts

\* The identity of a diff is its target and its base; of a design, its item.
Diff(w, c)  == [wi |-> w, base |-> c]
DesignOf(w) == [wi |-> w, base |-> None]

ASSUME DiffsAreHashes ==
  /\ [wi : WorkItems, base : Contents \cup {None}] \subseteq Hashes
  /\ None \notin Drafts
  /\ {MaxEdits, MaxRestores, MaxRestarts, MaxFaults} \subseteq Nat

VARIABLES
  inbox,    \* agent events the server has not picked up
  wire,     \* server events the Hub has not handled
  push,     \* Hub frames the extension has not handled
  hub,      \* pending apply, lastWorkItemID, workspaceID, ids registered so far
  ide,      \* approvalQueue, activeApprovalKey, remembered work item, requests made
  disk,     \* content of the file
  applied,  \* what the Hub did on APPLYING_CHANGE, in order
  budget

local == <<wire, push, hub, ide, disk, applied, budget>>
all   == <<vars, inbox, local>>

NoPending == [wi |-> None, apr |-> None, hash |-> None]

\* A Hub that remembers nothing but the workspace it was started with.
Cleared(h) == [h EXCEPT !.pending = NoPending, !.last = None]

\* Registry.Register issues a new workspace id.
Registered(ws, issued) ==
  [pending |-> NoPending, last |-> None, ws |-> ws, issued |-> issued \cup {ws}]

Msg(kind, w, ws, a, h, dec) ==
  [kind |-> kind, wi |-> w, ws |-> ws, apr |-> a, hash |-> h, dec |-> dec]

InitOnCode ==
  /\ Init
  /\ inbox = {}
  /\ wire = <<>>
  /\ push = <<>>
  /\ \E ws \in Workspaces : hub = Registered(ws, {})
  /\ ide = [modals |-> <<>>, key |-> None, item |-> None, asked |-> {}]
  /\ disk \in Drafts
  /\ applied = <<>>
  /\ budget = [edits |-> MaxEdits, restores |-> MaxRestores,
               restarts |-> MaxRestarts, faults |-> MaxFaults]

Spend(what) == budget[what] > 0 /\ budget' = [budget EXCEPT ![what] = @ - 1]

-----------------------------------------------------------------------------
(* The server, fed by the agent's events.                                  *)

\* The request is answered with an error and changes nothing.
Refused(m) ==
  \/ /\ m.kind = "approval.decide"
     /\ ~DecideAccepts(m.wi, m.ws, m.apr, m.hash)
     /\ ~(approval[m.apr].status = "REQUESTED" /\ approval[m.apr].late)
  \/ m.kind = "approval.bind" /\ ~BindAccepts(m.wi, m.ws, m.apr)
  \/ /\ m.kind = "apply.completed"
     /\ \/ row[m.wi].state \notin {"APPLYING_CHANGE", "COMPLETED"}
        \/ workspace[m.wi] # m.ws

\* AgentSessionService.handleEvent
HandleEvent(t, m) ==
  \/ m.kind = "chat.submit" /\ \E a \in Approvals : Submit(t, m.wi, m.ws, DesignOf(m.wi), a)
  \/ m.kind = "approval.decide" /\ DecideCheck(t, m.wi, m.ws, m.apr, m.hash, m.dec)
  \/ m.kind = "approval.decide" /\ DecideExpired(t, m.apr)
  \/ m.kind = "approval.bind" /\ BindCheck(t, m.wi, m.ws, m.apr, m.hash)
  \/ m.kind = "apply.completed" /\ CompleteLoad(t, m.wi, m.ws)
  \/ m.kind = "apply.completed" /\ CompleteAgain(t, m.wi, m.ws)
  \/ m.kind = "session.restore" /\ ResumeLoad(t, m.wi)
  \/ Refused(m) /\ Idle(t) /\ UNCHANGED vars

PickUp(t) ==
  \E m \in inbox : /\ HandleEvent(t, m)
                   /\ inbox' = inbox \ {m}
                   /\ UNCHANGED local

\* A transaction that can only fail: a check after its first read does not
\* hold any more, or a conditional UPDATE will match no row.
Doomed(t) ==
  \/ /\ tx[t].op = "decide"
     /\ ~(Usable(tx[t].apr) /\ row[DecidedItem(t)].state = WaitingFor(approval[tx[t].apr].type))
  \/ tx[t].op = "consume" /\ ~ConsumeGuard(t)
  \/ tx[t].op = "complete" /\ row[tx[t].wi].rev # tx[t].rv
  \/ /\ tx[t].op = "resume"
     /\ tx[t].st \notin Waiting \cup Terminal
     /\ row[tx[t].wi].lease = "held"

Proceed(t) ==
  /\ \/ DecideLoad(t)
     \/ DecideCommit(t)
     \/ \E b \in Approvals : DecideImplement(t, b)
     \/ CompleteCommit(t)
     \/ ResumeCommit(t)
     \/ BindCommit(t)
     \/ Doomed(t) /\ Rollback(t)
  /\ UNCHANGED <<inbox, local>>

Send(t) ==
  /\ Emit(t)
  /\ wire' = Append(wire, Head(outcome[t]))
  /\ UNCHANGED <<inbox, push, hub, ide, disk, applied, budget>>

Clock ==
  /\ (\E a \in Approvals : ApprovalLate(a)) \/ (\E w \in WorkItems : LeaseLapses(w))
  /\ UNCHANGED <<inbox, local>>

-----------------------------------------------------------------------------
(* The Hub.                                                                *)

\* pushDiffReview: the diff is taken against the file as it is now, bound at
\* the server under the Hub's own workspace id, and replaces whatever was
\* pending.
PushDiffReview(e) ==
  LET h == Diff(e.wi, disk)
  IN /\ hub' = [hub EXCEPT !.pending = [wi |-> e.wi, apr |-> e.apr, hash |-> h], !.last = e.wi]
     /\ inbox' = inbox \cup {Msg("approval.bind", e.wi, hub.ws, e.apr, h, None)}
     /\ push' = Append(push, Msg("review", e.wi, hub.ws, e.apr, h, None))
     /\ UNCHANGED <<disk, applied>>

\* design.review carries the workspace id the server remembers, which never
\* changes, and is passed on with it.
PushDesign(e) ==
  /\ hub' = [hub EXCEPT !.last = e.wi]
  /\ push' = Append(push, Msg("review", e.wi, workspace[e.wi], e.apr, DesignOf(e.wi), None))
  /\ UNCHANGED <<inbox, disk, applied>>

PushProgress(e) == push' = Append(push, Msg("progress", e.wi, None, None, None, e.st))

\* takePending
TakePending(e) == [hub EXCEPT !.pending = NoPending, !.last = e.wi]

\* What ApplyChanges makes of the pending proposal: nothing to write, refused
\* because the file is no longer the one the diff was taken against, or written.
Revalidate(p) ==
  IF p.hash.base = p.wi THEN "unchanged"
  ELSE IF p.hash.base # disk THEN "refused"
  ELSE "written"

\* MUTANT: apply.completed is sent whatever ApplyChanges returned.
MutCompletedAlways(p, result) == {Msg("apply.completed", p.wi, hub.ws, None, None, None)}

\* MUTANT: the success path returns without apply.completed.
MutCompletedUnchangedOnly(p, result) ==
  IF result = "unchanged" THEN {Msg("apply.completed", p.wi, hub.ws, None, None, None)} ELSE {}

\* notifyApplyCompleted
Completed(p, result) ==
  IF result = "refused" THEN {} ELSE {Msg("apply.completed", p.wi, hub.ws, None, None, None)}

\* applyIfAuthorized on APPLYING_CHANGE.  The pending proposal is whatever
\* change.proposed came last; the event's work item is not compared with it.
ApplyPending(e) ==
  LET p == hub.pending
      result == Revalidate(p)
  IN /\ p # NoPending
     /\ hub' = TakePending(e)
     /\ disk' = IF result = "written" THEN p.wi ELSE disk
     /\ applied' = Append(applied, [p |-> p, result |-> result])
     /\ inbox' = inbox \cup Completed(p, result)

\* MUTANT: a workflow that waits for the code approval may apply.
MutAuthorizes(e) == e.st \in {"APPLYING_CHANGE", "WAITING_CODE_APPROVAL"}

\* The stage on which applyIfAuthorized goes on to apply.
Authorizes(e) == e.st = "APPLYING_CHANGE"

\* workflow.progress: the frame is pushed, then applyIfAuthorized looks at it.
OnProgress(e) ==
  /\ PushProgress(e)
  /\ \/ Authorizes(e) /\ ApplyPending(e)
     \/ /\ Authorizes(e) => hub.pending = NoPending
        /\ hub' = CASE e.st = "COMPLETED" -> Cleared(hub)
                    [] e.st = "REJECTED"  -> TakePending(e)
                    [] OTHER              -> [hub EXCEPT !.last = e.wi]
        /\ UNCHANGED <<inbox, disk, applied>>

\* Hub.Listen, forwardServerEvent
Listen ==
  /\ wire # <<>>
  /\ wire' = Tail(wire)
  /\ LET e == Head(wire)
     IN \/ e.kind = "workflow.progress" /\ OnProgress(e)
        \/ e.kind = "design.review" /\ PushDesign(e)
        \/ e.kind = "change.proposed" /\ PushDiffReview(e)
  /\ UNCHANGED <<vars, ide, budget>>

-----------------------------------------------------------------------------
(* The extension and its user.                                             *)

\* oncode.chat.send
Ask(w) ==
  /\ w \notin ide.asked
  /\ ide' = [ide EXCEPT !.asked = @ \cup {w}, !.key = None]
  /\ inbox' = inbox \cup {Msg("chat.submit", w, hub.ws, None, None, None)}
  /\ UNCHANGED <<vars, wire, push, hub, disk, applied, budget>>

\* onMessage: a review is queued unless it is for the approval queued last.
Show ==
  /\ push # <<>>
  /\ push' = Tail(push)
  /\ LET m == Head(push)
     IN \/ /\ m.kind = "progress"
           /\ ide' = [ide EXCEPT !.item = IF m.dec \in Terminal THEN None ELSE m.wi]
        \/ /\ m.kind = "review"
           /\ ide' = IF m.apr = ide.key THEN [ide EXCEPT !.item = m.wi]
                     ELSE [ide EXCEPT !.item = m.wi, !.key = m.apr, !.modals = Append(@, m)]
  /\ UNCHANGED <<vars, inbox, wire, hub, disk, applied, budget>>

\* The user closes the modal on top: sendDecision, forwardDecide.
Decide(dec) ==
  /\ ide.modals # <<>>
  /\ ide' = [ide EXCEPT !.modals = Tail(@), !.key = None]
  /\ LET r == Head(ide.modals)
     IN inbox' = IF dec = None THEN inbox
                 ELSE inbox \cup {Msg("approval.decide", r.wi, r.ws, r.apr, r.hash, dec)}
  /\ UNCHANGED <<vars, wire, push, hub, disk, applied, budget>>

\* The work item a reconnecting extension asks for: its own, or the Hub's last.
RestoreOf(last) ==
  LET w == IF ide.item # None THEN ide.item ELSE last
  IN IF w = None THEN {} ELSE {Msg("session.restore", w, None, None, None, None)}

\* The IPC socket breaks and comes back: ide.register, session.restore.
Reconnect ==
  /\ Spend("restores")
  /\ push' = <<>>
  /\ inbox' = inbox \cup RestoreOf(hub.last)
  /\ UNCHANGED <<vars, wire, hub, ide, disk, applied>>

Edit(c) ==
  /\ Spend("edits")
  /\ disk' = c
  /\ UNCHANGED <<vars, inbox, wire, push, hub, ide, applied>>

-----------------------------------------------------------------------------
(* Faults                                                                  *)

HandlerFails(t) ==
  /\ Spend("faults")
  /\ Rollback(t)
  /\ UNCHANGED <<inbox, wire, push, hub, ide, disk, applied>>

SendLost(t) ==
  /\ Spend("faults")
  /\ Emit(t)
  /\ UNCHANGED <<inbox, wire, push, hub, ide, disk, applied>>

\* The Hub's memory and what is under way on its sockets are gone, and the
\* workspace is registered again.
AgentRestart ==
  /\ Spend("restarts")
  /\ \E ws \in Workspaces \ hub.issued : hub' = Registered(ws, hub.issued)
  /\ wire' = <<>>
  /\ push' = <<>>
  /\ \/ inbox' = inbox \cup RestoreOf(None)
     \/ inbox' = RestoreOf(None)
  /\ UNCHANGED <<vars, ide, disk, applied>>

-----------------------------------------------------------------------------
NextOnCode ==
  \/ \E t \in Workers : PickUp(t) \/ Proceed(t) \/ Send(t) \/ HandlerFails(t) \/ SendLost(t)
  \/ Clock
  \/ Listen
  \/ \E w \in WorkItems : Ask(w)
  \/ Show
  \/ \E dec \in {"APPROVE", "REJECT", None} : Decide(dec)
  \/ Reconnect
  \/ \E c \in Drafts : Edit(c)
  \/ AgentRestart

SpecOnCode == InitOnCode /\ [][NextOnCode]_all

\* The pool runs what it is given, the stream delivers, and the Hub's goroutine
\* keeps reading.  Nothing is assumed of the user, the clock or the faults.
FairOnCode ==
  /\ SpecOnCode
  /\ WF_all(\E t \in Workers : PickUp(t))
  /\ \A t \in Workers : WF_all(Proceed(t)) /\ WF_all(Send(t))
  /\ WF_all(Listen)

-----------------------------------------------------------------------------
(* Properties                                                              *)

\* The Hub writes the file only for a work item whose code approval was
\* consumed, whatever is restored, resent, lost or restarted.
AppliedWasApproved ==
  \A i \in 1 .. Len(applied) :
    LET a == applied[i].p.apr
    IN applied[i].result = "written" =>
         approval[a].status = "CONSUMED" /\ approval[a].type = "CODE_CHANGE"

\* ... and what it writes is the diff the user approved.
AppliedDiffWasApproved ==
  \A i \in 1 .. Len(applied) :
    applied[i].result = "written" => approval[applied[i].p.apr].on = applied[i].p.hash

\* A work item is COMPLETED only if its change is on the disk or was there
\* before it was approved: no lost, late or repeated event completes it.
CompletedWasApplied ==
  \A w \in WorkItems : row[w].state = "COMPLETED" =>
    \E i \in 1 .. Len(applied) :
      applied[i].p.wi = w /\ applied[i].result \in {"written", "unchanged"}

\* Without faults an approved change is applied and completed, or refused
\* because the file was edited meanwhile.
ApprovedIsApplied ==
  \A w \in WorkItems :
    row[w].state = "APPLYING_CHANGE" ~>
      \/ row[w].state = "COMPLETED"
      \/ \E i \in 1 .. Len(applied) : applied[i].p.wi = w /\ applied[i].result = "refused"

\* PHASE_03 8: after a reconnect the pending approval is restored.  A review on
\* the screen becomes one the server accepts a decision on, unless the user
\* answers it first or its approval is decided or expires.
ShownIsDecidable ==
  \A a \in Approvals :
    ide.modals # <<>> /\ Head(ide.modals).apr = a ~>
      \/ ide.modals = <<>> \/ Head(ide.modals).apr # a
      \/ ~Usable(a)
      \/ LET r == Head(ide.modals) IN DecideAccepts(r.wi, r.ws, a, r.hash)

=============================================================================
