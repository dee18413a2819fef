--------------------------- MODULE WorkspaceApply ---------------------------
(***************************************************************************)
(* The Local Agent's workspace: Registry and its lock, ProposalStore,      *)
(* Propose and ApplyChanges, over the files on disk.                       *)
(*                                                                         *)
(* An actor is a goroutine that proposes or applies change sets: the Hub's *)
(* event loop or the dispatch of a tool request.  Only ApplyChanges holds  *)
(* the Registry's lock while it works on the files; a proposer reads them  *)
(* without it.  A diff is the old and new content of each touched path,    *)
(* and stands for its own hash.                                            *)
(***************************************************************************)
EXTENDS Integers, Sequences, FiniteSets, FiniteSetsExt

CONSTANTS
  Actors, ToolCalls,      \* goroutines, and those that serve workspace.propose_changes
  Ids, Paths, Contents,   \* paths are numbers, in the order ApplyChanges sorts them
  None, Gone,             \* nothing; the content of a file that does not exist
  ChangeSets,             \* the change sets that proposers may be given
  MaxPuts, MaxFaults, MaxEdits, MaxCrashes,
  EditsDuringApply        \* whether a user edits while a change set is applied

\* FileChange.  None is a content left out; a CREATE or MODIFY that leaves it out
\* writes the empty file, which is a content.
Change == [op : {"CREATE", "MODIFY", "DELETE", "RENAME"}, path : Paths,
           target : Paths \cup {None}, content : Contents \cup {None}]

\* What ProposedChangeSet.Validate lets pass.
ValidChangeSet(cs) ==
  /\ cs \in [rev : Nat \cup {None}, changes : Seq(Change)]
  /\ cs.changes # <<>>
  /\ \A n \in DOMAIN cs.changes :
       /\ cs.changes[n].op = "RENAME" => cs.changes[n].target # None
       /\ cs.changes[n].op \in {"CREATE", "MODIFY"} => cs.changes[n].content # None

ASSUME WorkspaceAssumption ==
  /\ ToolCalls \subseteq Actors /\ None \notin Actors /\ IsFiniteSet(Actors)
  /\ None \notin ChangeSets /\ \A cs \in ChangeSets : ValidChangeSet(cs)
  /\ Paths \subseteq Nat /\ IsFiniteSet(Paths)
  /\ Gone \notin Contents /\ None \notin Contents
  /\ {MaxPuts, MaxFaults, MaxEdits, MaxCrashes} \subseteq Nat
  /\ EditsDuringApply \in BOOLEAN

VARIABLES
  disk,     \* the files
  rev,      \* Workspace.CurrentRevision
  lock,     \* holder of Registry.mu
  store,    \* ProposalStore.byID
  shown,    \* the proposals returned so far: what an approval can name
  actor,    \* local state of each goroutine
  puts, commits, unfinished,  \* per change set id: stored, written, written and failed
  faults, edits, crashes,     \* environment steps taken
  late      \* paths edited since the lock's holder compared the files

vars == <<disk, rev, lock, store, shown, actor, puts, commits, unfinished, faults, edits, crashes, late>>
environment == <<faults, edits, crashes, late>>

File == Contents \cup {Gone}

NoProposal == [cs |-> None, base |-> <<>>, diff |-> <<>>, applied |-> FALSE, applying |-> FALSE]

Idle == [pc |-> "idle", id |-> None, cs |-> None, rev |-> 0,
         base |-> <<>>, seen |-> <<>>, diff |-> <<>>, hash |-> <<>>,
         todo |-> {}, backup |-> <<>>]

Init ==
  /\ disk \in [Paths -> File]
  /\ rev = 0
  /\ lock = None
  /\ store = [id \in Ids |-> NoProposal]
  /\ shown = {}
  /\ actor = [a \in Actors |-> Idle]
  /\ puts = [id \in Ids |-> 0] /\ commits = [id \in Ids |-> 0]
  /\ unfinished = [id \in Ids |-> 0]
  /\ faults = 0 /\ edits = 0 /\ crashes = 0 /\ late = {}

At(a, pc) == actor[a].pc = pc

Step(a, changed) == actor' = [actor EXCEPT ![a] = changed]

-----------------------------------------------------------------------------
(* Propose                                                                 *)

NeedsBase(change) == change.op \in {"MODIFY", "DELETE", "RENAME"}

Targets(changes) ==
  {changes[i].target : i \in {n \in DOMAIN changes : changes[n].op = "RENAME"}}

NoConflicts(changes) ==
  /\ \A i, j \in DOMAIN changes : i # j => changes[i].path # changes[j].path
  /\ \A i \in DOMAIN changes : changes[i].op = "RENAME" =>
       /\ \A j \in 1..i : changes[j].path # changes[i].target
       /\ \A j \in DOMAIN changes \ {i} :
            changes[j].op = "RENAME" => changes[j].target # changes[i].target
  /\ \A i \in DOMAIN changes :
       changes[i].op = "CREATE" => changes[i].path \notin Targets(changes)

\* One case of Propose's loop: whether the change is possible on files d ...
Possible(change, base, d) ==
  /\ change.op = "CREATE" => d[change.path] = Gone
  /\ change.op = "RENAME" => d[change.target] = Gone
  /\ NeedsBase(change) => d[change.path] # Gone /\ d[change.path] = base

\* The paths a change is about.
Touched(change) ==
  {change.path} \cup IF change.op = "RENAME" THEN {change.target} ELSE {}

\* Whether the change removes the file p.
Removes(change, p) == p = change.path /\ change.op \in {"DELETE", "RENAME"}

\* MUTANT: a RENAME without content writes an empty plan.
MutPart(change, d) ==
  [p \in Touched(change) |->
     [old |-> d[p], new |-> IF Removes(change, p) THEN Gone ELSE change.content]]

\* ... and its part of the diff.  A RENAME without content keeps the old one.
Part(change, d) ==
  LET content == IF change.content = None THEN d[change.path] ELSE change.content
  IN [p \in Touched(change) |->
        [old |-> d[p], new |-> IF Removes(change, p) THEN Gone ELSE content]]

\* The diff of a change set whose n-th change was looked up on files ds[n].
DiffOf(changes, ds) ==
  LET parts == {Part(changes[n], ds[n]) : n \in DOMAIN changes}
  IN [p \in UNION {DOMAIN part : part \in parts} |->
        (CHOOSE part \in parts : p \in DOMAIN part)[p]]

\* Propose succeeds at revision r.
Proposable(cs, base, ds, r) ==
  /\ cs.rev \in {None, r}
  /\ NoConflicts(cs.changes)
  /\ \A n \in DOMAIN cs.changes : Possible(cs.changes[n], base[n], ds[n])

\* A proposer starts once Registry.Get has had the read lock.  The Hub gives
\* no base_workspace_revision.
BeginPropose(a, id, cs) ==
  /\ At(a, "idle") /\ lock = None
  /\ a \notin ToolCalls => cs.rev = None
  /\ puts[id] < MaxPuts
  /\ Step(a, [Idle EXCEPT !.pc = "fill", !.id = id, !.cs = cs])
  /\ UNCHANGED <<disk, rev, lock, store, shown, puts, commits, unfinished, environment>>

\* fillBaseHashes, changeSetFromProposed: the current hash of the next file.
Fill(a) ==
  /\ At(a, "fill")
  /\ LET n == Len(actor[a].base) + 1
         changes == actor[a].cs.changes
     IN IF n > Len(changes)
        THEN Step(a, [actor[a] EXCEPT !.pc = IF a \in ToolCalls THEN "get" ELSE "plan"])
        ELSE LET found == disk[changes[n].path]
             IN IF NeedsBase(changes[n]) /\ found = Gone
                THEN Step(a, Idle)
                ELSE Step(a, [actor[a] EXCEPT !.base = Append(@,
                                IF NeedsBase(changes[n]) THEN found ELSE None)])
  /\ UNCHANGED <<disk, rev, lock, store, shown, puts, commits, unfinished, environment>>

\* The propose_changes tool looks the workspace up a second time ...
GetAgain(a) ==
  /\ At(a, "get") /\ lock = None
  /\ Step(a, [actor[a] EXCEPT !.pc = "copy"])
  /\ UNCHANGED <<disk, rev, lock, store, shown, puts, commits, unfinished, environment>>

\* ... and Get copies the record after it has given the read lock back.
CopyRecord(a) ==
  /\ At(a, "copy")
  /\ Step(a, [actor[a] EXCEPT !.pc = "plan", !.rev = rev])
  /\ UNCHANGED <<disk, rev, lock, store, shown, puts, commits, unfinished, environment>>

\* Propose reads the files of the next change.
Plan(a) ==
  /\ At(a, "plan")
  /\ LET n == Len(actor[a].seen) + 1
         changes == actor[a].cs.changes
     IN /\ n <= Len(changes)
        /\ Step(a, [actor[a] EXCEPT !.seen = Append(@, [p \in Touched(changes[n]) |-> disk[p]])])
  /\ UNCHANGED <<disk, rev, lock, store, shown, puts, commits, unfinished, environment>>

\* Put replaces what was stored under the id, its flags included.
Stored(a) ==
  [cs |-> actor[a].cs, base |-> actor[a].base,
   diff |-> DiffOf(actor[a].cs.changes, actor[a].seen),
   applied |-> FALSE, applying |-> FALSE]

Put(a) ==
  /\ At(a, "plan") /\ Len(actor[a].seen) = Len(actor[a].cs.changes)
  /\ LET me == actor[a]
         ok == Proposable(me.cs, me.base, me.seen, me.rev)
         new == Stored(a)
     IN /\ store' = IF ok THEN [store EXCEPT ![me.id] = new] ELSE store
        /\ shown' = IF ok THEN shown \cup {[id |-> me.id, diff |-> new.diff]} ELSE shown
        /\ puts' = IF ok THEN [puts EXCEPT ![me.id] = @ + 1] ELSE puts
  /\ Step(a, Idle)
  /\ UNCHANGED <<disk, rev, lock, commits, unfinished, environment>>

-----------------------------------------------------------------------------
(* ApplyChanges                                                            *)

\* MUTANT: an apply in progress is not noticed.
MutClaimable(p) ==
  p.cs # None /\ ~p.applied

Claimable(p) ==
  p.cs # None /\ ~p.applied /\ ~p.applying

\* ClaimForApply: the actor works on a copy.
Claim(a, request) ==
  /\ At(a, "idle")
  /\ Claimable(store[request.id])
  /\ LET p == store[request.id]
     IN Step(a, [Idle EXCEPT !.pc = "claimed", !.id = request.id, !.cs = p.cs,
                             !.base = p.base, !.diff = p.diff, !.hash = request.diff])
  /\ store' = [store EXCEPT ![request.id].applying = TRUE]
  /\ UNCHANGED <<disk, rev, lock, shown, puts, commits, unfinished, environment>>

\* MUTANT: a hash mismatch returns before the deferred call is set up.
MutAborted(a) ==
  IF store[actor[a].id].applied \/ actor[a].hash # actor[a].diff THEN store
  ELSE [store EXCEPT ![actor[a].id].applying = FALSE]

Aborted(a) ==
  IF store[actor[a].id].applied THEN store
  ELSE [store EXCEPT ![actor[a].id].applying = FALSE]

\* AbortApply, the deferred call of every return without success.
AbortApply(a) ==
  /\ At(a, "failed")
  /\ store' = Aborted(a)
  /\ Step(a, Idle)
  /\ UNCHANGED <<disk, rev, lock, shown, puts, commits, unfinished, environment>>

\* approved_diff_hash is another proposal's; otherwise Mutate takes the lock.
Lock(a) ==
  /\ At(a, "claimed")
  /\ IF actor[a].hash # actor[a].diff
     THEN /\ Step(a, [actor[a] EXCEPT !.pc = "failed"])
          /\ UNCHANGED lock
     ELSE /\ lock = None
          /\ lock' = a
          /\ Step(a, [actor[a] EXCEPT !.pc = "locked"])
  /\ UNCHANGED <<disk, rev, store, shown, puts, commits, unfinished, environment>>

\* MUTANT: only the revision is compared.
MutStillApplies(a) ==
  actor[a].cs.rev \in {None, rev}

\* Propose again on the files as they are now gives the same diff.
StillApplies(a) ==
  LET me == actor[a]
      now == [n \in DOMAIN me.cs.changes |-> disk]
  IN Proposable(me.cs, me.base, now, rev) /\ DiffOf(me.cs.changes, now) = me.diff

Revalidate(a) ==
  /\ At(a, "locked")
  /\ IF StillApplies(a)
     THEN /\ Step(a, [actor[a] EXCEPT !.pc = "next", !.todo = DOMAIN actor[a].diff])
          /\ UNCHANGED lock
     ELSE /\ Step(a, [actor[a] EXCEPT !.pc = "failed"])
          /\ lock' = None
  /\ late' = {}
  /\ UNCHANGED <<disk, rev, store, shown, puts, commits, unfinished, faults, edits, crashes>>

Current(a) == Min(actor[a].todo)

With(backup, p, content) ==
  [q \in DOMAIN backup \cup {p} |-> IF q = p THEN content ELSE backup[q]]

\* The next path in order: back it up, stage the new content beside it.
Backup(a) ==
  /\ At(a, "next") /\ actor[a].todo # {}
  /\ Step(a, [actor[a] EXCEPT !.pc = "remove", !.backup = With(@, Current(a), disk[Current(a)])])
  /\ UNCHANGED <<disk, rev, lock, store, shown, puts, commits, unfinished, environment>>

\* A deletion ends here; replaceFile removes the destination first.
Remove(a) ==
  /\ At(a, "remove")
  /\ disk' = [disk EXCEPT ![Current(a)] = Gone]
  /\ IF actor[a].diff[Current(a)].new = Gone
     THEN Step(a, [actor[a] EXCEPT !.pc = "next", !.todo = @ \ {Current(a)}])
     ELSE Step(a, [actor[a] EXCEPT !.pc = "rename"])
  /\ UNCHANGED <<rev, lock, store, shown, puts, commits, unfinished, environment>>

Rename(a) ==
  /\ At(a, "rename")
  /\ disk' = [disk EXCEPT ![Current(a)] = actor[a].diff[Current(a)].new]
  /\ Step(a, [actor[a] EXCEPT !.pc = "next", !.todo = @ \ {Current(a)}])
  /\ UNCHANGED <<rev, lock, store, shown, puts, commits, unfinished, environment>>

\* Any of the file operations above returns an error.
Fault(a) ==
  /\ actor[a].pc \in {"next", "remove", "rename"} /\ actor[a].todo # {}
  /\ faults < MaxFaults
  /\ faults' = faults + 1
  /\ Step(a, [actor[a] EXCEPT !.pc = "rollback"])
  /\ UNCHANGED <<disk, rev, lock, store, shown, puts, commits, unfinished, edits, crashes, late>>

Newest(backup) == Max(DOMAIN backup)

Without(backup, p) == [q \in DOMAIN backup \ {p} |-> backup[q]]

\* MUTANT: a file that did not exist before is left in place.
MutRestored(a) ==
  LET p == Newest(actor[a].backup)
  IN IF actor[a].backup[p] = Gone THEN disk ELSE [disk EXCEPT ![p] = actor[a].backup[p]]

\* rollback writes the newest backup back, or removes what did not exist.
Restored(a) ==
  LET p == Newest(actor[a].backup)
  IN [disk EXCEPT ![p] = actor[a].backup[p]]

\* The errors of these calls are ignored: the file stays as it is.
Rollback(a) ==
  /\ At(a, "rollback")
  /\ IF actor[a].backup = <<>>
     THEN /\ Step(a, [actor[a] EXCEPT !.pc = "failed", !.todo = {}])
          /\ lock' = None
          /\ UNCHANGED <<disk, faults>>
     ELSE /\ Step(a, [actor[a] EXCEPT !.backup = Without(@, Newest(@))])
          /\ \/ disk' = Restored(a) /\ UNCHANGED faults
             \/ faults < MaxFaults /\ faults' = faults + 1 /\ UNCHANGED disk
          /\ UNCHANGED lock
  /\ UNCHANGED <<rev, store, shown, puts, commits, unfinished, edits, crashes, late>>

\* Every path is in place: the revision counts up and Mutate unlocks.
Commit(a) ==
  /\ At(a, "next") /\ actor[a].todo = {}
  /\ rev' = rev + 1
  /\ lock' = None
  /\ commits' = [commits EXCEPT ![actor[a].id] = @ + 1]
  /\ Step(a, [actor[a] EXCEPT !.pc = "finish", !.backup = <<>>])
  /\ UNCHANGED <<disk, store, shown, puts, unfinished, environment>>

\* FinishApply: an error if the stored proposal is marked applied already.
FinishApply(a) ==
  /\ At(a, "finish")
  /\ IF store[actor[a].id].applied
     THEN /\ Step(a, [actor[a] EXCEPT !.pc = "failed"])
          /\ unfinished' = [unfinished EXCEPT ![actor[a].id] = @ + 1]
          /\ UNCHANGED store
     ELSE /\ Step(a, Idle)
          /\ store' = [store EXCEPT ![actor[a].id].applied = TRUE,
                                    ![actor[a].id].applying = FALSE]
          /\ UNCHANGED unfinished
  /\ UNCHANGED <<disk, rev, lock, shown, puts, commits, environment>>

-----------------------------------------------------------------------------
(* The user and the process                                                *)

Edit(p, c) ==
  /\ edits < MaxEdits
  /\ lock = None \/ EditsDuringApply
  /\ disk[p] # c
  /\ disk' = [disk EXCEPT ![p] = c]
  /\ edits' = edits + 1
  /\ late' = IF lock = None THEN late ELSE late \cup {p}
  /\ UNCHANGED <<rev, lock, store, shown, actor, puts, commits, unfinished, faults, crashes>>

\* The agent is killed and started again on the same directory.
Crash ==
  /\ crashes < MaxCrashes
  /\ crashes' = crashes + 1
  /\ rev' = 0 /\ lock' = None
  /\ store' = [id \in Ids |-> NoProposal]
  /\ actor' = [a \in Actors |-> Idle]
  /\ late' = {}
  /\ UNCHANGED <<disk, shown, puts, commits, unfinished, faults, edits>>

Next ==
  \/ \E a \in Actors :
       \/ \E id \in Ids, cs \in ChangeSets : BeginPropose(a, id, cs)
       \/ Fill(a) \/ GetAgain(a) \/ CopyRecord(a) \/ Plan(a) \/ Put(a)
       \/ \E request \in shown : Claim(a, request)
       \/ Lock(a) \/ Revalidate(a) \/ Backup(a) \/ Remove(a) \/ Rename(a)
       \/ Fault(a) \/ Rollback(a) \/ Commit(a) \/ FinishApply(a) \/ AbortApply(a)
  \/ \E p \in Paths, c \in File : Edit(p, c)
  \/ Crash

Spec == Init /\ [][Next]_vars

\* A goroutine runs on until it is back; nobody need propose, approve or edit.
Running(a) ==
  \/ Fill(a) \/ GetAgain(a) \/ CopyRecord(a) \/ Plan(a) \/ Put(a)
  \/ Lock(a) \/ Revalidate(a) \/ Backup(a) \/ Remove(a) \/ Rename(a)
  \/ Rollback(a) \/ Commit(a) \/ FinishApply(a) \/ AbortApply(a)

\* sync.RWMutex does not starve a goroutine that waits for the lock.
FairSpec == Spec /\ \A a \in Actors : WF_vars(Running(a)) /\ SF_vars(Lock(a)) /\ SF_vars(GetAgain(a))

-----------------------------------------------------------------------------
(* Properties                                                              *)

Diff(touched) == [touched -> [old : File, new : File]]

\* Types.  Files, diffs and backups hold contents, also where a RENAME gives
\* none of its own; the lock is held by the one actor that is writing or
\* rolling back.
TypeOK ==
  /\ disk \in [Paths -> File]
  /\ rev \in Nat
  /\ \A id \in Ids : \E touched \in SUBSET Paths : store[id].diff \in Diff(touched)
  /\ \A s \in shown : s.id \in Ids /\ \E touched \in SUBSET Paths : s.diff \in Diff(touched)
  /\ \A a \in Actors :
       /\ DOMAIN actor[a].backup \subseteq Paths
       /\ \A p \in DOMAIN actor[a].backup : actor[a].backup[p] \in File
       /\ actor[a].pc \in {"locked", "next", "remove", "rename", "rollback"} <=> lock = a

\* The files as the abstract specification sees them: what the writing actor
\* has backed up still counts until it commits.
Visible ==
  [p \in Paths |->
     IF \E a \in Actors : p \in DOMAIN actor[a].backup
     THEN LET a == CHOOSE x \in Actors : p \in DOMAIN actor[x].backup
          IN actor[a].backup[p]
     ELSE disk[p]]

Atomic == INSTANCE AtomicApply WITH files <- Visible, offered <- {s.diff : s \in shown}

\* ApplyChanges is atomic: all preconditions pass and all changes apply, or
\* none apply.  With goroutines that propose and apply the same id at once,
\* re-read files half way through an apply, and fail at any file operation,
\* the files change only by a whole offered diff, on exactly the contents it
\* was computed from, or by an edit.
ImplementsAtomic == Atomic!Spec

\* ClaimForApply and MarkApplied: a change set is written to disk at most as
\* often as it was proposed, although Put clears the flags of an apply in
\* flight and an abort those of another goroutine's claim.  The exception: an
\* ApplyChanges that wrote the files and then failed in FinishApply aborts too,
\* and its abort may set free a claim that still goes on to write.
OncePerPut == \A id \in Ids : commits[id] <= puts[id] + unfinished[id]

\* What ApplyChanges replaces is what was approved.  Nothing stops a user who
\* saves a file between the revalidation and its replacement, and that save is
\* lost; but no older edit is, nor what another goroutine wrote meanwhile:
\* until it commits, every file of the change set that is still to be written,
\* or stands in a backup, has the content its diff was computed from.
OnlyLateEditsAreLost ==
  \A a \in Actors : actor[a].pc \in {"next", "remove", "rename"} =>
    \A p \in DOMAIN actor[a].diff \ late :
      p \in actor[a].todo \cup DOMAIN actor[a].backup => Visible[p] = actor[a].diff[p].old

\* No claim is for ever: whichever way ApplyChanges returns, and whatever was
\* stored under the id meanwhile, the change set can be claimed again or is
\* marked applied.
ClaimsEnd == \A id \in Ids : []<>(~store[id].applying)
=============================================================================
