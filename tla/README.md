# onCode: TLA+ specifications

onCode lets a user ask for a code change in the editor, has agents design and
implement it on a server, and applies it to the user's workspace after two
approvals. The promise is that nothing is written to the workspace without a
decision of the user on exactly that change. These modules model the parts that
keep the promise, check them with TLC on small instances, and prove with TLAPS,
for instances of any size, what the server, the agent, the bridge and the three of
them together guarantee, and what the operations they are made of return.

## The system

| part | state | operations | talks to |
|---|---|---|---|
| Workflow engine (`server/.../workflow`) | tables `workflow`, `workflow_transition`, `work_item`; lease | receive, transition, decide, completeAfterApply, resumeAfterRestart | approvals, repositories |
| Approvals (`server/.../approval`) | table `approval` | request, requireUsable, markExpired, consume | engine, intake |
| Intake (`server/.../api`) | context rows `workspace`, `design`, `approval_bind`; questions in memory | submit, resume, decide, bindDiff, applyCompleted, restore | engine, agent session |
| Agent runtime (`server/.../agentruntime`) | none of its own | design, implement and review, in the engine's transaction | engine, tool gateway |
| Agent session (`server/.../api/grpc/AgentSessionService`) | thread pool, pending chats | one handler per event of the agent, questions and answers, outcome events | intake, tool session |
| Tool gateway and session (`DefaultToolGateway`, `GrpcToolSession`) | answers by call id; stream, pending futures | call, attach, detach, complete | agent stream |
| Agent transport and dispatcher (`local-agent/internal/transport`, `tools`) | two bounded channels | recvLoop, Loop, Dispatch | server, workspace |
| Hub (`local-agent/internal/idesession`) | one pending apply, last work item | forward server events, prepare the actual diff, apply, report | server, bridge, workspace |
| Workspace (`local-agent/internal/workspace`) | files, revision, proposals, Registry lock | Propose, Put, ClaimForApply, ApplyChanges, rollback | disk |
| Build, test and git tools (`process`, `maven`, `gitops`) | the process that runs | run with a deadline, read the output | dispatcher, external programs |
| Path resolution, reads, search (`workspace`) | none | ResolvePath, read_file, read_files, search | disk |
| Diff (`diff`, `actualdiff`) | none | lcsOps, UnifiedFile, FromProposed | workspace, hub |
| IPC bridge and client (`idebridge`, `ide/vscode/ipc`) | clients, endpoint file | start, close, broadcast, reconnect | hub, extension |
| Extension (`ide/vscode`) | approval queue, remembered work item | chat, show reviews, send decisions, restore | bridge, user |
| Protocol and guards (`protocol`, `chatctx`, `IdeContextGuard`) | none | validation, conversion to protobuf, checks on a chat | transport, intake |
| Configuration, audit log, in-process transport | none | input and output | |

What is hard in it: the handlers of the server run in any order and at the same
time, each one a READ COMMITTED transaction whose first reads are stale when it
writes; reviews, binds and progress events cross each other between three
processes; either connection breaks and comes back, the agent restarts with an
empty memory; applying a change set is many file operations, any of which fails
or is the last before the process dies; tool calls time out while their tool
runs; one goroutine serves all tool requests and one all events, and each waits
on a process or a window that may never let go. The operations without state have
edges of their own: links, byte limits, integers of the wire, texts that look like
the header of a diff. `PROJECT.json` lists these hazards at their lines.

## Modules

| module | models |
|---|---|
| `WorkflowServer` | engine, approvals, intake and agent session of the server over their tables |
| `ApprovalGate` | abstract: a work item passes the design gate, then the code gate, or is refused |
| `WorkflowServerProofs` | the inductive invariant of `WorkflowServer` and its first theorems |
| `ServerHistoryProofs` | the audit trail, the gates and the events of the server; it implements `ApprovalGate` |
| `OnCodeProofs`, `ToolSessionProofs`, `AgentStreamProofs`, `WorkspaceApplyProofs`, `IdeBridgeProofs` | the inductive invariant and the theorems of the module each is named for |
| `OnCode` | `WorkflowServer` composed with the Hub, the disk, the extension and its user |
| `ToolSession` | tool calls seen from the server: gateway, channel, streams |
| `AgentStream` | the agent's end of the stream: channels, request loop, processes, Hub and windows, questions |
| `WorkspaceApply` | proposals and ApplyChanges over the files |
| `AtomicApply` | abstract: files change by a whole offered diff on its own base, or by an edit |
| `IdeBridge` | the IPC bridge of the agent, its endpoint file, and the client's reconnect loop |
| `WorkspaceFiles`, `UnifiedDiff`, `Messages`, `ToolResults` | the operations without state, as operators, each with what it promises |
| `Operations` | runs those operators, one job at a time |
| `OperationsProofs` | what reads, diffs, messages, chats and tool results are, for every job |
| `MC...` | model values, symmetry, change sets, loads and jobs for TLC |

### WorkflowServer

`row` is the workflow row with its transition log, `item`, `workspace`,
`design`, `bind` and `approval` are the other tables, `tx[t]` is what the open
transaction of thread `t` has read, `outcome[t]` the events it still has to
send. A handler is split where a read can go stale: `DecideCheck` (the checks of
ApprovalIntake.decide), `DecideLoad` (WorkflowEngine.decide reads approval and
row), `DecideCommit` or `DecideImplement` (the conditional UPDATEs and all that
follows in the transaction); likewise complete, resume and bind. `Submit` only
creates rows and is one step. The commit is atomic because its first UPDATE
takes the row lock and re-evaluates its WHERE clause, which is the guard of the
step. `Rollback` is every failure before the commit, the end of the process
included. `ApprovalLate` and `LeaseLapses` are the clock.

Abstractions: a workflow is named by its work item (they are created together,
1:1); a design or a diff is its hash; the design is written once; progress
events a handler sends before its last one only name stages for the display and
are left out; the fields of an approval that nothing compares are left out.
`approval[a].on` is not in the table: it remembers which hash the decision named,
so that properties can speak of it.

### OnCode

Adds the agent's events not yet picked up (`inbox`, a set: the pool takes them in
any order), the stream to the agent (`wire`, FIFO: send holds a lock), the frames
to the extension (`push`), and `hub`, `ide`, `disk`, `applied`. `HandleEvent` feeds
the actions of `WorkflowServer`; `Listen` handles one server event whole, as the
Hub's single goroutine does, with the apply inside. Work item `w` proposes to
write content `w`; a diff is its target and its base. The workspace has one file:
what several files add is `WorkspaceApply`'s subject. `inbox` merges equal
messages, which are handled the same way twice.

### ToolSession

A caller is one `DefaultToolGateway.call` and names its own wire call id. Steps:
cache lookup (`Call`), `Route`, `CheckOpen`, `Put`, `SendRequest`, `Await` or
`Interrupted`, then `Return` or `Timeout`. `detach` is its three statements. The
tool's result is "SUCCESS" whatever status the agent reports: only where the
answer came from matters. A stream breaks at the network first (`Break`) and the
server learns of it later (`DetachStream`), by then perhaps on its next stream.

### AgentStream

`Recv` and `Enqueue` are recvLoop (`GivesUp` is its five seconds on a full
channel); `Handle`, `SendResponse` and `StopLoop` are transport.Loop with
HandleEnvelope and Dispatch; `Start`, `Exit`, `Kill`, `Deadline`, `Collect` are
process.Run, where a killed or finished process may leave a descendant (`heir`)
that holds the output open, and cmd.Run waits for it. git.status runs its commands
one after the other. `Listen`, `Push`, `Pushed` are Hub.Listen and Broadcast: the
order of the windows is fixed when the connections are copied (any of them, `Orders`,
as Go leaves it open), and a window that does not read holds up those behind it.
`Stall` and `Resume` are a window that stops reading; `IdleCut` is the read deadline,
which ends any window that sends nothing, a healthy one too, and which serveConn does
not have while it writes a reply (`owes`).
`Chat`, `Dismiss`, `Answers` are the extension, `OnChat` and `OnAnswer` the session
service and its `pendingChats`. Envelopes are their kind and what they are about.
The workflow behind a chat is `WorkflowServer`'s; here an answered chat only causes
the two events the Hub has to push.

### WorkspaceApply

An actor is a goroutine: the Hub, or a tool request. Proposing is unlocked and
step by step (hash each base file, look the workspace up, read each file, Put);
ApplyChanges is claim, lock, revalidate, then per path in order backup, remove,
rename, then commit and FinishApply, with `Fault` anywhere between and `Rollback`
one file per step. A diff is a function from path to old and new content and
stands for its own hash (no collisions). `AbortApply` is the deferred call.
`late` is history: the paths a user saved since the holder of the lock compared
the files. It lets `OnlyLateEditsAreLost` say exactly which edits an apply can
overwrite. `unfinished` is history too: the applies that wrote their files and were
then refused by FinishApply. Such an apply runs the deferred AbortApply, which
clears the flag whoever set it; if another goroutine has claimed a re-proposal
meanwhile, a further Put is claimed beside it and the change set is written once
more than it was put. So `OncePerPut` counts Puts and unfinished applies; the plain
count fails with three Puts.

### IdeBridge

An agent is one process with one Bridge; a restart is another agent, which shares
the state dir and may overlap with the first. `Listen`, `CreateEndpoint`,
`WriteEndpoint` are Start (os.WriteFile truncates, then writes); `CloseTake`,
`CloseConn`, `CloseServer`, `CloseRemove` are one call of Close, and each agent has
two of them, since both main and the goroutine Start leaves behind call it. `Exit`
follows main's. `file` says whose endpoint ide-ipc.json holds. A connection has a
near end (the window's socket) and a far end (handleIPC and serveConn). A port that
was freed can be taken by the next agent. Left out: backoff times, the Origin
header, client ids, a listen that fails (the process is never up), and the frames
themselves, which are `OnCode`'s `push`. A second process that writes the file while
the first is writing it is taken to replace it whole.

### The operator modules

`WorkspaceFiles`: a path is the sequence of its names, a file system (`IsFileSystem`)
a function from the paths that exist to directory, file or link, a request a text
split at its separators (`Texts`). EvalSymlinks and Lstat are the operating system's: a
lookup stops at the first name that is a link or cannot be walked (`Stops`,
`FirstStop`), a link is replaced by what it holds (`Hop`), and `Lookup` does so
`MaxLinks` times. WalkDir is a recursive function over the directories, as deep as the
tree, and the results are filled hit by hit (`Results`, `Add`). A file is a sequence of bytes of the six kinds the limits of the code
tell apart.

`UnifiedDiff`: a content is its lines and whether the last one ends in a newline. dp is
filled row by row (`Row`, `Table`) and walked round by round (`Round`, `Walk`), as
lcsOps does it. A diff is the texts of its paths in their order and stands for its hash;
the change sets are those Propose lets pass (`IsChangeSet`). `Messages`: validation, the
trip through protobuf (enums with a value for the unknown, 32-bit timeouts as
`IntBits`), HandleEnvelope and Dispatch, what the server's session makes of the response
(`ServerReads`), and the guards a chat passes in the agent and in the server. A handler
(`IsHandling`) responds with any of the statuses and codes that build.run, test.run,
read_files and the others report (`Reported`), or returns an error or nothing. A chat may
be about a work item (`resume`) and may be submitted again with an answer (`Answered`).
Of an id only its validity is kept, of a text which of Go's TrimSpace, Java's trim and
isBlank take it for empty, where it has a newline, and whether it is the id of a work
item; of JSON (`Json`, nested up to `Nesting`) its shape. `ToolResults`: the counts read from a
Maven log, the lists made of git's porcelain lines.

Each module ends with what its operators promise, written without them where possible:
the files a path really names, the hits that are really there, the contents a change set
leaves, the common subsequences as increasing functions from one text's lines to the
other's (`Common`). `Operations` has one action per operation and one property per
promise. Recursion is by recursive functions throughout, so that the modules can be
proved about as well as run.

## Runs

Every passing run explores its instance completely.

| run | instance | shows |
|---|---|---|
| `server` | 2 items, 4 approvals, 2 threads | types; the transition log is one allowed path (no lost update); each gate is passed by one consumed approval of its own item; decisions are final; approvals are open only while waited for; a waiting workflow has its approval and no lease; commits are whole: no workflow between two stages, the item closed with it; events sent are authorised; `ApprovalGate` is implemented |
| `oncode_faults` | 1 item, 1 edit, 1 reconnect, 1 agent restart, 1 fault, 2 threads | what the Hub writes was approved; COMPLETED means applied |
| `oncode_liveness` | 1 item, 1 edit, 1 reconnect, 2 threads | with reviews and events restored and crossing, an approved change is applied, or refused because of the edit |
| `tool_session` | 2 callers, 1 call id, 2 streams | answers go to their call; a retry gets the same answer and does not run the tool again; an attached stream is used until some stream ends; channel tasks end and leave the map |
| `agent_stream` | 5 forms of request, 1 chat, 2 windows, channels of 1 | replies say what became of the process; the first answer decides; requests are answered or dropped; a question reaches every window that reads and stays, although the one before it in Broadcast hangs |
| `operations` | about 41,000 jobs | reads, searches, diffs, messages, chats and tool results are what they say |
| `apply_races` | 2 goroutines, 2 paths, 4 change sets, 2 puts, 1 fault, 1 edit | `AtomicApply` is implemented; one write per proposal |
| `apply_claims` | 2 goroutines, 2 faults, 1 edit at any time, 1 crash | only an edit after the revalidation can be lost; claims end |
| `bridge` | 2 agents, 2 ports, 1 window, 1 reconnect command, 1 late registration | the clients of an agent are exactly its connections, each on its own token, through every race with Close; an agent that was stopped leaves no endpoint of its own; a window reconnects, and lets go after dispose |

Violation runs: where a comment or a document says something the code does not
do. TLC gives the trace.

| run | the trace |
|---|---|
| `oncode_other_item` | two items in review, the first is approved, the Hub applies the second |
| `oncode_diff_approved` | the user approves, an edit and a restore replace the pending diff, the new one is written |
| `oncode_restart` | the agent restarts under a new workspace id; the restored review is never accepted |

What the models also allow, and no run claims otherwise:

- server: bindDiff may replace the bind of an approval consumed since its check; a
  resume that acts on an old read may clear the lease of a running workflow or lease
  a finished one; a review that arrives after its change was applied makes the
  approval pending again, and a further APPLYING_CHANGE then applies it again if the
  file was edited meanwhile;
- tool calls: overlapping calls with one call id both reach the agent; a call that
  passed isOpen before a detach waits until the gateway's timeout; the late onError of
  a replaced stream detaches its successor (`AttachedIsUsed` names the case);
- agent: a descendant that keeps the output open blocks every later request, since
  nothing sets WaitDelay; a window that stops reading while it is owed a reply blocks
  Broadcast, the event channel and then recvLoop, since neither write has a deadline;
  a blank answer ends its question without a word to the user;
- workspace: a failing rollback leaves a change set half applied; an edit between
  revalidation and replacement is lost; FinishApply may fail after the files were
  written, the caller is told the apply failed, and its abort may free the claim of
  another goroutine (`OncePerPut` counts the case); a process that dies between two
  files leaves a part of the change set on disk (02_IMPLEMENTATION_RULES asks for all
  or none);
- bridge: an agent that closes removes the endpoint file of a successor that has
  already started, and no window finds that one until it is restarted;
- operations, each named in its property as the only exception: search misses matches
  in a file whose head cuts a rune, beyond the scan limit, and all of them when the
  workspace directory itself has an excluded name, and does not say so; the hash of a
  diff covers neither the final newline nor whether an empty file exists; change sets
  that only add lines starting with ++ or remove lines starting with -- count as
  unchanged; test counts are those of the first class; a timeout that does not fit in
  32 bits arrives as another or not at all; a PARTIAL response has no error and is a
  success to the server's caller; a chat that the agent has accepted is refused by the
  server when its message is made of control characters, which Java trims and Go does
  not, or when its work item does not exist.

Bounds. A work item has two approvals in its life, so two per item are all. Two
threads let any handler's commit meet any other's stale read, on one item or
across two; the proofs cover any number. One call id asked for by two callers is what
a retry or an overlap needs, two streams a reconnect. In `AgentStream` a channel of
one is full as soon as one envelope waits, with another in the hands of its goroutine
and a third in recvLoop; `Loads` says what comes together: three requests that can
fill their channel, or two windows, a chat, one stall and a request for an unknown tool
behind their events, or a read. Two windows are a stalled one and one behind it. In `Operations` every limit of the code is a small constant
(`MaxFileBytes` 4, `HeadBytes` 2, `MaxContentScan` 3, `MaxResults` 2, `MaxLinks` 3,
`IntBits` 4) and the jobs go past each of them: all contents of up to 5 bytes, links to
files, directories, themselves, nothing and the outside, requests of up to 3 names, all
pairs of texts of up to 3 lines of two kinds, and of 2 lines of four kinds, timeouts
from -2 to 18, every status and code of a handler, chats nested three deep with every
kind of empty text, two test classes, two lines of git's output.
`MaxEdits`, `MaxRestores`, `MaxRestarts`,
`MaxFaults`, `MaxCommands`, `MaxTimeouts` count what the environment does: a reconnect
puts a second copy of reviews and progress events under way beside the first, a
second fault of `WorkspaceApply` is a failing rollback.
Agents and ports of `IdeBridge` are numbered in the order of first use, which only
names them; two agents are one restart, and a late registration must be bounded for
the window to get through at all.
Two paths and two goroutines are the least in which a change set can be torn and
a claim contended; `MaxPuts` 2 allows one re-proposal during an apply. The change
sets cover the four operations, both orders of reading and writing, and a conflict.
Deadlock checking is off where the bounded environment, or a system at rest, stops.

Symmetry is used in safety runs only, over sets whose members the module never
tells apart.

Fairness. `FairOnCode`: the thread pool runs what it is given, a transaction that
is not rolled back goes on, the stream delivers, the Hub's goroutine reads; the
user, the clock and the faults are free. `FairSpec` of `ToolSession`: the server's
threads run and its timers fire; network, agent and callers are free. `FairSpec` of
`AgentStream`: the agent's goroutines run, its timers fire and the stream delivers;
processes, their descendants, windows and users are free (the read deadline is sure to
end only a window that hangs: one that reads may always send something), and what a property needs of
them (a descendant that ends, a window that does not stay stuck while it is owed a
reply) is its hypothesis, since the code does not ensure it. `FairSpec` of
`WorkspaceApply`: goroutines run, and sync.RWMutex does not starve a waiter
(strong fairness on taking the lock). `FairSpec` of `IdeBridge`: the editor's event
loop and the agent's goroutines run; signals, crashes, users and read deadlines are
free.

## Proofs

Every theorem holds for any sets of work items, approvals, threads, callers,
streams, windows, goroutines, agents, ports and so on, and for any value of the
bounds: what a run shows on its instance, a theorem shows on all of them. The
assumptions on the constants say that `None` and its like are no real value, that
capacities and bounds are numbers, in `AgentStream` that windows are finitely many, in
`Messages` that no error code is the empty text, in `WorkspaceApply` that paths are
finitely many and change sets are what `ProposedChangeSet.Validate` lets pass, and in
`Operations` (`JobsAssumption`, with `JsonAssumption`, `MessagesAssumption` and
`FilesAssumption`) that a job is given what its operation can be given: a file system,
the names of a path, an envelope, a response that a handler can give, a change set
that Propose accepts. TLC evaluates them in the runs, and has checked each inductive
invariant on the instances of the runs before it was proved (that of `IdeBridge`
also on a part of an instance with two windows).

| module | theorem | states |
|---|---|---|
| `WorkflowServerProofs` | `TypeCorrect`, `OpenApprovals`, `WaitingStaysDecidable`, `NothingStranded` | `TypeOK`, `OpenOnlyWhileWaiting`, `WaitingIsDecidable`, `CommitsAreWhole` |
| | `Finality` | `DecisionsAreFinal`: a decided or expired approval never changes |
| `ServerHistoryProofs` | `AuditTrail`, `DecidedGates`, `AuthorisedEvents` | `HistoryIsPath`, `GatesAreDecided`, `EventsAreAuthorised` |
| | `TwoGates` | `ImplementsGate`: `WorkflowServer` implements `ApprovalGate` |
| `OnCodeProofs` | `ServerInSystem` | `OnCode` implements `WorkflowServer`, whose theorems therefore hold in it |
| | `CompletionIsEarned` | `CompletedWasApplied` |
| | `ApprovedBeforeApply`, `OneItemApprovedBeforeApply` | `AppliedWasApproved`, under the hypotheses below |
| `ToolSessionProofs` | `SessionTypeCorrect`, `SuccessIsReal`, `SideEffectsRunOnce`, `RetriesAgree`, `NewestStreamServes` | `TypeOK`, `SuccessWasExecuted`, `ExecutedOnce`, `RetryGetsSameAnswer`, `AttachedIsUsed` |
| `AgentStreamProofs` | `StreamTypeCorrect`, `TrueReplies`, `OneAnswerDecides` | `TypeOK`, `RepliesAreTrue`, `FirstAnswerDecides` |
| `WorkspaceApplyProofs` | `ApplyTypeCorrect`, `WrittenOncePerPut`, `OnlyLateEditsLost` | `TypeOK`, `OncePerPut`, `OnlyLateEditsAreLost` |
| | `ApplyIsAtomic` | `ImplementsAtomic`, under the hypothesis below |
| `IdeBridgeProofs` | `BridgeTypeCorrect`, `ClientsFollowConnections`, `ExitLeavesNoEndpoint` | `TypeOK`, `ClientsAreConnections`, `ExitRemovesEndpoint` |
| `OperationsProofs` | `ReadsAreReal`, `SearchesFind`, `HashesDecide` | `ReadsReality`, `FindsWhatIsThere`, `HashDecides` |
| | `WireCarries`, `EveryCallIsAnswered`, `ChatsPassBoth`, `ReportsAreTrue` | `WireIsFaithful`, `AnswersReachCalls`, `AcceptedIsAccepted`, `ResultsAreReported` |
| | `NoSourceInChats` | no chat with a key for source code, at any depth, passes ValidateSubmit |
| | `OneHashOneChange` | change sets with one diff find the same lines and leave the same lines |

**WorkflowServer.** All rests on `Invariance`, `Spec => []IInv`. The invariants are
not inductive because a commit acts on what its transaction read earlier; `IInv` adds
what is still true of those reads. `TxOK` says, for each open transaction, how far the
row may have moved since: if the revision is the one read, so is the state; a resume
that read a waiting state can find it only there or beyond, so clearing the lease
never matters to it; a resume that read a running state can never find the row
waiting again, because `APPLYING_CHANGE` is followed by terminal states only.
`ApprovalsOK` ties an approval's existence to its item, and `FreshRows` says that
an absent row has no approvals, so that `Submit` meets none. `ReadsAge` proves once
that a step that only moves rows forward keeps `TxOK` for the other threads;
`MoveStep`, `LeaseOnlyStep` and `QuietStep` are the three kinds of step; each
action has its lemma, and `NextInv` joins them.

**Its history.** `StepKinds` sorts the steps into those at rest, which move no
workflow, and the four that do; each of the four appends to the log exactly what it
does to the state. `EventInv` strengthens `EventsAreAuthorised` by the rows and the
resuming transactions that an event is made from: a row beyond the code gate, or one
that a resume has read there, has a consumed code approval. For `TwoGates` each of
the four is a step of `ApprovalGate` and the others are stutters.

**OnCode.** `SystemInv` puts the server's two invariants together with what the
messages may say: an `apply.completed` under way, a transaction that completes, and a
COMPLETED row all name an item whose change the Hub applied (`Earned`); events on the
wire are authorised and the proposal kept at the Hub names a code approval of its own
item (`Trusted`). `AppliedWasApproved` is false of the code for two items (run
`oncode_other_item`): applyIfAuthorized does not compare the item of the event with
the item of the pending proposal. `ApprovedBeforeApply` proves that this comparison is
all that is missing: it assumes `HeardForPending`, that the APPLYING_CHANGE the Hub
takes from the wire is about the proposal it keeps, and `OneItemApprovedBeforeApply`
discharges it when there is one item, as in run `oncode_faults`.

**ToolSession.** `WorkersOK` says who may be in the map, on the wire and at the agent,
`AgentOK` that a response was preceded by its tool, `CacheOK` who put an entry into
sideEffectResults: a task is submitted only for a call that found no entry, hence
after no earlier call of its id has returned, so what two calls of an id do twice they
do only when they overlap.

**AgentStream.** `ToolsOK` follows one call through Loop: a process exists just while
Loop waits, a response in hand is true of the process it was made from (`IsTrue`), and
nothing is CANCELLED before the agent stops. `QuestionsOK` says that a question on the
wire, in a channel, at the Hub or in a window was posed, hence every answer under way
is to a chat that is pending or already decided, and a submit under way is to neither;
with that `onAnswer`, which removes the pending chat first, can count only once.

**WorkspaceApply.** `ActorOK` gives for each point of ApplyChanges what is on disk,
what is in backups and what is still to do, all but for late edits. `ClaimsCount`
counts: per id, the writes so far, the goroutines that hold a claim and the claim still
to be had are at most the Puts and the unfinished applies. `ApplyIsAtomic` maps the
files to what they are once the holder of the lock has finished rolling back, so that
every file operation is a stutter and Commit the one step. Its hypothesis `Undisturbed`
is what ApplyChanges needs of its surroundings and cannot ensure: no edit and no crash
while the lock is held, and a rollback that can write its backups. Any number of other
file operations may fail. Run `apply_races` checks the refinement under the same terms.

**IdeBridge.** The invariant follows a connection from dial to end: which pairs of
near and far end there are (`EndsAgree`), that only a running bridge serves, that a
client is in `conns` or in the hands of one Close and not in both (`Clients`), and that
main's Close is done only after the endpoint file is not the agent's (`ClosesOK`), which
Exit waits for.

**Operations.** The invariant, `Produced`, is that `out` is what the job's operation
returned; each property is then a fact about operators. Those need induction over data,
which the library states with an operator as a parameter and the provers cannot
instantiate. `Induction` states it with a set of naturals instead and proves it from the
pigeonhole principle, `Recursion` and `Runs` give from it that a recursive function
obeys its equation, and the rest builds on these.

- Reads. `EvalPrefix` relates the lookup of a path to that of its beginning (the links
  of the beginning are followed first, and a failure there is a failure of the whole),
  `OneMoreName` says what Lstat and EvalSymlinks of one more name have to do with each
  other, `AlongPath` follows a failure along the path. `Resolution` puts them together:
  the place resolveExisting finds, extended by what does not exist yet, is the file the
  operating system would open, so what Judged says of it holds of the file.
- Search. `WalkEnds` proves that the walk is defined, since nothing lies deeper than all
  the rest, `WalkDirIs` what it comes to; `HitsAre` and `ContentIs` say what is found in
  one file, and `ResultsAre` that the results hold each hit once until they are full.
- Diffs. `TableIs` proves the equations of dp. `Reached` is the invariant of the walk
  through it: the lines kept and removed so far are the first text up to where the walk
  is, those kept and added the second, and lines kept plus the cell reached are
  `dp[1][1]`. `NoneIsLonger` proves that no common subsequence is longer than that.
  `FlattenIs`, `IndexedAll` and `ProposedIs` show that the joined diff has one text for
  each path that is touched; `SideLines` and `KeptBoth` tell what the Hub's diffHasContentChange overlooks. `OneHashOneChange` follows: an
  approval bound by its hash covers one change of lines, whatever else is proposed.
- Responses. `Tells` says what the server's caller reads in a response; `DispatchTells`
  gives it for every way a handler can end, and `AnswersLemma` carries it over the wire.
- Chats. Induction over the depth of the JSON, on which the two guards agree
  (`LooksDeeper`); `AnsweredIs` says that an answer hides no key and takes only the place
  of `ide_context`.

Only model-checked: the liveness properties (`ApprovedIsApplied`, `WorkerEnds`,
`RequestsSettle`, `QuestionsReachWindows`, `ClaimsEnd`, `WindowsReconnect`,
`DisposedLetsGo`), since fairness is beyond the prover.

## Not modelled

- Configuration, audit log, metrics, the views of the extension: input and output only.
- The in-process transport: a harness for tests.
- The generated protobuf code: taken to carry each field as it is.
- What git.diff returns is the text of one command: `AgentStream` runs it like a build.
- The agents' texts: the inference gateway is scripted in this repository, and only
  success or failure of a stage changes state.
- Files that cannot be read for lack of permission or because of an I/O error: reads
  and searches see what is there.
- The envelope that recvLoop skips when FromProto refuses it: the server builds none.
- The format of ids, and the validators of Approval and ActualDiff, which the agent does
  not call.
- The JSON of a proposal: `WorkspaceApply` starts from the change set it holds.

## Plan

1. Done: server, composition, tool calls, workspace apply, IPC bridge; the server's
   inductive invariant.
2. Done: the agent's stream with processes, windows and questions; the operations
   without state; which edits an apply can lose.
3. Done: every safety invariant of the server, the composition, tool calls, the agent's
   stream, workspace apply, the bridge and the operations, and both refinements, as
   theorems, with the hypotheses the code leaves open stated where there are any.
4. Next: the conditions under which the diff that is applied is the one approved.
