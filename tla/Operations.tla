----------------------------- MODULE Operations -----------------------------
(***************************************************************************)
(* The operations of the Local Agent that keep no state of their own, run  *)
(* one at a time: a job is given, and its result is what the code returns. *)
(***************************************************************************)
EXTENDS WorkspaceFiles, UnifiedDiff, Messages, ToolResults

CONSTANTS Jobs, None

ASSUME JobsAssumption ==
  \A j \in Jobs :
    /\ j.op \in {"read", "reads", "search"} => IsFileSystem(j.fs)
    /\ j.op = "read" => j.req \in Texts
    /\ j.op = "reads" => j.reqs \in Seq(Texts)
    /\ j.op \in {"wire", "serve"} => IsEnvelope(j.env)
    /\ j.op = "chat" => j.data \in Json
    /\ j.op = "diff" => IsChangeSet(j.changes, j.old)
    /\ j.op = "test" => j.classes \in Seq(Classes) /\ {j.opts.ignore, j.opts.compiles} \subseteq BOOLEAN
    /\ j.op = "status" => j.lines \in Seq(StatusLines)
    /\ j.op = "serve" => IsHandling(j.handler)

VARIABLES job, out

Init == job \in Jobs /\ out = None

Do(op, result) ==
  /\ job.op = op /\ out = None
  /\ out' = result
  /\ UNCHANGED job

Read     == Do("read",   ReadFile(job.fs, job.req))
ReadMany == Do("reads",  ReadFiles(job.fs, job.reqs))
Find     == Do("search", Search(job.fs, job.opts))
Propose  == Do("diff",   FromProposed(job.changes, job.old))
Carry    == Do("wire",   ToProto(job.env))
Serve    == Do("serve",  HandleEnvelope(job.env, job.handler))
Submit   == Do("chat",   ValidateSubmit(job.data))
Test     == Do("test",   TestResult(Log(job.classes), ExitCode(job.classes, job.opts)))
Status   == Do("status", parsePorcelain(job.lines))

Next == Read \/ ReadMany \/ Find \/ Propose \/ Carry \/ Serve \/ Submit \/ Test \/ Status

Spec == Init /\ [][Next]_<<job, out>>

Done(op) == job.op = op /\ out # None

-----------------------------------------------------------------------------
(* Properties: the promises of the modules above, of every job.            *)

\* workspace.read_file and read_files (path.go, read.go, read_files.go): see
\* ReadIsTrue and ReadsAreTrue.
ReadsReality ==
  /\ Done("read")  => ReadIsTrue(job.fs, job.req, out)
  /\ Done("reads") => ReadsAreTrue(job.fs, job.reqs, out)

\* workspace.search (search.go): see SearchIsTrue.
FindsWhatIsThere == Done("search") => SearchIsTrue(job.fs, job.opts, out)

\* The diff, its hash and the Hub's short cut for one without changes (unified.go,
\* actualdiff.go, hub.go): see DiffDecides and UnchangedIsSame.
HashDecides ==
  Done("diff") => /\ DiffDecides(job.changes, job.old, out)
                  /\ UnchangedIsSame(job.changes, job.old, out)

\* The conversion to protobuf and back (adapt.go): see WireKeeps.
WireIsFaithful == Done("wire") => WireKeeps(job.env)

\* The response to any envelope (agent.go, dispatcher.go): see AnswersAreValid.
AnswersReachCalls == Done("serve") => AnswersAreValid(job.env, job.handler)

\* The two guards of a chat (validate.go, IdeContextGuard.java): see GuardsAgree.
AcceptedIsAccepted == Done("chat") => GuardsAgree(job.data)

\* test.run and git.status (maven.go, git.go): see ReportIsTrue and StatusIsTrue.
ResultsAreReported ==
  /\ Done("test")   => ReportIsTrue(job.classes, job.opts, out)
  /\ Done("status") => StatusIsTrue(job.lines, out)
=============================================================================
