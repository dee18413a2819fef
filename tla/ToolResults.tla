---------------------------- MODULE ToolResults -----------------------------
(***************************************************************************)
(* What test.run and git.status make of the output of Maven and of git.    *)
(***************************************************************************)
EXTENDS Naturals, Sequences, FiniteSets, SequencesExt

-----------------------------------------------------------------------------
(* maven.go.  A log is the lines that report tests: one for each class, in *)
(* the order they ran, and then their sum.                                 *)

Counts(run, failures, errors, skipped) ==
  [run |-> run, failures |-> failures, errors |-> errors, skipped |-> skipped]

NoCounts == Counts(0, 0, 0, 0)

\* What Surefire reports of a class: each test is counted at most once.
Tallies == [run : Nat, failures : Nat, errors : Nat, skipped : Nat]
Classes == {c \in Tallies : c.failures + c.errors + c.skipped <= c.run}

Plus(s, c) ==
  Counts(s.run + c.run, s.failures + c.failures, s.errors + c.errors, s.skipped + c.skipped)

Sum(classes) ==
  LET sum[n \in 0..Len(classes)] == IF n = 0 THEN NoCounts ELSE Plus(sum[n - 1], classes[n])
  IN  sum[Len(classes)]

\* Maven: a test that fails makes it exit with 1, unless it was told to ignore
\* failures.  A build that does not get to the tests reports none.
Log(classes)            == IF classes = <<>> THEN <<>> ELSE Append(classes, Sum(classes))
Broken(classes)         == Sum(classes).failures + Sum(classes).errors > 0
ExitCode(classes, opts) == IF opts.compiles /\ (opts.ignore \/ ~Broken(classes)) THEN 0 ELSE 1

\* FindStringSubmatch returns the first match.
parseSurefire(log) == IF log = <<>> THEN NoCounts ELSE log[1]

\* MUTANT: errors are not failures.
MutTestResult(log, code) ==
  LET c == parseSurefire(log) IN
  [total |-> c.run, failed |-> c.failures, skipped |-> c.skipped,
   passed |-> c.run - c.failures - c.skipped,
   status |-> IF code = 0 /\ c.failures = 0 THEN "SUCCESS" ELSE "FAILED"]

\* TestAdapter.Run, when the process has ended by itself.
TestResult(log, code) ==
  LET c      == parseSurefire(log)
      failed == c.failures + c.errors
      rest   == failed + c.skipped
  IN  [total |-> c.run, failed |-> failed, skipped |-> c.skipped,
       passed |-> IF rest > c.run THEN 0 ELSE c.run - rest,
       status |-> IF code # 0 \/ failed > 0 THEN "FAILED" ELSE "SUCCESS"]

-----------------------------------------------------------------------------
(* git.go.  A line of git status: the columns of the index and of the work *)
(* tree, the path, and before it the old path of a rename.                 *)

\* The letters of git for a change; a file git does not know has ? in both columns.
Changes     == {"M", "T", "A", "D", "R", "C", "U"}
StatusLines == {l \in [x : Changes \cup {" ", "?"}, y : Changes \cup {" ", "?"}, path : Nat] :
                  l.x = "?" <=> l.y = "?"}

AddTo(seq, path, yes) == IF yes /\ ~Contains(seq, path) THEN Append(seq, path) ELSE seq

NoFiles == [changed |-> <<>>, staged |-> <<>>, untracked |-> <<>>]

\* MUTANT: the output is trimmed first, which moves the columns of line 1.
MutListed(out, l) == [out EXCEPT !.staged = AddTo(@, l.path, l.x # "?")]

\* The lists after one more line.
Listed(out, l) ==
  LET unknown == l.x = "?" /\ l.y = "?" IN
  [untracked |-> AddTo(out.untracked, l.path, unknown),
   staged    |-> AddTo(out.staged,    l.path, ~unknown /\ l.x \notin {" ", "?"}),
   changed   |-> AddTo(out.changed,   l.path, ~unknown /\ l.y \notin {" ", "?"})]

parsePorcelain(lines) ==
  LET lists[n \in 0..Len(lines)] == IF n = 0 THEN NoFiles ELSE Listed(lists[n - 1], lines[n])
  IN  lists[Len(lines)]

-----------------------------------------------------------------------------
(* What the results promise                                                *)

\* test.run: a run with a failed test is not reported as a success, except that
\* when Maven ignores failures those after the first class are missed; a run
\* reported as failed has failed.  The counts add up, and are those of the whole
\* run only if it has one class.
ReportIsTrue(classes, opts, out) ==
  /\ out.status = "SUCCESS" => ~Broken(classes) \/ (opts.ignore /\ ~Broken(<<classes[1]>>))
  /\ out.status = "FAILED" => Broken(classes) \/ ~opts.compiles
  /\ out.passed + out.failed + out.skipped = out.total
  /\ Len(classes) = 1 =>
       out.total = Sum(classes).run /\ out.failed = Sum(classes).failures + Sum(classes).errors
  /\ out.failed > 0 => Broken(classes) /\ out.status = "FAILED"

\* git.status: a path is listed once in each list, as staged iff the index has a
\* change of it, as changed iff the work tree has, as untracked iff git does not
\* know it.
StatusIsTrue(lines, out) ==
  LET paths(P(_)) == {l.path : l \in {m \in ToSet(lines) : P(m)}} IN
  /\ \A k \in DOMAIN out : Cardinality(ToSet(out[k])) = Len(out[k])
  /\ ToSet(out.untracked) = paths(LAMBDA l : l.x = "?")
  /\ ToSet(out.staged)    = paths(LAMBDA l : l.x \in Changes)
  /\ ToSet(out.changed)   = paths(LAMBDA l : l.y \in Changes)
=============================================================================
