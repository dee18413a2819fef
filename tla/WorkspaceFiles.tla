--------------------------- MODULE WorkspaceFiles ---------------------------
(***************************************************************************)
(* How the agent finds, reads and searches files of a workspace:           *)
(* ResolvePath, the read tools and Search, over a file system with links.  *)
(*                                                                         *)
(* A path is the sequence of its names.  A file system is a function from  *)
(* the absolute paths that exist to what is there; links hold an absolute  *)
(* path.  What a file holds is a sequence of bytes, of the kinds that the  *)
(* byte limits of the code tell apart.                                     *)
(***************************************************************************)
EXTENDS Naturals, Sequences, FiniteSets, SequencesExt

CONSTANTS
  Root,             \* of the workspace, as Register has resolved it
  NameOrder,        \* the names, in the order ReadDir sorts them
  MaxLinks,         \* links that are followed in one path
  MaxFileBytes, HeadBytes, MaxContentScan, MaxResults

Kinds == {"dir", "file", "link"}

\* query and other are one byte of text, lead and rest the two of a longer rune.
Bytes == {"query", "other", "newline", "lead", "rest", "nul"}

Names == {".", ".."} \cup ToSet(NameOrder)

ASSUME FilesAssumption ==
  /\ NameOrder \in Seq(ToSet(NameOrder)) /\ {".", ".."} \cap ToSet(NameOrder) = {}
  /\ Root \in Seq(Names) /\ Len(Root) > 0
  /\ {MaxLinks, MaxFileBytes, HeadBytes, MaxContentScan, MaxResults} \subseteq Nat \ {0}

Found(p) == [ok |-> TRUE, at |-> p]
Err(e)   == [ok |-> FALSE, err |-> e]

IsDir(fs, p) == p \in DOMAIN fs /\ fs[p].kind = "dir"

\* Whatever exists lies in directories that exist, and nothing deeper than all
\* the rest; the workspace is a directory.
IsFileSystem(fs) ==
  /\ \A p \in DOMAIN fs :
       /\ p \in Seq(ToSet(NameOrder)) /\ fs[p].kind \in Kinds
       /\ fs[p].kind = "file" => fs[p].bytes \in Seq(Bytes)
       /\ fs[p].kind = "link" => fs[p].to \in Seq(ToSet(NameOrder))
       /\ \A n \in 0..(Len(p) - 1) : IsDir(fs, SubSeq(p, 1, n))
  /\ \E p \in DOMAIN fs : \A q \in DOMAIN fs : Len(q) <= Len(p)
  /\ IsDir(fs, <<>>) /\ IsDir(fs, Root)

\* The text of a path in a request: absolute or not, and its names.
Texts == [abs : BOOLEAN, segs : Seq(Names)]

-----------------------------------------------------------------------------
(* The operating system                                                    *)

\* The places of a path at which a lookup that follows no link ends: what is
\* before is no directory, there is nothing there, or a link.
Stops(fs, p) ==
  {i \in 1..Len(p) :
     LET here == SubSeq(p, 1, i) IN
     ~IsDir(fs, Front(here)) \/ here \notin DOMAIN fs \/ fs[here].kind = "link"}

\* The first of them, or the place after the end.
FirstStop(fs, p) == Min(Stops(fs, p) \cup {Len(p) + 1})

IsLink(fs, p) == p \in DOMAIN fs /\ fs[p].kind = "link"

\* The link where the lookup ends is replaced by what it holds.
HopAt(fs, p, i) ==
  IF i <= Len(p) /\ IsLink(fs, SubSeq(p, 1, i))
    THEN fs[SubSeq(p, 1, i)].to \o SubSeq(p, i + 1, Len(p)) ELSE p

Hop(fs, p) == HopAt(fs, p, FirstStop(fs, p))

LookupAt(fs, p, i) ==
  IF i > Len(p) THEN Found(p)
  ELSE IF IsLink(fs, SubSeq(p, 1, i)) THEN Err("ELOOP")
  ELSE Err(IF IsDir(fs, SubSeq(p, 1, i - 1)) THEN "ENOENT" ELSE "ENOTDIR")

Lookup(fs, p) == LookupAt(fs, p, FirstStop(fs, p))

EvalSymlinks(fs, p) ==
  LET hops[n \in 0..MaxLinks] == IF n = 0 THEN p ELSE Hop(fs, hops[n - 1])
  IN  Lookup(fs, hops[MaxLinks])

Entry(fs, dir, name) ==
  IF ~dir.ok THEN dir
  ELSE IF ~IsDir(fs, dir.at) THEN Err("ENOTDIR")
  ELSE IF Append(dir.at, name) \notin DOMAIN fs THEN Err("ENOENT")
  ELSE Found(Append(dir.at, name))

\* A link at the end is not followed.
Lstat(fs, p) ==
  IF p = <<>> THEN Found(p) ELSE Entry(fs, EvalSymlinks(fs, Front(p)), Last(p))

-----------------------------------------------------------------------------
(* path.go                                                                 *)

\* filepath.Clean of a relative path, name by name; "." is the empty sequence.
Cleaned(done, s) ==
  IF s = "." THEN done
  ELSE IF s = ".." /\ done # <<>> /\ Last(done) # ".." THEN Front(done)
  ELSE Append(done, s)

Clean(segs) ==
  LET clean[n \in 0..Len(segs)] == IF n = 0 THEN <<>> ELSE Cleaned(clean[n - 1], segs[n])
  IN  clean[Len(segs)]

isEscapeRel(cleaned) == Head(cleaned) = ".."

\* MUTANT: the text of the root is a prefix of that of a sibling, too.
MutwithinRoot(p) == Len(p) > 0 /\ Head(p) \in {Head(Root), "root2"}

withinRoot(p) == IsPrefix(Root, p)

pathHadSymlink(fs, p) ==
  \E q \in Prefixes(p) : LET s == Lstat(fs, q) IN s.ok /\ fs[s.at].kind = "link"

Evaluated(fs, p) == IF Lstat(fs, p).ok THEN EvalSymlinks(fs, p) ELSE Lstat(fs, p)

Extended(found, rest) == IF found.ok THEN Found(found.at \o rest) ELSE found

ResolvedAt(fs, p, n) ==
  Extended(Evaluated(fs, SubSeq(p, 1, n)), SubSeq(p, n + 1, Len(p)))

\* The deepest prefix that exists, its links evaluated, and the rest as it is.
resolveExisting(fs, p) ==
  ResolvedAt(fs, p, Max({n \in 0..Len(p) : Lstat(fs, SubSeq(p, 1, n)) # Err("ENOENT")}))

Judged(fs, joined, resolved) ==
  IF ~resolved.ok THEN Err("INVALID_PATH")
  ELSE IF withinRoot(resolved.at) THEN resolved
  ELSE IF pathHadSymlink(fs, joined) THEN Err("SYMLINK_ESCAPE")
  ELSE Err("PATH_OUTSIDE_WORKSPACE")

ResolvePath(fs, req) ==
  LET cleaned == Clean(req.segs) IN
  IF req.abs THEN Err("PATH_OUTSIDE_WORKSPACE")
  ELSE IF cleaned = <<>> THEN Err("INVALID_PATH")
  ELSE IF isEscapeRel(cleaned) THEN Err("PATH_OUTSIDE_WORKSPACE")
  ELSE Judged(fs, Root \o cleaned, resolveExisting(fs, Root \o cleaned))

-----------------------------------------------------------------------------
(* read.go, read_files.go                                                  *)

Utf8(bytes) ==
  \A i \in DOMAIN bytes :
    /\ bytes[i] = "lead" => i < Len(bytes) /\ bytes[i + 1] = "rest"
    /\ bytes[i] = "rest" => i > 1 /\ bytes[i - 1] = "lead"

ReadNode(fs, req, node) ==
  IF ~node.ok
    THEN Err(IF node.err = "ENOENT" THEN "WORKSPACE_FILE_NOT_FOUND" ELSE "INTERNAL_ERROR")
  ELSE IF IsDir(fs, node.at) THEN Err("INVALID_PATH")
  ELSE LET content == fs[node.at].bytes IN
       IF Len(content) > MaxFileBytes THEN Err("FILE_TOO_LARGE")
       ELSE IF ~Utf8(content) THEN Err("INVALID_ARGUMENT")
       ELSE [ok |-> TRUE, path |-> Clean(req.segs), content |-> content]

\* What ResolvePath returns holds no links, so that the second look at a link
\* finds none in a file system that nobody changes meanwhile.
ReadResolved(fs, req, path) ==
  IF path.ok THEN ReadNode(fs, req, Lstat(fs, path.at)) ELSE path

ReadTextFile(fs, req) == ReadResolved(fs, req, ResolvePath(fs, req))

Blank(req) == ~req.abs /\ req.segs = <<>>

ReadFile(fs, req) ==
  IF Blank(req) THEN Err("INVALID_ARGUMENT") ELSE ReadTextFile(fs, req)

Tally(files) ==
  [files |-> files, success |-> Cardinality({i \in DOMAIN files : files[i].ok}),
   failed |-> Cardinality({i \in DOMAIN files : ~files[i].ok})]

ReadTextFiles(fs, reqs) == Tally([i \in DOMAIN reqs |-> ReadFile(fs, reqs[i])])

\* MUTANT: a single failure makes the whole call fail.
MutOverallStatus(r) == IF r.failed = 0 THEN "SUCCESS" ELSE "FAILED"

OverallStatus(r) ==
  IF r.files = <<>> THEN "FAILED"
  ELSE IF r.failed = 0 THEN "SUCCESS"
  ELSE IF r.success = 0 THEN "FAILED" ELSE "PARTIAL"

\* The response of workspace.read_files: the first error stands for them all.
ReadFilesResponse(r) ==
  [status |-> OverallStatus(r), files |-> r.files,
   error  |-> IF OverallStatus(r) = "FAILED" THEN r.files[1].err ELSE "none"]

ReadFiles(fs, reqs) ==
  IF reqs = <<>> THEN [status |-> "FAILED", files |-> <<>>, error |-> "INVALID_ARGUMENT"]
  ELSE ReadFilesResponse(ReadTextFiles(fs, reqs))

-----------------------------------------------------------------------------
(* search.go.  opts: the mode, the names that contain the query, and the   *)
(* directory names that are left out.                                      *)

Rel(p) == SubSeq(p, Len(Root) + 1, Len(p))

Take(s, n) == SubSeq(s, 1, IF n < Len(s) THEN n ELSE Len(s))

\* filepath.WalkDir: the entries that are not directories, links among them.
Below(fs, p, walk) ==
  IF p \notin DOMAIN fs THEN <<>> ELSE IF IsDir(fs, p) THEN walk[p] ELSE <<p>>

WalkIn(fs, exclude, dir, walk) ==
  IF Last(dir) \in exclude THEN <<>>
  ELSE FlattenSeq([i \in DOMAIN NameOrder |-> Below(fs, Append(dir, NameOrder[i]), walk)])

WalkDir(fs, root, exclude) ==
  LET walk[dir \in DOMAIN fs] == WalkIn(fs, exclude, dir, walk) IN walk[root]

LineOf(bytes, i) == 1 + Cardinality({j \in 1..(i - 1) : bytes[j] = "newline"})

Lines(bytes) == {LineOf(bytes, i) : i \in {j \in DOMAIN bytes : bytes[j] = "query"}}

\* The lines with the query, as far as the file is looked at.
searchFileContent(fs, p) ==
  LET target == EvalSymlinks(fs, p)
      file   == fs[target.at]
      scan   == Take(file.bytes, MaxContentScan)
      head   == Take(scan, HeadBytes)
  IN  IF \/ ~target.ok \/ ~withinRoot(target.at) \/ file.kind = "dir"
         \/ Len(file.bytes) > MaxFileBytes
         \/ ~Utf8(head) \/ Contains(head, "nul")
      THEN {} ELSE Lines(scan)

Hit(p, kind, line) == [path |-> Rel(p), kind |-> kind, line |-> line]

Wants(opts, kind) == opts.mode \in {"all", kind}

NameHits(p, opts) ==
  IF Wants(opts, "name") /\ Last(p) \in opts.matching THEN <<Hit(p, "name", 0)>> ELSE <<>>

PathHits(p, opts) ==
  IF Wants(opts, "path") /\ ToSet(Rel(p)) \cap opts.matching # {}
    THEN <<Hit(p, "path", 0)>> ELSE <<>>

\* Line by line, of which the scanner sees no more than bytes.
LineHits(p, lines, opts) ==
  IF ~Wants(opts, "content") THEN <<>>
  ELSE FlattenSeq([l \in 1..MaxContentScan |->
                     IF l \in lines THEN <<Hit(p, "content", l)>> ELSE <<>>])

HitsOf(fs, p, opts) ==
  IF ~ResolvePath(fs, [abs |-> FALSE, segs |-> Rel(p)]).ok THEN <<>>
  ELSE NameHits(p, opts) \o PathHits(p, opts) \o LineHits(p, searchFileContent(fs, p), opts)

\* MUTANT: the result is cut when it is full, though nothing was left out.
MutAdd(out, m) ==
  IF out.truncated THEN out
  ELSE [matches   |-> Append(out.matches, m),
        truncated |-> Len(out.matches) + 1 = MaxResults]

\* SearchResult.add, and SkipAll once it has returned false.
Add(out, m) ==
  IF out.truncated \/ Contains(out.matches, m) THEN out
  ELSE IF Len(out.matches) >= MaxResults THEN [out EXCEPT !.truncated = TRUE]
  ELSE [out EXCEPT !.matches = Append(@, m)]

Results(hits) ==
  LET result[n \in 0..Len(hits)] ==
        IF n = 0 THEN [matches |-> <<>>, truncated |-> FALSE] ELSE Add(result[n - 1], hits[n])
  IN  result[Len(hits)]

Search(fs, opts) ==
  LET files == WalkDir(fs, Root, opts.exclude)
  IN  Results(FlattenSeq([i \in DOMAIN files |-> HitsOf(fs, files[i], opts)]))

-----------------------------------------------------------------------------
(* What the tools promise, in terms of the file system alone.              *)

\* One of the names on the way is there, and leads nowhere.
Stray(fs, path) ==
  \E i \in DOMAIN path :
    Lstat(fs, SubSeq(path, 1, i)).ok /\ ~EvalSymlinks(fs, SubSeq(path, 1, i)).ok

\* Where the longest part of the path that leads somewhere does.
Deepest(fs, path) ==
  LET below == {q \in Prefixes(path) : EvalSymlinks(fs, q).ok}
  IN  EvalSymlinks(fs, CHOOSE q \in below : \A r \in below : Len(r) <= Len(q)).at

\* A read that succeeds returns what the operating system has under that name,
\* and that file lies in the workspace.  A read fails with the reason that
\* holds: the name leaves the workspace by itself or through a link, leads
\* nowhere, or is no text file of the allowed size.  A missing file is only
\* reported missing when its directory is in the workspace; below a file, on a
\* link to nothing, or on a link to itself, the path is invalid.
ReadIsTrue(fs, req, out) ==
  LET path  == Root \o Clean(req.segs)
      real  == EvalSymlinks(fs, path)
      stray == Stray(fs, path)
      inside(p) == IsPrefix(Root, p)
  IN  IF out.ok
        THEN /\ real.ok /\ inside(real.at)
             /\ fs[real.at].kind = "file" /\ fs[real.at].bytes = out.content
        ELSE /\ out.err = "PATH_OUTSIDE_WORKSPACE" <=>
                  req.abs \/ (Clean(req.segs) # <<>> /\ Clean(req.segs)[1] = "..")
             /\ out.err = "SYMLINK_ESCAPE" => ~inside(Deepest(fs, path)) /\ ~stray
             /\ out.err = "WORKSPACE_FILE_NOT_FOUND" =>
                  ~real.ok /\ real.err = "ENOENT" /\ ~stray /\ inside(Deepest(fs, path))
             /\ out.err = "INVALID_PATH" =>
                  \/ Clean(req.segs) = <<>> \/ stray
                  \/ ~real.ok /\ real.err \in {"ENOTDIR", "ELOOP"}
                  \/ real.ok /\ inside(real.at) /\ IsDir(fs, real.at)
             /\ out.err \in {"FILE_TOO_LARGE", "INVALID_ARGUMENT"} =>
                  Blank(req) \/ (real.ok /\ inside(real.at) /\ fs[real.at].kind = "file")
             /\ out.err # "INTERNAL_ERROR"

\* Files are answered in the order asked, each as it would be alone; the call
\* succeeds when all do, fails when none does, and names the first reason.
ReadsAreTrue(fs, reqs, out) ==
  LET good == {i \in DOMAIN out.files : out.files[i].ok} IN
  /\ Len(out.files) = Len(reqs)
  /\ \A i \in DOMAIN reqs : ReadIsTrue(fs, reqs[i], out.files[i])
  /\ out.status = IF good = {} THEN "FAILED" ELSE IF good = DOMAIN reqs THEN "SUCCESS" ELSE "PARTIAL"
  /\ out.error # "none" <=> good = {}

\* The files of the workspace and links into it, outside the directories left out.
Reach(fs, exclude) ==
  {p \in DOMAIN fs :
     /\ IsStrictPrefix(Root, p) /\ ~IsDir(fs, p)
     /\ \A q \in Prefixes(Front(p)) : IsStrictPrefix(Root, q) => Last(q) \notin exclude
     /\ EvalSymlinks(fs, p).ok /\ IsPrefix(Root, EvalSymlinks(fs, p).at)}

\* What there is to find: their names, paths and lines.
TrueHits(fs, opts) ==
  LET reach   == Reach(fs, opts.exclude)
      text(p) == fs[EvalSymlinks(fs, p).at]
  IN  {Hit(p, "name", 0) : p \in {q \in reach : Wants(opts, "name") /\ Last(q) \in opts.matching}}
      \cup {Hit(p, "path", 0) :
              p \in {q \in reach : Wants(opts, "path") /\ ToSet(Rel(q)) \cap opts.matching # {}}}
      \cup UNION {{Hit(p, "content", l) : l \in Lines(text(p).bytes)} :
                    p \in {q \in reach : Wants(opts, "content") /\ text(q).kind = "file"}}

\* The hits in a file that Search does not look for: it is too large, the head
\* is not text or cuts a rune in two, or they lie beyond the scan limit.
Unseen(fs, hit) ==
  LET bytes == fs[EvalSymlinks(fs, Root \o hit.path).at].bytes
      head  == Take(bytes, IF HeadBytes < MaxContentScan THEN HeadBytes ELSE MaxContentScan)
  IN  /\ hit.kind = "content"
      /\ \/ Len(bytes) > MaxFileBytes
         \/ Contains(head, "nul") \/ ~Utf8(bytes)
         \/ head # <<>> /\ Last(head) = "lead"
         \/ hit.line \notin Lines(Take(bytes, MaxContentScan))

\* Search reports hits that are there, each once; if it says that it was not
\* truncated, it has them all but the unseen ones, and if it says so, the result
\* is full and there is another.  A workspace whose own directory has a name
\* that is left out has no hits at all.
SearchIsTrue(fs, opts, out) ==
  LET got == ToSet(out.matches) IN
  /\ got \subseteq TrueHits(fs, opts) /\ Cardinality(got) = Len(out.matches)
  /\ ~out.truncated => \A h \in TrueHits(fs, opts) \ got : Last(Root) \in opts.exclude \/ Unseen(fs, h)
  /\ out.truncated => Len(out.matches) = MaxResults /\ got # TrueHits(fs, opts)
=============================================================================
