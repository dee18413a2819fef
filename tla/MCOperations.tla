---------------------------- MODULE MCOperations ----------------------------
EXTENDS Operations

MCRoot  == <<"root">>
MCOrder == <<"a", "d", "root", "root2", "x">>
MCPlus  == {"++"}
MCMinus == {"--"}
MCCodes == {"INVALID_REQUEST", "INTERNAL_ERROR", "TOOL_NOT_SUPPORTED", "PROCESS_TIMEOUT",
            "PROCESS_CANCELLED", "BUILD_FAILED"}

-----------------------------------------------------------------------------
(* File systems: root holds a, d and d/x; root2 is outside and holds x.    *)

Dir     == [kind |-> "dir"]
File(b) == [kind |-> "file", bytes |-> b]
Link(p) == [kind |-> "link", to |-> p]
Gone    == [kind |-> "gone"]

Outside == <<"root2">>
A       == Append(MCRoot, "a")
D       == Append(MCRoot, "d")
X       == Append(D, "x")

Text == File(<<"query", "newline", "query">>)

Tree(a, d, x, o) ==
  LET all == (<<>> :> Dir) @@ (MCRoot :> Dir) @@ (Outside :> Dir)
             @@ (A :> a) @@ (D :> d) @@ (X :> x) @@ (Append(Outside, "x") :> o)
  IN  [p \in {q \in DOMAIN all : all[q] # Gone} |-> all[p]]

Trees ==
  {Tree(a, d, x, o) :
     a \in {Gone, Text, File(<<"rest">>), File(<<"other", "other", "other", "other", "query">>),
            Link(A), Link(D), Link(X), Link(Outside), Link(Append(Outside, "x")), Link(Append(MCRoot, "x"))},
     d \in {Dir}, x \in {Gone, Text, Link(A), Link(Outside)}, o \in {Gone, Text}}
  \cup {Tree(a, d, Gone, Text) : a \in {Gone, Text, Link(D)}, d \in {Gone, Text, Link(Outside), Link(A)}}

Requests ==
  {[abs |-> FALSE, segs |-> s] : s \in UNION {[1..n -> {"a", "d", "x", ".", ".."}] : n \in 0..3}}
  \cup {[abs |-> TRUE, segs |-> <<"root", "a">>]}

ReadJobs == [op : {"read"}, fs : Trees, req : Requests]

Few == {[abs |-> FALSE, segs |-> s] : s \in {<<>>, <<"a">>, <<"d", "x">>, <<"..">>}}

ReadsJobs == [op : {"reads"}, fs : {t \in Trees : A \in DOMAIN t /\ t[A].kind = "file"},
              reqs : UNION {[1..n -> Few] : n \in 0..2}]

\* All contents of a few bytes in one file, and all trees.
SearchJobs ==
  [op : {"search"}, fs : Trees,
   opts : [mode : {"all", "name", "path", "content"}, matching : {{"a"}, {"d", "x"}},
           exclude : {{}, {"d"}, {"root"}}]]
  \cup [op : {"search"},
        fs : {Tree(File(b), Dir, Gone, Gone) : b \in UNION {[1..n -> Bytes] : n \in 0..5}},
        opts : {[mode |-> "content", matching |-> {}, exclude |-> {}]}]

-----------------------------------------------------------------------------
(* Change sets over two paths.                                             *)

ContentsOver(lines, n) ==
  {c \in [lines : UNION {[1..k -> lines] : k \in 0..n}, newline : BOOLEAN] :
     /\ c.lines = <<>> => ~c.newline
     /\ c.lines # <<>> /\ Last(c.lines) = "" => c.newline}

Change(op, path, content) == [path |-> path, operation |-> op, content |-> content, target |-> 3 - path]

Small == ContentsOver({"", "++"}, 1)

DiffJobs ==
  {[op |-> "diff", old |-> <<o, Empty>>, changes |-> <<Change("MODIFY", 1, n)>>] :
     o, n \in ContentsOver({"x", "y"}, 3) \cup ContentsOver({"x", "", "++", "--"}, 2)}
  \cup {[op |-> "diff", old |-> <<o, Empty>>, changes |-> <<Change(k, 1, n)>>] :
          k \in {"DELETE", "RENAME"}, o, n \in Small}
  \cup {[op |-> "diff", old |-> <<o, Empty>>, changes |-> <<Change("CREATE", 2, n), Change(k, 1, m)>>] :
          k \in {"MODIFY", "DELETE"}, o, n, m \in Small}

-----------------------------------------------------------------------------
(* Messages and chats.                                                     *)

Scope(w) == [workspace |-> w, task |-> ""]

Envelope(type, scope, actor, payload) ==
  [NewEnvelope(type, payload, scope) EXCEPT !.actor = actor]

RequestPayloads ==
  [call : IdForms, tool : {"", "tool"}, args : {"null", "map"},
   options : {Absent} \cup {Some(n) : n \in -2..18}] \cup {Bad}

ResponsePayloads ==
  [call : IdForms, status : Statuses \cup {"", "DONE"}, result : {"", "json"},
   error : {Absent} \cup {Some(e) : e \in [code : {"PROCESS_TIMEOUT", "NO_SUCH_CODE"}, retryable : BOOLEAN]},
   metrics : {Absent, Some(1)}]

MCActors == {Absent} \cup {Some([type |-> t, id |-> "id"]) : t \in {"USER", "IDE", "ROBOT"}}

Envelopes ==
  {Envelope("REQUEST", Scope(""), a, p) : a \in MCActors, p \in RequestPayloads}
  \cup {Envelope("RESPONSE", Scope(""), Absent, p) : p \in ResponsePayloads}
  \cup {Envelope(t, Scope(w), a, [event |-> "json"]) : t \in {"EVENT", "CANCEL", "ACK", "OTHER"}, w \in IdForms, a \in MCActors}

WireJobs == [op : {"wire"}, env : Envelopes]

ServeJobs ==
  [op : {"serve"},
   env : {Envelope(t, Scope(w), Absent, p) :
            t \in {"REQUEST"}, w \in IdForms,
            p \in {q \in RequestPayloads : q = Bad \/ ~q.options.present}}
         \cup {Envelope("EVENT", Scope(""), Absent, [event |-> "json"])}
         \cup {[Envelope("REQUEST", Scope(""), Absent, p) EXCEPT !.protocol = v] :
                 p \in {q \in RequestPayloads : q # Bad /\ q.tool # "" /\ ~q.options.present},
                 v \in [name : {"oncode-tool", "other"}, major : 1..2, minor : 0..1]},
   handler : [kind : {"protoerr", "error", "nil", "unsupported"}, code : {"PROCESS_TIMEOUT"}]
             \cup {[kind |-> "response", status |-> r.status, code |-> r.code, result |-> x, metrics |-> t] :
                      r \in Reported, x \in {"", "json"}, t \in {Absent, Some(1)}}]

Says(empty, newline, item) == [kind |-> "text", empty |-> empty, newline |-> newline, item |-> item]

\* Visible texts: a line, one with its end, two lines, the id of a work item.
\* Invisible ones: spaces, U+0001, U+001F, U+3000, U+00A0.
Line      == Says({}, "none", FALSE)
Visible   == {Says({}, n, FALSE) : n \in {"none", "end", "inside"}} \cup {Says({}, "none", TRUE)}
Invisible == {Says(e, "none", FALSE) : e \in {{"TrimSpace", "trim", "isBlank"}, {"trim"},
                {"trim", "isBlank"}, {"TrimSpace", "isBlank"}, {"TrimSpace"}}}

Leaves     == Visible \cup Invisible \cup {[kind |-> k] : k \in {"null", "number"}}
Object(f)  == [kind |-> "object", at |-> f]
List(a, b) == [kind |-> "list", at |-> ("0" :> a) @@ ("1" :> b)]

Inner  == Leaves \cup {Object("content" :> Line), Object("x" :> Line)}
Middle == Inner \cup {Object(k :> v) : k \in {"source", "x", "current_file"}, v \in Inner}
          \cup {List(Line, v) : v \in Inner}
Outer  == Middle \cup {Object(k :> v) : k \in {"x", "current_file"}, v \in Middle}

Submitted ==
  {Object("message" :> m) : m \in Leaves}
  \cup {Object(("message" :> m) @@ ("work_item_id" :> w) @@ ("ide_context" :> c)) :
          m \in {Line, Says({"trim"}, "none", FALSE)}, w \in Leaves \cup {List(Line, Line)},
          c \in {Object(k :> Line) : k \in {"x", "current_file"}}}
  \cup {Object(("message" :> Line) @@ ("ide_context" :> v)) : v \in Outer}
  \cup {Object(("message" :> Line) @@ (k :> v)) : k \in {"content", "x"}, v \in Middle}
  \cup {Object("ide_context" :> v) : v \in Inner}

ChatJobs == [op : {"chat"}, data : Submitted]

MCJson == Outer \cup Submitted \cup {Answered(d, Line) : d \in Submitted}

RECURSIVE Depth(_)
Depth(v) == IF IsTree(v) THEN 1 + Max({0} \cup {Depth(v.at[k]) : k \in DOMAIN v.at}) ELSE 0

MCNesting == [v \in MCJson |-> Depth(v)]

-----------------------------------------------------------------------------
(* Test logs and git's output.                                             *)

SmallClasses ==
  {c \in [run : {1, 2}, failures : 0..1, errors : 0..1, skipped : 0..1] : c \in Classes}

TestJobs ==
  {j \in [op : {"test"}, classes : UNION {[1..n -> SmallClasses] : n \in 0..2},
          opts : [ignore : BOOLEAN, compiles : BOOLEAN]] :
     (j.classes # <<>> => j.opts.compiles)}

SmallLines ==
  {l \in [x : {" ", "M", "A", "D", "R", "U", "?"}, y : {" ", "M", "D", "U", "?"}, path : {1, 2}] :
     l \in StatusLines /\ ~(l.x = " " /\ l.y = " ")}

StatusJobs == [op : {"status"}, lines : UNION {[1..n -> SmallLines] : n \in 0..2}]

MCJobs == ReadJobs \cup ReadsJobs \cup SearchJobs \cup DiffJobs \cup WireJobs \cup ServeJobs
          \cup ChatJobs \cup TestJobs \cup StatusJobs
=============================================================================
