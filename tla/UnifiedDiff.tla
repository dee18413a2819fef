---------------------------- MODULE UnifiedDiff -----------------------------
(***************************************************************************)
(* The diff the user approves: lcsOps, UnifiedFile, FromProposed, and the  *)
(* test of the Hub for a diff that changes nothing.  The hash of a diff    *)
(* stands for its text, so what two diffs have in common decides what one  *)
(* approval can cover.                                                     *)
(*                                                                         *)
(* A content is its lines and whether the last one ends in a newline.  Of  *)
(* the text of a line only equality matters, and whether it starts with    *)
(* "++" or "--".  Paths are numbers in the order of their names.           *)
(***************************************************************************)
EXTENDS Naturals, Sequences, FiniteSets, SequencesExt

CONSTANTS
  PlusPlus, MinusMinus     \* the lines that start with ++ and with --

Empty == [lines |-> <<>>, newline |-> FALSE]

\* strings.Split at the newlines, less the empty part behind the last one.
splitLines(c) ==
  LET parts == c.lines \o (IF c.newline THEN <<"">> ELSE <<>>)
  IN  IF c = Empty THEN <<>> ELSE IF Last(parts) = "" THEN Front(parts) ELSE parts

\* The lines of a text that ends in a newline do not end in an empty one.
Contents ==
  {c \in [lines : Seq(STRING), newline : BOOLEAN] :
     /\ c.lines = <<>> => ~c.newline
     /\ c.lines # <<>> /\ Last(c.lines) = "" => c.newline}

Op(kind, line) == [kind |-> kind, line |-> line]

\* MUTANT: lines added behind the last common one are left out.
MutlcsOps(a, b) == [i \in DOMAIN a |-> Op(IF i \in DOMAIN b /\ a[i] = b[i] THEN "keep" ELSE "del", a[i])]

\* dp[i][j] is the length of the longest common subsequence of a from i and b
\* from j: row i, made from the row below it.
Row(a, b, i, below) ==
  LET row[j \in 1..(Len(b) + 1)] ==
        IF j > Len(b) THEN 0
        ELSE IF a[i] = b[j] THEN below[j + 1] + 1
        ELSE IF below[j] >= row[j + 1] THEN below[j] ELSE row[j + 1]
  IN  row

Table(a, b) ==
  LET dp[i \in 1..(Len(a) + 1)] ==
        IF i > Len(a) THEN [j \in 1..(Len(b) + 1) |-> 0] ELSE Row(a, b, i, dp[i + 1])
  IN  dp

\* One round of the walk through the table, or of the loops behind it.
Round(a, b, dp, w) ==
  LET Keep == [i |-> w.i + 1, j |-> w.j + 1, ops |-> Append(w.ops, Op("keep", a[w.i]))]
      Del  == [i |-> w.i + 1, j |-> w.j, ops |-> Append(w.ops, Op("del", a[w.i]))]
      Add  == [i |-> w.i, j |-> w.j + 1, ops |-> Append(w.ops, Op("add", b[w.j]))]
  IN  IF w.i > Len(a) /\ w.j > Len(b) THEN w
      ELSE IF w.i > Len(a) THEN Add
      ELSE IF w.j > Len(b) THEN Del
      ELSE IF a[w.i] = b[w.j] THEN Keep
      ELSE IF dp[w.i + 1][w.j] >= dp[w.i][w.j + 1] THEN Del ELSE Add

AtStart == [i |-> 1, j |-> 1, ops |-> <<>>]

Walk(a, b, dp) ==
  LET walk[k \in 0..(Len(a) + Len(b))] ==
        IF k = 0 THEN AtStart ELSE Round(a, b, dp, walk[k - 1])
  IN  walk[Len(a) + Len(b)]

lcsOps(a, b) == Walk(a, b, Table(a, b)).ops

\* The text of one file's diff; "" when both sides are empty.
UnifiedFile(path, old, new) ==
  IF old = Empty /\ new = Empty THEN <<>>
  ELSE <<[path |-> path,
          from |-> IF old = Empty THEN "null" ELSE "a",
          to   |-> IF old # Empty /\ new = Empty THEN "null" ELSE "b",
          body |-> lcsOps(splitLines(old), splitLines(new))]>>

UnifiedJoin(parts) == FlattenSeq(parts)

\* What one change makes of the text of a path.  A RENAME without content keeps
\* the old one.
TextOf(ch, old, p) ==
  IF p = ch.path
    THEN UnifiedFile(p, IF ch.operation = "CREATE" THEN Empty ELSE old[p],
                        IF ch.operation \in {"DELETE", "RENAME"} THEN Empty ELSE ch.content)
  ELSE IF ch.operation = "RENAME" /\ p = ch.target
    THEN UnifiedFile(p, Empty, IF ch.content = Empty THEN old[ch.path] ELSE ch.content)
  ELSE <<>>

TextsAt(changes, old, p) == UnifiedJoin([i \in DOMAIN changes |-> TextOf(changes[i], old, p)])

\* The texts of all changes, sorted by path and joined.
FromProposed(changes, old) == UnifiedJoin([p \in DOMAIN old |-> TextsAt(changes, old, p)])

\* MUTANT: only added lines are looked at.
MutdiffHasContentChange(diff) ==
  \E i \in DOMAIN diff : \E j \in DOMAIN diff[i].body : diff[i].body[j].kind = "add"

\* A line of the text that starts with + or -, but not with +++ or ---.
diffHasContentChange(diff) ==
  \E i \in DOMAIN diff : \E j \in DOMAIN diff[i].body :
    LET op == diff[i].body[j] IN
    \/ op.kind = "add" /\ op.line \notin PlusPlus
    \/ op.kind = "del" /\ op.line \notin MinusMinus

-----------------------------------------------------------------------------
(* What a diff promises                                                    *)

Taken(lines, op, kind) ==
  IF op.kind \in {"keep", kind} THEN Append(lines, op.line) ELSE lines

\* One side of a diff, read back from its text.
Side(body, kind) ==
  LET side[n \in 0..Len(body)] ==
        IF n = 0 THEN <<>> ELSE Taken(side[n - 1], body[n], kind)
  IN  side[Len(body)]

Increasing(f, k) == \A x, y \in 1..k : x < y => f[x] < f[y]

\* a from i and b from j have a subsequence of k lines in common.
Common(a, b, i, j, k) ==
  \E f \in [1..k -> i..Len(a)] :
    /\ Increasing(f, k)
    /\ \E g \in [1..k -> j..Len(b)] : Increasing(g, k) /\ \A x \in 1..k : a[f[x]] = b[g[x]]

\* It leads from the one text to the other, and keeps as many lines as can be.
IsDiffOf(body, a, b) ==
  /\ Side(body, "del") = a /\ Side(body, "add") = b
  /\ \A k \in 0..Len(a) : Common(a, b, 1, 1, k) => k <= Len(Side(body, "keep"))

Touched(ch) == {ch.path} \cup (IF ch.operation = "RENAME" THEN {ch.target} ELSE {})

\* What Propose accepts: no path twice, and nothing where a file is to be made.
IsChangeSet(changes, old) ==
  /\ old \in Seq(Contents)
  /\ changes \in Seq([path : DOMAIN old, target : DOMAIN old, content : Contents,
                       operation : {"CREATE", "MODIFY", "DELETE", "RENAME"}])
  /\ \A i \in DOMAIN changes :
       LET ch == changes[i] IN
       /\ ch.operation = "CREATE" => old[ch.path] = Empty
       /\ ch.operation = "RENAME" => ch.target # ch.path /\ old[ch.target] = Empty
       /\ \A k \in DOMAIN changes \ {i} : Touched(ch) \cap Touched(changes[k]) = {}

\* The contents after the change set: what ApplyChanges writes.
After(changes, old) ==
  LET writes(p) == {i \in DOMAIN changes : changes[i].path = p}
      moves(p)  == {i \in DOMAIN changes : changes[i].operation = "RENAME" /\ changes[i].target = p}
      moved(ch) == IF ch.content = Empty THEN old[ch.path] ELSE ch.content
      written(ch) == IF ch.operation \in {"DELETE", "RENAME"} THEN Empty ELSE ch.content
  IN  [p \in DOMAIN old |->
        IF moves(p) # {} THEN moved(changes[CHOOSE i \in moves(p) : TRUE])
        ELSE IF writes(p) # {} THEN written(changes[CHOOSE i \in writes(p) : TRUE])
        ELSE old[p]]

\* The text of the diff decides the lines of every file before and after: one
\* hash cannot cover two changes, except that it does not tell an empty file
\* from a missing one, nor whether the last line ends in a newline.
DiffDecides(changes, old, diff) ==
  LET new == After(changes, old) IN
  \A p \in DOMAIN old :
    LET here == {x \in DOMAIN diff : diff[x].path = p} IN
    IF here = {} THEN old[p] = new[p]
    ELSE \E x \in here : here = {x} /\ IsDiffOf(diff[x].body, old[p].lines, new[p].lines)

\* A change set the Hub takes for unchanged, and so reports as applied without
\* writing, changes no line of any file, except lines added that start with ++
\* and lines removed that start with --.  One it does not is a change.
UnchangedIsSame(changes, old, diff) ==
  LET new == After(changes, old)
      hidden(p) == /\ ToSet(new[p].lines) \ ToSet(old[p].lines) \subseteq PlusPlus
                   /\ ToSet(old[p].lines) \ ToSet(new[p].lines) \subseteq MinusMinus
                   /\ (ToSet(new[p].lines) \cup ToSet(old[p].lines)) \cap (PlusPlus \cup MinusMinus) # {}
  IN  IF diffHasContentChange(diff)
        THEN \E p \in DOMAIN old : old[p].lines # new[p].lines
        ELSE \A p \in DOMAIN old : old[p].lines = new[p].lines \/ hidden(p)
=============================================================================
