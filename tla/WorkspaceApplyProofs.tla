------------------------ MODULE WorkspaceApplyProofs ------------------------
(***************************************************************************)
(* Proofs about WorkspaceApply, for any number of goroutines, change sets, *)
(* files, faults, edits and crashes.                                       *)
(***************************************************************************)
EXTENDS WorkspaceApply, FiniteSetTheorems, WellFoundedInduction, TLAPS

-----------------------------------------------------------------------------
(* The inductive invariant                                                 *)

Diffs    == UNION {Diff(touched) : touched \in SUBSET Paths}
Excerpts == UNION {[read -> File] : read \in SUBSET Paths}

Proposal == [cs : ChangeSets \cup {None}, base : Seq(File \cup {None}), diff : Diffs,
             applied : BOOLEAN, applying : BOOLEAN]

\* Where a goroutine holds the Registry's lock, and where it answers for a claim.
Locking  == {"locked", "next", "remove", "rename", "rollback"}
Writing  == {"next", "remove", "rename"}
Holding  == Locking \cup {"claimed", "failed"}
Pcs      == Holding \cup {"idle", "fill", "get", "copy", "plan", "finish"}

Local == [pc : Pcs, id : Ids \cup {None}, cs : ChangeSets \cup {None}, rev : Nat,
          base : Seq(File \cup {None}), seen : Seq(Excerpts), diff : Diffs, hash : Diffs,
          todo : SUBSET Paths, backup : Excerpts]

Shapes ==
  /\ disk \in [Paths -> File]
  /\ rev \in Nat
  /\ lock \in Actors \cup {None}
  /\ store \in [Ids -> Proposal]
  /\ shown \subseteq [id : Ids, diff : Diffs]
  /\ actor \in [Actors -> Local]
  /\ puts \in [Ids -> Nat] /\ commits \in [Ids -> Nat] /\ unfinished \in [Ids -> Nat]
  /\ faults \in Nat /\ edits \in Nat /\ crashes \in Nat
  /\ late \subseteq Paths

\* The excerpts Propose has read so far are of the paths its changes touch.
ReadSoFar(me) ==
  /\ Len(me.seen) <= Len(me.cs.changes)
  /\ \A n \in 1 .. Len(me.seen) : DOMAIN me.seen[n] = Touched(me.cs.changes[n])

\* What ApplyChanges has done of its plan: a path is to do, being replaced
\* (and backed up), or in place.
PlanOK(me) ==
  /\ me.todo \subseteq DOMAIN me.diff
  /\ DOMAIN me.backup = (DOMAIN me.diff \ me.todo) \cup
                        (IF me.pc = "next" THEN {} ELSE {Min(me.todo)})
  /\ me.pc # "next" => me.todo # {}

\* ... on files d: but for late edits, backups and what is to do have the content
\* the diff was computed from, what is done the content it leads to.
FilesOK(me, d, edited) ==
  /\ \A p \in DOMAIN me.backup \ edited : me.backup[p] = me.diff[p].old
  /\ \A p \in (me.todo \ DOMAIN me.backup) \ edited : d[p] = me.diff[p].old
  /\ \A p \in (DOMAIN me.diff \ me.todo) \ edited : d[p] = me.diff[p].new

\* What the local variables of a goroutine say at each point of its code.
LocalOK(me) ==
  /\ me.pc # "idle" => me.id \in Ids /\ me.cs \in ChangeSets
  /\ me.pc \in {"idle", "fill", "get", "copy"} => me.seen = <<>>
  /\ me.pc = "plan" => ReadSoFar(me)
  /\ me.pc \notin Writing \cup {"rollback"} => me.backup = <<>>
  /\ me.pc \in Writing => PlanOK(me)
  /\ me.pc \in Locking \cup {"finish"} => me.hash = me.diff

ActorOK(a) ==
  /\ LocalOK(actor[a])
  /\ actor[a].pc \in Locking <=> lock = a
  /\ actor[a].pc \in Holding \cup {"finish"} => [id |-> actor[a].id, diff |-> actor[a].hash] \in shown
  /\ actor[a].pc \in Writing => FilesOK(actor[a], disk, late)
  /\ actor[a].pc = "rollback" => faults > 0

ActorsOK == \A a \in Actors : ActorOK(a)

\* Without edits during an apply nothing is ever late.
LateOK == ~EditsDuringApply => late = {}

\* The goroutines that hold a claim for an id, and the claim still to be had.
Holders(id) == {a \in Actors : actor[a].id = id /\ actor[a].pc \in Holding}
Free(p) == IF Claimable(p) THEN 1 ELSE 0

\* A proposal stored is one claim, free or held or spent; a failed FinishApply
\* makes one more.
ClaimsCount ==
  \A id \in Ids : commits[id] + Cardinality(Holders(id)) + Free(store[id]) <= puts[id] + unfinished[id]

IInv == Shapes /\ ActorsOK /\ LateOK /\ ClaimsCount

-----------------------------------------------------------------------------
(* The operators the actions are built from                                *)

\* The paths ApplyChanges sorts have a first one, and a rollback has a newest
\* backup: a finite set of numbers has a least and a greatest member.
LEMMA Extremes ==
  ASSUME NEW S \in SUBSET Paths, S # {}
  PROVE  Min(S) \in S /\ Max(S) \in S
<1> DEFINE least(T) == \E x \in T : \A y \in T : x =< y
           most(T)  == \E x \in T : \A y \in T : x >= y
           bad == {T \in FiniteSubsetsOf(Paths) : T # {} /\ ~(least(T) /\ most(T))}
<1>1. S \in FiniteSubsetsOf(Paths)
  BY WorkspaceAssumption, FS_Subset DEF FiniteSubsetsOf
<1>2. bad = {}
  <2> SUFFICES ASSUME bad # {} PROVE FALSE
    OBVIOUS
  <2>1. bad \subseteq FiniteSubsetsOf(Paths)
    OBVIOUS
  <2> HIDE DEF bad
  <2>2. PICK T \in bad : \A U \in bad : ~(<<U, T>> \in StrictSubsetOrdering(Paths))
    BY <2>1, FS_StrictSubsetOrderingWellFounded, WFMin
  <2>3. T \subseteq Paths /\ T \subseteq Nat /\ IsFiniteSet(T) /\ T # {} /\ ~(least(T) /\ most(T))
    BY WorkspaceAssumption DEF bad, FiniteSubsetsOf
  <2>4. PICK x \in T : TRUE
    BY <2>3
  <2> DEFINE U == T \ {x}
  <2>5. CASE U = {}
    <3>1. T = {x}
      BY <2>4, <2>5
    <3> QED
      BY <2>3, <3>1
  <2>6. CASE U # {}
    <3>1. U \in FiniteSubsetsOf(Paths)
      BY <2>3, FS_RemoveElement DEF FiniteSubsetsOf
    <3>2. <<U, T>> \in StrictSubsetOrdering(Paths)
      BY <2>3, <2>4 DEF StrictSubsetOrdering
    <3>3. least(U) /\ most(U)
      BY <2>2, <2>6, <3>1, <3>2 DEF bad
    <3>4. PICK l \in U : \A y \in U : l =< y
      BY <3>3
    <3>5. PICK m \in U : \A y \in U : m >= y
      BY <3>3
    <3>6. least(T)
      BY <2>3, <2>4, <3>4
    <3>7. most(T)
      BY <2>3, <2>4, <3>5
    <3> QED
      BY <2>3, <3>6, <3>7
  <2> QED
    BY <2>5, <2>6
<1>3. least(S) /\ most(S)
  BY <1>1, <1>2
<1> QED
  BY <1>3 DEF Min, Max

\* A backup or an excerpt is of some of the paths.
LEMMA ExcerptIs ==
  \A f : f \in Excerpts <=> DOMAIN f \subseteq Paths /\ f \in [DOMAIN f -> File]
BY DEF Excerpts

\* A diff says of some of the paths what they held and what they will.
LEMMA DiffIs ==
  \A f : f \in Diffs <=> DOMAIN f \subseteq Paths /\ f \in [DOMAIN f -> [old : File, new : File]]
<1> DEFINE Side == [old : File, new : File]
<1>1. Diffs = UNION {[touched -> Side] : touched \in SUBSET Paths}
  BY DEF Diffs, Diff
<1> HIDE DEF Side
<1> SUFFICES \A f : f \in Diffs <=> DOMAIN f \subseteq Paths /\ f \in [DOMAIN f -> Side]
  BY DEF Side
<1> QED
  BY <1>1

\* Nothing read, nothing changed, nothing backed up.
LEMMA EmptyIs == <<>> \in Excerpts /\ <<>> \in Diffs /\ DOMAIN <<>> = {}
<1> DEFINE Side == [old : File, new : File]
<1> HIDE DEF Side
<1>1. DOMAIN <<>> = {} /\ <<>> \in [{} -> File] /\ <<>> \in [{} -> Side]
  OBVIOUS
<1> QED
  BY <1>1, ExcerptIs, DiffIs DEF Side

\* An excerpt of no path is the empty one.
LEMMA NoExcerpt ==
  ASSUME NEW f \in Excerpts
  PROVE  f = <<>> <=> DOMAIN f = {}
BY ExcerptIs

\* ApplyChanges adds the content of the path it comes to.
LEMMA BackupWith ==
  ASSUME NEW b \in Excerpts, NEW p \in Paths, NEW c \in File
  PROVE  /\ With(b, p, c) \in Excerpts
         /\ DOMAIN With(b, p, c) = DOMAIN b \cup {p}
         /\ With(b, p, c)[p] = c
         /\ \A q \in DOMAIN b \ {p} : With(b, p, c)[q] = b[q]
<1>1. DOMAIN b \subseteq Paths /\ \A q \in DOMAIN b : b[q] \in File
  BY ExcerptIs
<1> QED
  BY <1>1, ExcerptIs DEF With

\* rollback drops a backup once it is written back.
LEMMA BackupWithout ==
  ASSUME NEW b \in Excerpts, NEW p \in Paths
  PROVE  /\ Without(b, p) \in Excerpts
         /\ DOMAIN Without(b, p) = DOMAIN b \ {p}
         /\ \A q \in DOMAIN b \ {p} : Without(b, p)[q] = b[q]
<1>1. DOMAIN b \subseteq Paths /\ \A q \in DOMAIN b : b[q] \in File
  BY ExcerptIs
<1> QED
  BY <1>1, ExcerptIs DEF Without

\* The part of a diff that Propose computes for one change: old is what it read.
LEMMA PartIs ==
  ASSUME NEW cs \in ChangeSets, NEW n \in DOMAIN cs.changes, NEW d,
         \A p \in Touched(cs.changes[n]) : d[p] \in File
  PROVE  /\ DOMAIN Part(cs.changes[n], d) = Touched(cs.changes[n])
         /\ Touched(cs.changes[n]) \subseteq Paths
         /\ \A p \in Touched(cs.changes[n]) :
              /\ Part(cs.changes[n], d)[p] \in [old : File, new : File]
              /\ Part(cs.changes[n], d)[p].old = d[p]
<1> DEFINE change == cs.changes[n]
<1>1. ValidChangeSet(cs)
  BY WorkspaceAssumption
<1>2. change \in Change /\ (change.op = "RENAME" => change.target # None)
  BY <1>1 DEF ValidChangeSet
<1> HIDE DEF change
<1>3. Touched(change) \subseteq Paths /\ change.path \in Touched(change)
  BY <1>2 DEF Touched, Change
<1>4. d[change.path] \in File /\ change.content \in Contents \cup {None}
  BY <1>2, <1>3 DEF Change, change
<1> DEFINE content == IF change.content = None THEN d[change.path] ELSE change.content
<1>5. content \in File
  BY <1>4 DEF File
<1>6. Part(change, d) = [p \in Touched(change) |->
                           [old |-> d[p], new |-> IF Removes(change, p) THEN Gone ELSE content]]
  BY DEF Part
<1> HIDE DEF content
<1>7. ASSUME NEW p \in Touched(change)
      PROVE  /\ Part(change, d)[p] \in [old : File, new : File]
             /\ Part(change, d)[p].old = d[p]
  <2>1. Gone \in File /\ d[p] \in File
    BY DEF File, change
  <2> QED
    BY <1>5, <1>6, <2>1
<1> QED
  BY <1>3, <1>6, <1>7 DEF change

\* The n-th change of cs was looked up on files ds[n] ...
LookedUp(cs, ds) ==
  \A n \in DOMAIN cs.changes : \A p \in Touched(cs.changes[n]) : ds[n][p] \in File

\* ... and diff says of each path what was read there.
OldIsRead(cs, ds, diff) ==
  \A p \in DOMAIN diff : \E n \in DOMAIN cs.changes :
    p \in Touched(cs.changes[n]) /\ diff[p].old = ds[n][p]

\* The diff of a change set that was looked up on the files ds: old is what was
\* read of the path.
LEMMA DiffOfIs ==
  ASSUME NEW cs \in ChangeSets, NEW ds, LookedUp(cs, ds)
  PROVE  DiffOf(cs.changes, ds) \in Diffs /\ OldIsRead(cs, ds, DiffOf(cs.changes, ds))
<1> DEFINE changes == cs.changes
           parts == {Part(changes[n], ds[n]) : n \in DOMAIN changes}
           dom == UNION {DOMAIN part : part \in parts}
           diff == DiffOf(changes, ds)
<1>1. diff = [p \in dom |-> (CHOOSE part \in parts : p \in DOMAIN part)[p]]
  BY DEF DiffOf
<1>2. ASSUME NEW part \in parts, NEW p \in DOMAIN part
      PROVE  /\ p \in Paths
             /\ part[p] \in [old : File, new : File]
             /\ \E n \in DOMAIN changes : p \in Touched(changes[n]) /\ part[p].old = ds[n][p]
  <2>1. PICK n \in DOMAIN changes : part = Part(changes[n], ds[n])
    OBVIOUS
  <2>2. \A q \in Touched(changes[n]) : ds[n][q] \in File
    BY DEF LookedUp
  <2>3. /\ DOMAIN part = Touched(changes[n])
        /\ Touched(changes[n]) \subseteq Paths
        /\ \A q \in Touched(changes[n]) : part[q] \in [old : File, new : File] /\ part[q].old = ds[n][q]
    BY <2>1, <2>2, PartIs
  <2> QED
    BY <2>3
<1> HIDE DEF parts, diff
<1>3. ASSUME NEW p \in dom
      PROVE  \E part \in parts : p \in DOMAIN part /\ diff[p] = part[p]
  <2>1. \E part \in parts : p \in DOMAIN part
    OBVIOUS
  <2> DEFINE part == CHOOSE part \in parts : p \in DOMAIN part
  <2>2. part \in parts /\ p \in DOMAIN part
    BY <2>1
  <2>3. diff[p] = part[p]
    BY <1>1
  <2> HIDE DEF part
  <2> QED
    BY <2>2, <2>3
<1>4. DOMAIN diff = dom
  BY <1>1
<1> HIDE DEF dom
<1>5. ASSUME NEW p \in dom
      PROVE  /\ p \in Paths
             /\ diff[p] \in [old : File, new : File]
             /\ \E n \in DOMAIN changes : p \in Touched(changes[n]) /\ diff[p].old = ds[n][p]
  BY <1>2, <1>3
<1>6. diff \in [dom -> [old : File, new : File]]
  BY <1>1, <1>5
<1> QED
  BY <1>4, <1>5, <1>6, DiffIs DEF diff, OldIsRead

-----------------------------------------------------------------------------
(* The local variables of a goroutine                                      *)

\* What a goroutine works on is what it worked on before.
Same(q, r) ==
  /\ q.id = r.id /\ q.cs = r.cs /\ q.rev = r.rev /\ q.base = r.base
  /\ q.seen = r.seen /\ q.diff = r.diff /\ q.hash = r.hash

\* The goroutine goes on to pc.
LEMMA GoesOn ==
  ASSUME NEW r \in Local, NEW pc \in Pcs, NEW q, q = [r EXCEPT !.pc = pc]
  PROVE  /\ q \in Local /\ Same(q, r)
         /\ q.pc = pc /\ q.todo = r.todo /\ q.backup = r.backup
BY DEF Local, Same

\* ... with other paths to do,
WithTodo(r, pc, todo) == [r EXCEPT !.pc = pc, !.todo = todo]

\* as ApplyChanges does when it starts on the files or is done with one,
LEMMA GoesOnTodo ==
  ASSUME NEW r \in Local, NEW pc \in Pcs, NEW todo \in SUBSET Paths,
         NEW q, q = WithTodo(r, pc, todo)
  PROVE  /\ q \in Local /\ Same(q, r)
         /\ q.pc = pc /\ q.todo = todo /\ q.backup = r.backup
<1> DEFINE m == [r EXCEPT !.pc = pc]
<1>1. m \in Local /\ Same(m, r) /\ m.pc = pc /\ m.backup = r.backup
  BY GoesOn
<1>2. q = [m EXCEPT !.todo = todo]
  BY DEF WithTodo
<1> HIDE DEF m
<1> QED
  BY <1>1, <1>2 DEF Local, Same

\* ... or with other backups,
WithBackup(r, pc, backup) == [r EXCEPT !.pc = pc, !.backup = backup]

\* as it does before it replaces a file and when it rolls back.
LEMMA GoesOnBackup ==
  ASSUME NEW r \in Local, NEW pc \in Pcs, NEW backup \in Excerpts,
         NEW q, q = WithBackup(r, pc, backup)
  PROVE  /\ q \in Local /\ Same(q, r)
         /\ q.pc = pc /\ q.todo = r.todo /\ q.backup = backup
<1> DEFINE m == [r EXCEPT !.pc = pc]
<1>1. m \in Local /\ Same(m, r) /\ m.pc = pc /\ m.todo = r.todo
  BY GoesOn
<1>2. q = [m EXCEPT !.backup = backup]
  BY DEF WithBackup
<1> HIDE DEF m
<1> QED
  BY <1>1, <1>2 DEF Local, Same

\* A goroutine that has returned.
LEMMA IdleIs ==
  /\ Idle \in Local /\ LocalOK(Idle) /\ Idle.pc = "idle" /\ Idle.backup = <<>>
<1>1. <<>> \in Seq(File \cup {None}) /\ <<>> \in Seq(Excerpts) /\ {} \in SUBSET Paths
  OBVIOUS
<1>2. Idle \in Local
  BY <1>1, EmptyIs DEF Idle, Local, Pcs
<1>3. Idle.pc = "idle" /\ Idle.seen = <<>> /\ Idle.backup = <<>>
  BY DEF Idle
<1>4. LocalOK(Idle)
  BY <1>3 DEF LocalOK, Writing, Locking
<1> QED
  BY <1>2, <1>3, <1>4

\* Where a goroutine is in its code.
LEMMA PcIs ==
  /\ Writing \subseteq Locking /\ Locking \subseteq Holding /\ Holding \subseteq Pcs
  /\ "idle" \notin Holding \cup {"finish"}
BY DEF Writing, Locking, Holding, Pcs

-----------------------------------------------------------------------------
(* What a step of one goroutine leaves alone                               *)

\* A goroutine that does not move is not disturbed by one that does: only the
\* holder of the lock, and the user, write files.
LEMMA OthersStay ==
  ASSUME IInv, Shapes', NEW b \in Actors, actor'[b] = actor[b],
         shown \subseteq shown', faults' >= faults,
         lock' = b <=> lock = b,
         lock = b => disk' = disk /\ late' = late
  PROVE  ActorOK(b)'
<1>1. ActorOK(b)
  BY DEF IInv, ActorsOK
<1>2. actor[b].pc \in Writing => disk' = disk /\ late' = late
  BY <1>1, PcIs DEF ActorOK
<1>3. faults \in Nat /\ faults' \in Nat
  BY DEF IInv, Shapes
<1> QED
  BY <1>1, <1>2, <1>3 DEF ActorOK

\* The same for all of them.
LEMMA ActorStep ==
  ASSUME IInv, Shapes', NEW a \in Actors, NEW new, actor' = [actor EXCEPT ![a] = new],
         shown \subseteq shown', faults' >= faults,
         \A b \in Actors : b # a => (lock' = b <=> lock = b) /\ (lock = b => disk' = disk /\ late' = late),
         ActorOK(a)'
  PROVE  ActorsOK'
<1>1. \A b \in Actors : b # a => actor'[b] = actor[b]
  BY DEF IInv, Shapes
<1>2. ASSUME NEW b \in Actors PROVE ActorOK(b)'
  <2>1. CASE b = a
    BY <2>1
  <2>2. CASE b # a
    BY <1>1, <2>2, OthersStay
  <2> QED
    BY <2>1, <2>2
<1> QED
  BY <1>2 DEF ActorsOK

\* Whether a goroutine answers for a claim on id, as a number.
Holds(me, id) == IF me.id = id /\ me.pc \in Holding THEN 1 ELSE 0

\* A step of one goroutine takes at most its own claim, or gives it back.
LEMMA HoldersStep ==
  ASSUME IInv, NEW a \in Actors, NEW new, actor' = [actor EXCEPT ![a] = new], NEW id \in Ids
  PROVE  /\ Cardinality(Holders(id)) \in Nat /\ Cardinality(Holders(id)') \in Nat
         /\ Cardinality(Holders(id)') + Holds(actor[a], id) = Cardinality(Holders(id)) + Holds(new, id)
<1> DEFINE H == Holders(id)
           K == Holders(id)'
<1>1. actor \in [Actors -> Local]
  BY DEF IInv, Shapes
<1>2. H \subseteq Actors /\ IsFiniteSet(H)
  BY WorkspaceAssumption, FS_Subset DEF Holders
<1>3. a \in H <=> Holds(actor[a], id) = 1
  BY DEF Holders, Holds
<1>4. K = IF Holds(new, id) = 1 THEN H \cup {a} ELSE H \ {a}
  BY <1>1 DEF Holders, Holds
<1>5. Cardinality(H) \in Nat
  BY <1>2, FS_CardinalityType
<1>6. Holds(new, id) \in {0, 1} /\ Holds(actor[a], id) \in {0, 1}
  BY DEF Holds
<1> HIDE DEF H, K
<1>7. /\ Cardinality(H \cup {a}) = IF a \in H THEN Cardinality(H) ELSE Cardinality(H) + 1
      /\ Cardinality(H \ {a}) = IF a \in H THEN Cardinality(H) - 1 ELSE Cardinality(H)
      /\ IsFiniteSet(H \cup {a}) /\ IsFiniteSet(H \ {a})
  BY <1>2, FS_AddElement, FS_RemoveElement
<1>8. Cardinality(K) \in Nat
  BY <1>4, <1>7, FS_CardinalityType
<1>9. Cardinality(K) + Holds(actor[a], id) = Cardinality(H) + Holds(new, id)
  <2>1. CASE Holds(new, id) = 1
    BY <1>3, <1>4, <1>5, <1>6, <1>7, <2>1
  <2>2. CASE Holds(new, id) # 1
    BY <1>3, <1>4, <1>5, <1>6, <1>7, <2>2
  <2> QED
    BY <2>1, <2>2
<1> QED
  BY <1>5, <1>8, <1>9 DEF H, K

\* A step that takes and gives no claim keeps the count.
LEMMA CountStays ==
  ASSUME IInv, Shapes', NEW a \in Actors, NEW new, actor' = [actor EXCEPT ![a] = new],
         UNCHANGED <<store, puts, commits, unfinished>>,
         \A id \in Ids : Holds(new, id) = Holds(actor[a], id)
  PROVE  ClaimsCount'
<1> SUFFICES ASSUME NEW id \in Ids
             PROVE  commits[id] + Cardinality(Holders(id)') + Free(store[id]) <= puts[id] + unfinished[id]
  BY DEF ClaimsCount, Free, Claimable
<1>1. /\ Cardinality(Holders(id)) \in Nat /\ Cardinality(Holders(id)') \in Nat
      /\ Cardinality(Holders(id)') + Holds(actor[a], id) = Cardinality(Holders(id)) + Holds(new, id)
  BY HoldersStep
<1>2. Holds(actor[a], id) \in {0, 1} /\ Holds(new, id) = Holds(actor[a], id)
  BY DEF Holds
<1>3. Cardinality(Holders(id)') = Cardinality(Holders(id))
  BY <1>1, <1>2
<1> QED
  BY <1>3 DEF IInv, ClaimsCount

\* The excerpts, plan and claim of one goroutine may change and the files under
\* its lock; the proposals do not.
LEMMA Moves ==
  ASSUME IInv, NEW a \in Actors, NEW new \in Local, LocalOK(new),
         actor' = [actor EXCEPT ![a] = new],
         UNCHANGED <<rev, store, shown, puts, commits, unfinished, edits, crashes>>,
         disk' \in [Paths -> File], faults' \in Nat, faults' >= faults, late' \in {late, {}},
         lock' \in {lock, a, None},
         new.pc \in Locking <=> lock' = a,
         lock \notin {a, None} => lock' = lock /\ disk' = disk /\ late' = late,
         \A id \in Ids : Holds(new, id) = Holds(actor[a], id),
         new.pc \in Holding \cup {"finish"} => [id |-> new.id, diff |-> new.hash] \in shown,
         new.pc \in Writing => FilesOK(new, disk', late'),
         new.pc = "rollback" => faults' > 0
  PROVE  IInv'
<1>1. Shapes'
  BY DEF IInv, Shapes
<1>2. ActorOK(a)'
  <2>1. actor'[a] = new
    BY DEF IInv, Shapes
  <2>2. LocalOK(actor'[a]) /\ (actor'[a].pc \in Locking <=> lock' = a)
    BY <2>1
  <2>3. actor'[a].pc \in Holding \cup {"finish"} => [id |-> actor'[a].id, diff |-> actor'[a].hash] \in shown'
    BY <2>1
  <2>4. actor'[a].pc \in Writing => FilesOK(actor'[a], disk', late')
    BY <2>1
  <2>5. actor'[a].pc = "rollback" => faults' > 0
    BY <2>1
  <2> QED
    BY <2>2, <2>3, <2>4, <2>5 DEF ActorOK
<1>3. ActorsOK'
  <2>1. ASSUME NEW b \in Actors, b # a
        PROVE  (lock' = b <=> lock = b) /\ (lock = b => disk' = disk /\ late' = late)
    BY <2>1, WorkspaceAssumption
  <2>2. shown \subseteq shown'
    OBVIOUS
  <2> QED
    BY <1>1, <1>2, <2>1, <2>2, ActorStep
<1>4. LateOK'
  BY DEF IInv, LateOK
<1>5. ClaimsCount'
  BY <1>1, CountStays
<1> QED
  BY <1>1, <1>3, <1>4, <1>5 DEF IInv

\* What the invariant says of the goroutine that takes the step.
LEMMA Before ==
  ASSUME IInv, NEW a \in Actors
  PROVE  /\ actor[a] \in Local /\ LocalOK(actor[a])
         /\ actor[a].pc \in Locking <=> lock = a
         /\ disk \in [Paths -> File] /\ faults \in Nat /\ late \subseteq Paths
BY DEF IInv, Shapes, ActorsOK, ActorOK

\* Propose works on its own variables and takes no claim.
LEMMA Proposes ==
  ASSUME IInv, NEW a \in Actors, NEW new \in Local, LocalOK(new),
         actor' = [actor EXCEPT ![a] = new],
         actor[a].pc \notin Holding, new.pc \notin Holding \cup {"finish"},
         UNCHANGED <<disk, rev, lock, store, shown, puts, commits, unfinished, environment>>
  PROVE  IInv'
<1>1. lock # a /\ disk \in [Paths -> File] /\ faults \in Nat
  BY Before, PcIs
<1>2. UNCHANGED <<disk, rev, lock, store, shown, puts, commits, unfinished, faults, edits, crashes, late>>
  BY DEF environment
<1>3. new.pc \notin Locking /\ new.pc \notin Writing /\ new.pc # "rollback"
  BY PcIs DEF Locking
<1>4. \A id \in Ids : Holds(new, id) = Holds(actor[a], id)
  BY DEF Holds
<1>5. UNCHANGED <<rev, store, shown, puts, commits, unfinished, edits, crashes>>
  BY <1>2
<1>6. /\ disk' \in [Paths -> File] /\ faults' \in Nat /\ faults' >= faults /\ late' \in {late, {}}
      /\ lock' \in {lock, a, None} /\ (new.pc \in Locking <=> lock' = a)
      /\ lock' = lock /\ disk' = disk /\ late' = late
  BY <1>1, <1>2, <1>3
<1> QED
  BY <1>3, <1>4, <1>5, <1>6, Moves

-----------------------------------------------------------------------------
(* Propose                                                                 *)

\* A change set that was validated has changes.
LEMMA ChangesAre ==
  ASSUME NEW cs \in ChangeSets
  PROVE  /\ cs # None /\ cs.changes \in Seq(Change) /\ Len(cs.changes) \in Nat
         /\ DOMAIN cs.changes = 1 .. Len(cs.changes)
         /\ \A n \in DOMAIN cs.changes : cs.changes[n].path \in Paths /\ Touched(cs.changes[n]) \subseteq Paths
<1>1. ValidChangeSet(cs) /\ cs # None
  BY WorkspaceAssumption
<1>2. cs.changes \in Seq(Change)
  BY <1>1 DEF ValidChangeSet
<1>3. ASSUME NEW n \in DOMAIN cs.changes
      PROVE  cs.changes[n].path \in Paths /\ Touched(cs.changes[n]) \subseteq Paths
  <2>1. cs.changes[n] \in Change /\ (cs.changes[n].op = "RENAME" => cs.changes[n].target # None)
    BY <1>1, <1>2 DEF ValidChangeSet
  <2> QED
    BY <2>1 DEF Change, Touched
<1> QED
  BY <1>1, <1>2, <1>3

\* BeginPropose.
LEMMA BeginProposeInv ==
  ASSUME IInv, NEW a \in Actors, NEW id \in Ids, NEW cs \in ChangeSets, BeginPropose(a, id, cs)
  PROVE  IInv'
<1> DEFINE new == [Idle EXCEPT !.pc = "fill", !.id = id, !.cs = cs]
<1>1. /\ new.pc = "fill" /\ new.id = id /\ new.cs = cs
      /\ new.seen = <<>> /\ new.backup = <<>>
  BY DEF Idle
<1>2. new \in Local
  <2> DEFINE m == [Idle EXCEPT !.pc = "fill"]
             k == [m EXCEPT !.id = id]
  <2>1. m \in Local
    BY IdleIs, GoesOn DEF Pcs
  <2> HIDE DEF m
  <2>2. k \in Local
    BY <2>1 DEF Local
  <2>3. new = [k EXCEPT !.cs = cs]
    BY DEF m
  <2> HIDE DEF k
  <2> QED
    BY <2>2, <2>3 DEF Local
<1>3. actor' = [actor EXCEPT ![a] = new] /\ actor[a].pc = "idle"
  BY DEF BeginPropose, Step, At
<1>4. UNCHANGED <<disk, rev, lock, store, shown, puts, commits, unfinished, environment>>
  BY DEF BeginPropose
<1> HIDE DEF new
<1>5. LocalOK(new)
  BY <1>1 DEF LocalOK, Writing, Locking
<1>6. actor[a].pc \notin Holding /\ new.pc \notin Holding \cup {"finish"}
  BY <1>1, <1>3 DEF Holding, Locking
<1> QED
  BY <1>2, <1>3, <1>4, <1>5, <1>6, Proposes

\* fillBaseHashes and Registry.Get: nothing is planned yet.
LEMMA Looks ==
  ASSUME IInv, NEW a \in Actors, NEW new \in Local, new.pc \in {"fill", "get", "copy", "plan"},
         new.id = actor[a].id, new.cs = actor[a].cs, new.seen = actor[a].seen, new.backup = actor[a].backup,
         actor' = [actor EXCEPT ![a] = new], actor[a].pc \in {"fill", "get", "copy"},
         UNCHANGED <<disk, rev, lock, store, shown, puts, commits, unfinished, environment>>
  PROVE  IInv'
<1>1. LocalOK(actor[a])
  BY Before
<1>2. /\ new.id \in Ids /\ new.cs \in ChangeSets /\ new.seen = <<>> /\ new.backup = <<>>
  BY <1>1 DEF LocalOK, Writing
<1>3. ReadSoFar(new)
  BY <1>2, ChangesAre DEF ReadSoFar
<1>4. LocalOK(new)
  BY <1>2, <1>3 DEF LocalOK, Writing, Locking
<1>5. actor[a].pc \notin Holding /\ new.pc \notin Holding \cup {"finish"}
  BY DEF Holding, Locking
<1> QED
  BY <1>4, <1>5, Proposes

\* A goroutine that returns and held no claim.
LEMMA Returns ==
  ASSUME IInv, NEW a \in Actors, actor' = [actor EXCEPT ![a] = Idle], actor[a].pc \notin Holding,
         UNCHANGED <<disk, rev, lock, store, shown, puts, commits, unfinished, environment>>
  PROVE  IInv'
BY IdleIs, PcIs, Proposes

\* Fill.
LEMMA FillInv ==
  ASSUME IInv, NEW a \in Actors, Fill(a)
  PROVE  IInv'
<1> DEFINE me == actor[a]
           n == Len(me.base) + 1
           changes == me.cs.changes
           found == disk[changes[n].path]
<1>1. me \in Local /\ me.pc = "fill" /\ me.cs \in ChangeSets /\ disk \in [Paths -> File]
  BY Before DEF Fill, At, LocalOK
<1>2. UNCHANGED <<disk, rev, lock, store, shown, puts, commits, unfinished, environment>>
  BY DEF Fill
<1>3. CASE n > Len(changes)
  <2> DEFINE pc == IF a \in ToolCalls THEN "get" ELSE "plan"
             new == [me EXCEPT !.pc = pc]
  <2>1. actor' = [actor EXCEPT ![a] = new]
    BY <1>3 DEF Fill, Step
  <2>2. pc \in {"get", "plan"} /\ pc \in Pcs
    BY DEF Pcs
  <2>3. new \in Local /\ Same(new, me) /\ new.pc = pc /\ new.backup = me.backup
    BY <1>1, <2>2, GoesOn
  <2> HIDE DEF new, pc
  <2> QED
    BY <1>1, <1>2, <2>1, <2>2, <2>3, Looks DEF Same
<1>4. CASE ~(n > Len(changes)) /\ NeedsBase(changes[n]) /\ found = Gone
  <2>1. actor' = [actor EXCEPT ![a] = Idle]
    BY <1>4 DEF Fill, Step
  <2>2. actor[a].pc \notin Holding
    BY <1>1 DEF Holding, Locking
  <2> QED
    BY <1>2, <2>1, <2>2, Returns
<1>5. CASE ~(n > Len(changes)) /\ ~(NeedsBase(changes[n]) /\ found = Gone)
  <2> DEFINE hash == IF NeedsBase(changes[n]) THEN found ELSE None
             new == [me EXCEPT !.base = Append(me.base, hash)]
  <2>1. actor' = [actor EXCEPT ![a] = new]
    BY <1>5 DEF Fill, Step
  <2>2. me.base \in Seq(File \cup {None})
    BY <1>1 DEF Local
  <2>3. n \in DOMAIN changes
    BY <1>1, <1>5, <2>2, ChangesAre
  <2>4. hash \in File \cup {None}
    BY <1>1, <2>3, ChangesAre
  <2> HIDE DEF hash
  <2>5. Append(me.base, hash) \in Seq(File \cup {None})
    BY <2>2, <2>4
  <2>6. new \in Local
    BY <1>1, <2>5 DEF Local
  <2>7. /\ new.pc = "fill" /\ new.id = me.id /\ new.cs = me.cs
        /\ new.seen = me.seen /\ new.backup = me.backup
    BY <1>1 DEF Local
  <2> HIDE DEF new
  <2> QED
    BY <1>1, <1>2, <2>1, <2>6, <2>7, Looks
<1> QED
  BY <1>3, <1>4, <1>5

\* GetAgain.
LEMMA GetAgainInv ==
  ASSUME IInv, NEW a \in Actors, GetAgain(a)
  PROVE  IInv'
<1> DEFINE new == [actor[a] EXCEPT !.pc = "copy"]
<1>1. actor' = [actor EXCEPT ![a] = new] /\ actor[a].pc = "get"
  BY DEF GetAgain, Step, At
<1>2. UNCHANGED <<disk, rev, lock, store, shown, puts, commits, unfinished, environment>>
  BY DEF GetAgain
<1>3. new \in Local /\ Same(new, actor[a]) /\ new.pc = "copy" /\ new.backup = actor[a].backup
  BY Before, GoesOn DEF Pcs
<1> HIDE DEF new
<1> QED
  BY <1>1, <1>2, <1>3, Looks DEF Same

\* CopyRecord.
LEMMA CopyRecordInv ==
  ASSUME IInv, NEW a \in Actors, CopyRecord(a)
  PROVE  IInv'
<1> DEFINE m == [actor[a] EXCEPT !.pc = "plan"]
           new == [m EXCEPT !.rev = rev]
<1>1. actor' = [actor EXCEPT ![a] = new] /\ actor[a].pc = "copy"
  BY DEF CopyRecord, Step, At
<1>2. UNCHANGED <<disk, rev, lock, store, shown, puts, commits, unfinished, environment>>
  BY DEF CopyRecord
<1> rev \in Nat
  BY DEF IInv, Shapes
<1>3. m \in Local /\ Same(m, actor[a]) /\ m.pc = "plan" /\ m.backup = actor[a].backup
  BY Before, GoesOn DEF Pcs
<1> HIDE DEF m
<1>4. /\ new \in Local /\ new.pc = "plan" /\ new.id = m.id /\ new.cs = m.cs
      /\ new.seen = m.seen /\ new.backup = m.backup
  BY <1>3 DEF Local
<1> HIDE DEF new
<1> QED
  BY <1>1, <1>2, <1>3, <1>4, Looks DEF Same

\* Plan: Propose reads the paths of the next change.
LEMMA PlanInv ==
  ASSUME IInv, NEW a \in Actors, Plan(a)
  PROVE  IInv'
<1> DEFINE me == actor[a]
           n == Len(me.seen) + 1
           changes == me.cs.changes
           read == [p \in Touched(changes[n]) |-> disk[p]]
           seen == Append(me.seen, read)
           new == [me EXCEPT !.seen = seen]
<1>1. /\ me \in Local /\ me.pc = "plan" /\ me.cs \in ChangeSets /\ disk \in [Paths -> File]
      /\ ReadSoFar(me) /\ LocalOK(me)
  BY Before DEF Plan, At, LocalOK
<1>2. UNCHANGED <<disk, rev, lock, store, shown, puts, commits, unfinished, environment>>
  BY DEF Plan
<1>3. actor' = [actor EXCEPT ![a] = new] /\ n <= Len(changes)
  BY DEF Plan, Step
<1>4. me.seen \in Seq(Excerpts)
  BY <1>1 DEF Local
<1>5. n \in DOMAIN changes /\ Touched(changes[n]) \subseteq Paths
  BY <1>1, <1>3, <1>4, ChangesAre
<1>6. read \in Excerpts /\ DOMAIN read = Touched(changes[n])
  BY <1>1, <1>5, ExcerptIs
<1> HIDE DEF read
<1>7. /\ seen \in Seq(Excerpts) /\ Len(seen) = n /\ seen[n] = read
      /\ \A i \in 1 .. Len(me.seen) : seen[i] = me.seen[i]
  BY <1>4, <1>6
<1> HIDE DEF seen
<1>8. /\ new \in Local /\ new.pc = "plan" /\ new.id = me.id /\ new.cs = me.cs
      /\ new.seen = seen /\ new.backup = me.backup
  BY <1>1, <1>7 DEF Local
<1>9. ReadSoFar(new)
  <2>1. Len(new.seen) <= Len(new.cs.changes)
    BY <1>3, <1>7, <1>8
  <2>2. ASSUME NEW i \in 1 .. Len(new.seen)
        PROVE  DOMAIN new.seen[i] = Touched(new.cs.changes[i])
    <3>1. i \in 1 .. Len(me.seen) \/ i = n
      BY <1>4, <1>7, <1>8
    <3> QED
      BY <1>1, <1>6, <1>7, <1>8, <3>1 DEF ReadSoFar
  <2> QED
    BY <2>1, <2>2 DEF ReadSoFar
<1> HIDE DEF new
<1>10. LocalOK(new)
  BY <1>1, <1>8, <1>9 DEF LocalOK, Writing, Locking
<1>11. me.pc \notin Holding /\ new.pc \notin Holding \cup {"finish"}
  BY <1>1, <1>8 DEF Holding, Locking
<1> QED
  BY <1>2, <1>3, <1>8, <1>10, <1>11, Proposes

\* The goroutine me becomes new, and the count of the one change set id it
\* works on gains no more than its allowance.
Balanced(me, new, id) ==
  /\ \A x \in Ids \ {id} : /\ store'[x] = store[x] /\ puts'[x] = puts[x]
                           /\ commits'[x] = commits[x] /\ unfinished'[x] = unfinished[x]
                           /\ Holds(new, x) = Holds(me, x)
  /\ commits'[id] + Holds(new, id) + Free(store'[id]) + puts[id] + unfinished[id]
       <= commits[id] + Holds(me, id) + Free(store[id]) + puts'[id] + unfinished'[id]

\* A step that spends, frees, adds or takes a claim on one change set keeps the
\* count when it does for that change set.
LEMMA CountStep ==
  ASSUME IInv, Shapes', NEW a \in Actors, NEW new, actor' = [actor EXCEPT ![a] = new],
         NEW id \in Ids, Balanced(actor[a], new, id)
  PROVE  ClaimsCount'
<1> SUFFICES ASSUME NEW x \in Ids
             PROVE  commits'[x] + Cardinality(Holders(x)') + Free(store'[x]) <= puts'[x] + unfinished'[x]
  BY DEF ClaimsCount
<1>1. /\ Cardinality(Holders(x)) \in Nat /\ Cardinality(Holders(x)') \in Nat
      /\ Cardinality(Holders(x)') + Holds(actor[a], x) = Cardinality(Holders(x)) + Holds(new, x)
  BY HoldersStep
<1>2. Holds(actor[a], x) \in {0, 1} /\ Holds(new, x) \in {0, 1}
  BY DEF Holds
<1>3. Free(store[x]) \in {0, 1} /\ Free(store'[x]) \in {0, 1}
  BY DEF Free
<1>4. commits[x] + Cardinality(Holders(x)) + Free(store[x]) <= puts[x] + unfinished[x]
  BY DEF IInv, ClaimsCount
<1>5. /\ commits[x] \in Nat /\ commits'[x] \in Nat /\ puts[x] \in Nat /\ puts'[x] \in Nat
      /\ unfinished[x] \in Nat /\ unfinished'[x] \in Nat
  BY DEF IInv, Shapes
<1>6. CASE x = id
  <2>1. commits'[x] + Holds(new, x) + Free(store'[x]) + puts[x] + unfinished[x]
          <= commits[x] + Holds(actor[a], x) + Free(store[x]) + puts'[x] + unfinished'[x]
    BY <1>6 DEF Balanced
  <2> QED
    BY <2>1, <1>1, <1>2, <1>3, <1>4, <1>5
<1>7. CASE x # id
  BY <1>1, <1>2, <1>4, <1>5, <1>7 DEF Balanced
<1> QED
  BY <1>6, <1>7

-----------------------------------------------------------------------------
(* The proposals stored                                                    *)

\* What Propose computes from the excerpts it read is a diff.
LEMMA StoredIs ==
  ASSUME IInv, NEW a \in Actors, actor[a].pc = "plan", Len(actor[a].seen) = Len(actor[a].cs.changes)
  PROVE  /\ Stored(a) \in Proposal
         /\ Stored(a).cs # None /\ ~Stored(a).applied /\ ~Stored(a).applying
<1> DEFINE me == actor[a]
           changes == me.cs.changes
           diff == DiffOf(changes, me.seen)
<1>1. me \in Local /\ me.cs \in ChangeSets /\ ReadSoFar(me)
  BY Before DEF LocalOK
<1>2. me.seen \in Seq(Excerpts) /\ me.base \in Seq(File \cup {None})
  BY <1>1 DEF Local
<1>3. ASSUME NEW n \in DOMAIN changes, NEW p \in Touched(changes[n])
      PROVE  me.seen[n][p] \in File
  <2>1. n \in 1 .. Len(me.seen)
    BY <1>1, ChangesAre
  <2>2. me.seen[n] \in Excerpts /\ DOMAIN me.seen[n] = Touched(changes[n])
    BY <1>1, <1>2, <2>1 DEF ReadSoFar
  <2> QED
    BY <2>2, ExcerptIs
<1>4. diff \in Diffs
  <2>1. LookedUp(me.cs, me.seen)
    BY <1>3 DEF LookedUp
  <2> QED
    BY <1>1, <2>1, DiffOfIs
<1>5. Stored(a) = [cs |-> me.cs, base |-> me.base, diff |-> diff, applied |-> FALSE, applying |-> FALSE]
  BY DEF Stored
<1> HIDE DEF diff
<1>6. me.cs # None
  BY <1>1, ChangesAre
<1> QED
  BY <1>1, <1>2, <1>4, <1>5, <1>6 DEF Proposal

\* Put: what it replaces may be a claim in flight, and it adds one that is free.
LEMMA PutInv ==
  ASSUME IInv, NEW a \in Actors, Put(a)
  PROVE  IInv'
<1> DEFINE me == actor[a]
           ok == Proposable(me.cs, me.base, me.seen, me.rev)
           new == Stored(a)
<1>1. me.pc = "plan" /\ Len(me.seen) = Len(me.cs.changes) /\ actor' = [actor EXCEPT ![a] = Idle]
  BY DEF Put, At, Step
<1>2. UNCHANGED <<disk, rev, lock, commits, unfinished, faults, edits, crashes, late>>
  BY DEF Put, environment
<1>3. me.pc \notin Holding
  BY <1>1 DEF Holding, Locking
<1>4. CASE ~ok
  <2>1. UNCHANGED <<store, shown, puts>>
    BY <1>4 DEF Put
  <2>2. UNCHANGED <<disk, rev, lock, store, shown, puts, commits, unfinished, environment>>
    BY <1>2, <2>1 DEF environment
  <2> QED
    BY <1>1, <1>3, <2>2, Returns
<1>5. CASE ok
  <2>1. /\ store' = [store EXCEPT ![me.id] = new]
        /\ shown' = shown \cup {[id |-> me.id, diff |-> new.diff]}
        /\ puts' = [puts EXCEPT ![me.id] = @ + 1]
    BY <1>5 DEF Put
  <2>2. new \in Proposal /\ new.cs # None /\ ~new.applied /\ ~new.applying
    BY <1>1, StoredIs
  <2> HIDE DEF new
  <2>3. me.id \in Ids /\ new.diff \in Diffs /\ lock # a
    BY <1>1, <1>3, <2>2, Before, PcIs DEF LocalOK, Proposal
  <2>4. Shapes'
    <3>1. actor' \in [Actors -> Local]
      BY <1>1, IdleIs DEF IInv, Shapes
    <3>2. shown' \subseteq [id : Ids, diff : Diffs]
      BY <2>1, <2>3 DEF IInv, Shapes
    <3> QED
      BY <1>2, <2>1, <2>2, <2>3, <3>1, <3>2 DEF IInv, Shapes
  <2>5. ActorOK(a)'
    <3>1. actor'[a] = Idle
      BY <1>1 DEF IInv, Shapes
    <3> QED
      BY <1>2, <2>3, <3>1, IdleIs, PcIs DEF ActorOK
  <2>6. ActorsOK'
    <3>1. shown \subseteq shown' /\ faults' >= faults
      BY <1>2, <2>1, Before
    <3> QED
      BY <1>1, <1>2, <2>4, <2>5, <3>1, ActorStep
  <2>7. LateOK'
    BY <1>2 DEF IInv, LateOK
  <2>8. ClaimsCount'
    <3>1. \A x \in Ids : Holds(Idle, x) = 0 /\ Holds(me, x) = 0
      BY <1>3, IdleIs, PcIs DEF Holds
    <3>2. puts'[me.id] = puts[me.id] + 1 /\ store'[me.id] = new
      BY <2>1, <2>3 DEF IInv, Shapes
    <3>3. Free(new) = 1 /\ Free(store[me.id]) \in {0, 1}
      BY <2>2 DEF Free, Claimable
    <3>4. \A x \in Ids \ {me.id} : store'[x] = store[x] /\ puts'[x] = puts[x]
      BY <2>1 DEF IInv, Shapes
    <3>5. commits[me.id] \in Nat /\ puts[me.id] \in Nat /\ unfinished[me.id] \in Nat
      BY <2>3 DEF IInv, Shapes
    <3>6. Balanced(me, Idle, me.id)
      BY <1>2, <2>3, <3>1, <3>2, <3>3, <3>4, <3>5 DEF Balanced
    <3> QED
      BY <1>1, <2>3, <2>4, <3>6, CountStep
  <2> QED
    BY <2>4, <2>6, <2>7, <2>8 DEF IInv
<1> QED
  BY <1>4, <1>5

\* ClaimForApply takes the one free claim.
LEMMA ClaimInv ==
  ASSUME IInv, NEW a \in Actors, NEW request \in shown, Claim(a, request)
  PROVE  IInv'
<1> DEFINE id == request.id
           p == store[id]
           taken == [p EXCEPT !.applying = TRUE]
           new == [Idle EXCEPT !.pc = "claimed", !.id = id, !.cs = p.cs,
                               !.base = p.base, !.diff = p.diff, !.hash = request.diff]
<1>1. /\ actor[a].pc = "idle" /\ Claimable(p) /\ actor' = [actor EXCEPT ![a] = new]
      /\ store' = [store EXCEPT ![id].applying = TRUE]
  BY DEF Claim, At, Step
<1>2. UNCHANGED <<disk, rev, lock, shown, puts, commits, unfinished, faults, edits, crashes, late>>
  BY DEF Claim, environment
<1>3. id \in Ids /\ request.diff \in Diffs /\ p \in Proposal /\ request = [id |-> id, diff |-> request.diff]
  BY DEF IInv, Shapes
<1>4. p.cs \in ChangeSets /\ p.base \in Seq(File \cup {None}) /\ p.diff \in Diffs
  BY <1>1, <1>3 DEF Claimable, Proposal
<1>5. /\ new.pc = "claimed" /\ new.id = id /\ new.cs = p.cs /\ new.hash = request.diff
      /\ new.backup = <<>>
  BY DEF Idle
<1>6. new \in Local
  <2> DEFINE k1 == [Idle EXCEPT !.pc = "claimed"]
             k2 == [k1 EXCEPT !.id = id]
             k3 == [k2 EXCEPT !.cs = p.cs]
             k4 == [k3 EXCEPT !.base = p.base]
             k5 == [k4 EXCEPT !.diff = p.diff]
  <2>1. new = [k5 EXCEPT !.hash = request.diff]
    OBVIOUS
  <2> HIDE DEF k5
  <2>2. k5 \in Local => new \in Local
    BY <1>3, <2>1 DEF Local
  <2> USE DEF k5
  <2> HIDE DEF k4
  <2>3. k4 \in Local => k5 \in Local
    BY <1>4 DEF Local
  <2> USE DEF k4
  <2> HIDE DEF k3
  <2>4. k3 \in Local => k4 \in Local
    BY <1>4 DEF Local
  <2> USE DEF k3
  <2> HIDE DEF k2
  <2>5. k2 \in Local => k3 \in Local
    BY <1>4 DEF Local
  <2> USE DEF k2
  <2> HIDE DEF k1
  <2>6. k1 \in Local => k2 \in Local
    BY <1>3 DEF Local
  <2> USE DEF k1
  <2>7. k1 \in Local
    BY IdleIs, GoesOn DEF Pcs, Holding
  <2> HIDE DEF k1, k2, k3, k4, k5, new
  <2> QED
    BY <2>2, <2>3, <2>4, <2>5, <2>6, <2>7
<1>7. taken \in Proposal /\ store' = [store EXCEPT ![id] = taken] /\ Free(taken) = 0
  BY <1>1, <1>3 DEF Proposal, Free, Claimable
<1> HIDE DEF new, taken
<1>8. LocalOK(new) /\ new.pc \in Holding /\ new.pc \notin Locking /\ actor[a].pc \notin Holding
  BY <1>1, <1>3, <1>4, <1>5 DEF LocalOK, Writing, Holding, Locking
<1>9. Shapes'
  <2>1. actor' \in [Actors -> Local] /\ store' \in [Ids -> Proposal]
    BY <1>1, <1>3, <1>6, <1>7 DEF IInv, Shapes
  <2> QED
    BY <1>2, <2>1 DEF IInv, Shapes
<1>10. ActorOK(a)'
  <2>1. actor'[a] = new /\ lock # a
    BY <1>1, <1>8, Before, PcIs DEF IInv, Shapes
  <2>2. [id |-> new.id, diff |-> new.hash] \in shown'
    BY <1>2, <1>3, <1>5
  <2> QED
    BY <1>2, <1>5, <1>8, <2>1, <2>2, PcIs DEF ActorOK
<1>11. ActorsOK'
  <2>1. shown \subseteq shown' /\ faults' >= faults
    BY <1>2, Before
  <2> QED
    BY <1>1, <1>2, <1>9, <1>10, <2>1, ActorStep
<1>12. LateOK'
  BY <1>2 DEF IInv, LateOK
<1>13. ClaimsCount'
  <2>1. \A x \in Ids : Holds(actor[a], x) = 0 /\ Holds(new, x) = IF x = id THEN 1 ELSE 0
    BY <1>5, <1>8 DEF Holds
  <2>2. store'[id] = taken /\ Free(store[id]) = 1
    BY <1>1, <1>3, <1>7 DEF IInv, Shapes, Free
  <2>3. \A x \in Ids \ {id} : store'[x] = store[x]
    BY <1>7 DEF IInv, Shapes
  <2>4. commits[id] \in Nat /\ puts[id] \in Nat /\ unfinished[id] \in Nat
    BY <1>3 DEF IInv, Shapes
  <2>5. Balanced(actor[a], new, id)
    BY <1>2, <1>3, <1>7, <2>1, <2>2, <2>3, <2>4 DEF Balanced
  <2> HIDE DEF id, p
  <2> QED
    BY <1>1, <1>3, <1>9, <2>5, CountStep
<1> QED
  BY <1>9, <1>11, <1>12, <1>13 DEF IInv

-----------------------------------------------------------------------------
(* ApplyChanges                                                            *)

\* What the invariant says of a goroutine that answers for a claim.
LEMMA Claimed ==
  ASSUME IInv, NEW a \in Actors, actor[a].pc \in Holding \cup {"finish"}
  PROVE  /\ actor[a] \in Local /\ LocalOK(actor[a])
         /\ actor[a].id \in Ids /\ actor[a].cs \in ChangeSets
         /\ actor[a].pc \in Locking <=> lock = a
         /\ [id |-> actor[a].id, diff |-> actor[a].hash] \in shown
         /\ actor[a].pc \in Writing => PlanOK(actor[a]) /\ FilesOK(actor[a], disk, late)
         /\ actor[a].pc = "rollback" => faults > 0
<1>1. ActorOK(a) /\ LocalOK(actor[a]) /\ actor[a] \in Local
  BY DEF IInv, ActorsOK, ActorOK, Shapes
<1>2. actor[a].pc # "idle"
  BY PcIs
<1> QED
  BY <1>1, <1>2 DEF ActorOK, LocalOK

\* The goroutine that holds the lock goes on with its work, or gives it up.
LEMMA WorksOn ==
  ASSUME IInv, NEW a \in Actors, NEW new \in Local, LocalOK(new), Same(new, actor[a]),
         actor' = [actor EXCEPT ![a] = new],
         UNCHANGED <<rev, store, shown, puts, commits, unfinished, edits, crashes>>,
         disk' \in [Paths -> File], faults' \in Nat, faults' >= faults, late' \in {late, {}},
         actor[a].pc \in Locking,
         \/ new.pc \in Locking /\ lock' = lock
         \/ new.pc = "failed" /\ lock' = None,
         new.pc \in Writing => FilesOK(new, disk', late'),
         new.pc = "rollback" => faults' > 0
  PROVE  IInv'
<1>1. lock = a /\ [id |-> actor[a].id, diff |-> actor[a].hash] \in shown
  BY PcIs, Claimed
<1>2. new.pc \in Holding /\ actor[a].pc \in Holding
  BY PcIs DEF Holding
<1>3. \A id \in Ids : Holds(new, id) = Holds(actor[a], id)
  BY <1>2 DEF Holds, Same
<1>4. [id |-> new.id, diff |-> new.hash] \in shown
  BY <1>1 DEF Same
<1>5. None \notin Actors /\ "failed" \notin Locking
  BY WorkspaceAssumption DEF Locking
<1>6. lock' \in {lock, a, None} /\ (new.pc \in Locking <=> lock' = a) /\ lock \in {a, None}
  BY <1>1, <1>5
<1> HIDE DEF LocalOK
<1> QED
  BY <1>3, <1>4, <1>6, Moves

\* A goroutine whose approved_diff_hash does not match gives up; the others
\* wait for the lock.
LEMMA LockInv ==
  ASSUME IInv, NEW a \in Actors, Lock(a)
  PROVE  IInv'
<1> DEFINE me == actor[a]
           pc == IF me.hash # me.diff THEN "failed" ELSE "locked"
           new == [me EXCEPT !.pc = pc]
<1>1. /\ me.pc = "claimed" /\ actor' = [actor EXCEPT ![a] = new]
      /\ IF me.hash # me.diff THEN lock' = lock ELSE lock = None /\ lock' = a
  BY DEF Lock, At, Step
<1>2. UNCHANGED <<disk, rev, store, shown, puts, commits, unfinished, faults, edits, crashes, late>>
  BY DEF Lock, environment
<1>3. pc \in Pcs /\ pc \in Holding /\ me.pc \in Holding /\ me.pc \notin Locking /\ pc \notin Writing
  BY <1>1 DEF Pcs, Holding, Locking, Writing
<1>4. /\ me \in Local /\ LocalOK(me) /\ lock # a /\ me.id \in Ids /\ me.cs \in ChangeSets
      /\ [id |-> me.id, diff |-> me.hash] \in shown /\ me.backup = <<>>
  <2>1. me \in Local /\ LocalOK(me) /\ lock # a /\ me.id \in Ids /\ me.cs \in ChangeSets
        /\ [id |-> me.id, diff |-> me.hash] \in shown
    BY <1>3, Claimed
  <2> QED
    BY <1>1, <2>1 DEF LocalOK, Writing
<1>5. new \in Local /\ Same(new, me) /\ new.pc = pc /\ new.backup = me.backup
  BY <1>3, <1>4, GoesOn
<1> HIDE DEF new
<1>6. LocalOK(new)
  BY <1>4, <1>5 DEF LocalOK, Same, Writing, Locking
<1>7. \A id \in Ids : Holds(new, id) = Holds(me, id)
  BY <1>3, <1>5 DEF Holds, Same
<1>8. /\ lock' \in {lock, a, None} /\ (new.pc \in Locking <=> lock' = a)
      /\ (lock \notin {a, None} => lock' = lock)
  BY <1>1, <1>4, <1>5 DEF Locking
<1>9. disk' \in [Paths -> File] /\ faults' \in Nat /\ faults' >= faults
  BY <1>2, Before
<1>10. [id |-> new.id, diff |-> new.hash] \in shown /\ new.pc \notin Writing /\ new.pc # "rollback"
  BY <1>3, <1>4, <1>5 DEF Same
<1> QED
  BY <1>1, <1>2, <1>5, <1>6, <1>7, <1>8, <1>9, <1>10, Moves

\* Revalidation: where Propose finds the same diff again, every path still has
\* the content the diff was computed from.
LEMMA RevalidateInv ==
  ASSUME IInv, NEW a \in Actors, Revalidate(a)
  PROVE  IInv'
<1> DEFINE me == actor[a]
<1>1. me.pc = "locked" /\ me.pc \in Locking /\ me.pc \in Holding
  BY PcIs DEF Revalidate, At, Locking
<1>2. /\ UNCHANGED <<disk, rev, store, shown, puts, commits, unfinished, faults, edits, crashes>>
      /\ late' = {}
  BY DEF Revalidate
<1>3. /\ me \in Local /\ LocalOK(me) /\ me.id \in Ids /\ me.cs \in ChangeSets
      /\ disk \in [Paths -> File] /\ faults \in Nat
  BY <1>1, Claimed, Before
<1>4. me.diff \in Diffs /\ me.backup = <<>> /\ me.hash = me.diff
  BY <1>1, <1>3 DEF LocalOK, Writing, Local
<1>5. disk' \in [Paths -> File] /\ faults' \in Nat /\ faults' >= faults /\ late' \in {late, {}}
  BY <1>2, <1>3
<1>6. CASE StillApplies(a)
  <2> DEFINE todo == DOMAIN me.diff
             new == [me EXCEPT !.pc = "next", !.todo = todo]
             now == [n \in DOMAIN me.cs.changes |-> disk]
  <2>1. actor' = [actor EXCEPT ![a] = new] /\ lock' = lock
    BY <1>6 DEF Revalidate, Step
  <2>2. "next" \in Pcs /\ "next" \in Locking /\ "next" \in Writing /\ todo \in SUBSET Paths
    BY <1>4, DiffIs DEF Pcs, Holding, Locking, Writing
  <2>3. new \in Local /\ Same(new, me) /\ new.pc = "next" /\ new.todo = todo /\ new.backup = me.backup
    <3>1. new = WithTodo(me, "next", todo)
      BY DEF WithTodo
    <3> HIDE DEF new, me, todo
    <3> QED
      BY <1>3, <2>2, <3>1, GoesOnTodo
  <2> HIDE DEF new
  <2>4. DOMAIN new.backup = {} /\ new.diff = me.diff
    BY <1>4, <2>3, EmptyIs DEF Same
  <2>5. PlanOK(new)
    BY <2>3, <2>4 DEF PlanOK
  <2>6. LocalOK(new)
    BY <1>3, <1>4, <2>3, <2>5 DEF LocalOK, Same, Writing, Locking
  <2>7. LookedUp(me.cs, now)
    BY <1>3, ChangesAre DEF LookedUp
  <2>8. OldIsRead(me.cs, now, me.diff)
    <3>1. DiffOf(me.cs.changes, now) = me.diff
      BY <1>6 DEF StillApplies
    <3> HIDE DEF now
    <3>2. OldIsRead(me.cs, now, DiffOf(me.cs.changes, now))
      BY <1>3, <2>7, DiffOfIs
    <3> QED
      BY <3>1, <3>2
  <2>9. \A p \in todo : disk[p] = me.diff[p].old
    BY <2>8 DEF OldIsRead
  <2>10. FilesOK(new, disk', late')
    BY <1>2, <2>3, <2>4, <2>9 DEF FilesOK
  <2> QED
    BY <1>1, <1>2, <1>5, <2>1, <2>2, <2>3, <2>6, <2>10, WorksOn
<1>7. CASE ~StillApplies(a)
  <2> DEFINE new == [me EXCEPT !.pc = "failed"]
  <2>1. actor' = [actor EXCEPT ![a] = new] /\ lock' = None
    BY <1>7 DEF Revalidate, Step
  <2>2. new \in Local /\ Same(new, me) /\ new.pc = "failed" /\ new.backup = me.backup
    BY <1>3, GoesOn DEF Pcs, Holding
  <2> HIDE DEF new
  <2>3. LocalOK(new)
    BY <1>3, <1>4, <2>2 DEF LocalOK, Same, Writing, Locking
  <2>4. new.pc \notin Writing /\ new.pc # "rollback"
    BY <2>2 DEF Writing
  <2> QED
    BY <1>1, <1>2, <1>5, <2>1, <2>2, <2>3, <2>4, WorksOn
<1> QED
  BY <1>6, <1>7

\* What a goroutine that writes knows of the path it is at.
LEMMA AtCurrent ==
  ASSUME IInv, NEW a \in Actors, actor[a].pc \in Writing, actor[a].todo # {}
  PROVE  /\ Current(a) \in actor[a].todo /\ Current(a) \in Paths
         /\ actor[a].todo \subseteq DOMAIN actor[a].diff /\ actor[a].todo \subseteq Paths
         /\ actor[a].diff[Current(a)].new \in File
         /\ disk[Current(a)] \in File
<1>1. actor[a] \in Local /\ PlanOK(actor[a]) /\ disk \in [Paths -> File]
  BY PcIs, Claimed, Before
<1>2. actor[a].todo \in SUBSET Paths /\ actor[a].diff \in Diffs
  BY <1>1 DEF Local
<1>3. Current(a) \in actor[a].todo /\ actor[a].todo \subseteq DOMAIN actor[a].diff
  BY <1>1, <1>2, Extremes DEF Current, PlanOK
<1> DEFINE Side == [old : File, new : File]
<1>4. actor[a].diff[Current(a)] \in Side
  <2>1. actor[a].diff \in [DOMAIN actor[a].diff -> Side]
    BY <1>2, DiffIs
  <2> HIDE DEF Side
  <2> QED
    BY <1>3, <2>1
<1> QED
  BY <1>1, <1>2, <1>3, <1>4

\* The next path is backed up as it is.
LEMMA BackupInv ==
  ASSUME IInv, NEW a \in Actors, Backup(a)
  PROVE  IInv'
<1> DEFINE me == actor[a]
           cur == Current(a)
           backup == With(me.backup, cur, disk[cur])
           new == [me EXCEPT !.pc = "remove", !.backup = backup]
<1>1. me.pc = "next" /\ me.todo # {} /\ actor' = [actor EXCEPT ![a] = new]
  BY DEF Backup, At, Step
<1>2. UNCHANGED <<disk, rev, lock, store, shown, puts, commits, unfinished, faults, edits, crashes, late>>
  BY DEF Backup, environment
<1>3. me.pc \in Writing /\ me.pc \in Locking /\ me.pc \in Holding
  BY <1>1, PcIs DEF Writing
<1>4. /\ cur \in me.todo /\ cur \in Paths /\ me.todo \subseteq DOMAIN me.diff /\ disk[cur] \in File
      /\ cur = Min(me.todo)
  BY <1>1, <1>3, AtCurrent DEF Current
<1>5. me \in Local /\ LocalOK(me) /\ PlanOK(me) /\ FilesOK(me, disk, late)
  BY <1>3, Claimed
<1>6. DOMAIN me.backup = DOMAIN me.diff \ me.todo
  BY <1>1, <1>5 DEF PlanOK
<1> HIDE DEF cur
<1>7. /\ backup \in Excerpts /\ DOMAIN backup = DOMAIN me.backup \cup {cur} /\ backup[cur] = disk[cur]
      /\ \A q \in DOMAIN me.backup \ {cur} : backup[q] = me.backup[q]
  <2>1. me.backup \in Excerpts
    BY <1>5 DEF Local
  <2> QED
    BY <1>4, <2>1, BackupWith
<1> HIDE DEF backup
<1>8. new \in Local /\ Same(new, me) /\ new.pc = "remove" /\ new.todo = me.todo /\ new.backup = backup
  <2>1. new = WithBackup(me, "remove", backup) /\ "remove" \in Pcs
    BY DEF WithBackup, Pcs, Holding, Locking
  <2> HIDE DEF new, me
  <2> QED
    BY <1>5, <1>7, <2>1, GoesOnBackup
<1> HIDE DEF new
<1>9. PlanOK(new)
  <2>1. DOMAIN new.backup = (DOMAIN me.diff \ me.todo) \cup {Min(me.todo)}
    BY <1>4, <1>6, <1>7, <1>8
  <2> QED
    BY <1>1, <1>4, <1>8, <2>1 DEF PlanOK, Same
<1>10. FilesOK(new, disk, late)
  BY <1>4, <1>5, <1>6, <1>7, <1>8 DEF FilesOK, Same
<1>11. LocalOK(new)
  BY <1>1, <1>3, <1>5, <1>8, <1>9 DEF LocalOK, Same, Writing, Locking
<1>12. new.pc \in Locking
  BY <1>8 DEF Locking
<1>13. /\ disk' \in [Paths -> File] /\ faults' \in Nat /\ faults' >= faults /\ late' \in {late, {}}
       /\ FilesOK(new, disk', late') /\ new.pc # "rollback" /\ lock' = lock
  BY <1>2, <1>8, <1>10, Before
<1> QED
  BY <1>1, <1>2, <1>3, <1>8, <1>11, <1>12, <1>13, WorksOn

\* A path is in place once it holds what the diff leads to.
LEMMA PlacesOne ==
  ASSUME IInv, NEW a \in Actors, actor[a].pc \in {"remove", "rename"},
         disk' = [disk EXCEPT ![Current(a)] = actor[a].diff[Current(a)].new],
         actor' = [actor EXCEPT ![a] =
                     WithTodo(actor[a], "next", actor[a].todo \ {Current(a)})],
         UNCHANGED <<rev, lock, store, shown, puts, commits, unfinished, environment>>
  PROVE  IInv'
<1> DEFINE me == actor[a]
           cur == Current(a)
           todo == me.todo \ {cur}
           new == WithTodo(me, "next", todo)
<1>1. me.pc \in Writing /\ me.pc \in Locking /\ me.pc \in Holding /\ me.pc # "next"
  BY PcIs DEF Writing
<1>2. me \in Local /\ LocalOK(me) /\ PlanOK(me) /\ FilesOK(me, disk, late)
  BY <1>1, Claimed
<1>3. me.todo # {}
  BY <1>1, <1>2 DEF PlanOK
<1>4. /\ cur \in me.todo /\ cur \in Paths /\ me.todo \subseteq DOMAIN me.diff /\ me.todo \subseteq Paths
      /\ me.diff[cur].new \in File /\ cur = Min(me.todo)
  BY <1>1, <1>3, AtCurrent DEF Current
<1>5. DOMAIN me.backup = (DOMAIN me.diff \ me.todo) \cup {cur}
  BY <1>1, <1>2, <1>4 DEF PlanOK
<1>6. UNCHANGED <<rev, lock, store, shown, puts, commits, unfinished, faults, edits, crashes, late>>
  BY DEF environment
<1>7. disk \in [Paths -> File] /\ disk' = [disk EXCEPT ![cur] = me.diff[cur].new]
  BY Before
<1>8. actor' = [actor EXCEPT ![a] = new]
  OBVIOUS
<1> HIDE DEF cur
<1>9. new \in Local /\ Same(new, me) /\ new.pc = "next" /\ new.todo = todo /\ new.backup = me.backup
  <2>1. todo \in SUBSET Paths /\ "next" \in Pcs
    BY <1>4 DEF Pcs, Holding, Locking
  <2> HIDE DEF todo, me
  <2> QED
    BY <1>2, <2>1, GoesOnTodo
<1> HIDE DEF new
<1>10. PlanOK(new)
  <2>1. DOMAIN new.backup = DOMAIN me.diff \ new.todo
    BY <1>4, <1>5, <1>9
  <2> QED
    BY <1>4, <1>9, <2>1 DEF PlanOK, Same
<1>11. /\ disk' \in [Paths -> File] /\ disk'[cur] = me.diff[cur].new
       /\ \A p \in Paths \ {cur} : disk'[p] = disk[p]
  BY <1>4, <1>7
<1>12. FilesOK(new, disk', late)
  <2>1. DOMAIN me.diff \subseteq Paths
    BY <1>2, DiffIs DEF Local
  <2>2. \A p \in DOMAIN new.backup \ late : new.backup[p] = new.diff[p].old
    BY <1>2, <1>9 DEF FilesOK, Same
  <2>3. \A p \in (new.todo \ DOMAIN new.backup) \ late : disk'[p] = new.diff[p].old
    BY <1>2, <1>4, <1>5, <1>9, <1>11 DEF FilesOK, Same
  <2>4. \A p \in (DOMAIN new.diff \ new.todo) \ late : disk'[p] = new.diff[p].new
    BY <1>2, <1>4, <1>5, <1>9, <1>11, <2>1 DEF FilesOK, Same
  <2> QED
    BY <2>2, <2>3, <2>4 DEF FilesOK
<1>13. LocalOK(new)
  BY <1>1, <1>2, <1>9, <1>10 DEF LocalOK, Same, Writing, Locking
<1>14. new.pc \in Locking
  BY <1>9 DEF Locking
<1>15. /\ disk' \in [Paths -> File] /\ faults' \in Nat /\ faults' >= faults /\ late' \in {late, {}}
       /\ FilesOK(new, disk', late') /\ new.pc # "rollback" /\ lock' = lock
  BY <1>6, <1>9, <1>11, <1>12, Before
<1> QED
  BY <1>1, <1>6, <1>8, <1>9, <1>13, <1>14, <1>15, WorksOn

\* A file is removed, for good or to be replaced.
LEMMA RemoveInv ==
  ASSUME IInv, NEW a \in Actors, Remove(a)
  PROVE  IInv'
<1> DEFINE me == actor[a]
           cur == Current(a)
<1>1. me.pc = "remove" /\ disk' = [disk EXCEPT ![cur] = Gone]
  BY DEF Remove, At
<1>2. UNCHANGED <<rev, lock, store, shown, puts, commits, unfinished, environment>>
  BY DEF Remove
<1>3. CASE me.diff[cur].new = Gone
  <2>1. actor' = [actor EXCEPT ![a] = WithTodo(me, "next", me.todo \ {cur})]
    BY <1>3 DEF Remove, Step, WithTodo
  <2>2. disk' = [disk EXCEPT ![cur] = me.diff[cur].new]
    BY <1>1, <1>3
  <2>3. me.pc \in {"remove", "rename"}
    BY <1>1
  <2> QED
    BY <1>2, <2>1, <2>2, <2>3, PlacesOne
<1>4. CASE me.diff[cur].new # Gone
  <2> DEFINE new == [me EXCEPT !.pc = "rename"]
  <2>1. actor' = [actor EXCEPT ![a] = new]
    BY <1>4 DEF Remove, Step
  <2>2. me.pc \in Writing /\ me.pc \in Locking /\ me.pc \in Holding
    BY <1>1, PcIs DEF Writing
  <2>3. me \in Local /\ LocalOK(me) /\ PlanOK(me) /\ FilesOK(me, disk, late)
    BY <2>2, Claimed
  <2>4. me.todo # {}
    BY <1>1, <2>3 DEF PlanOK
  <2>5. /\ cur \in me.todo /\ cur \in Paths /\ me.todo \subseteq Paths /\ cur = Min(me.todo)
    BY <2>2, <2>4, AtCurrent DEF Current
  <2> HIDE DEF cur
  <2>6. new \in Local /\ Same(new, me) /\ new.pc = "rename" /\ new.todo = me.todo /\ new.backup = me.backup
    BY <2>3, GoesOn DEF Pcs, Holding, Locking
  <2> HIDE DEF new
  <2>7. PlanOK(new) /\ cur \in DOMAIN me.backup
    BY <1>1, <2>3, <2>4, <2>5, <2>6 DEF PlanOK, Same
  <2>8. disk \in [Paths -> File] /\ Gone \in File
    BY Before DEF File
  <2>9. disk' \in [Paths -> File] /\ \A p \in Paths \ {cur} : disk'[p] = disk[p]
    BY <1>1, <2>5, <2>8
  <2>10. FilesOK(new, disk', late)
    <3>1. DOMAIN me.diff \subseteq Paths
      BY <2>3, DiffIs DEF Local
    <3> QED
      BY <2>3, <2>5, <2>6, <2>7, <2>9, <3>1 DEF FilesOK, Same
  <2>11. LocalOK(new)
    BY <2>2, <2>3, <2>6, <2>7 DEF LocalOK, Same, Writing, Locking
  <2>12. new.pc \in Locking
    BY <2>6 DEF Locking
  <2>13. UNCHANGED <<rev, lock, store, shown, puts, commits, unfinished, faults, edits, crashes, late>>
    BY <1>2 DEF environment
  <2>14. /\ faults' \in Nat /\ faults' >= faults /\ late' \in {late, {}}
         /\ FilesOK(new, disk', late') /\ new.pc # "rollback" /\ lock' = lock
    BY <2>6, <2>10, <2>13, Before
  <2> QED
    BY <2>1, <2>2, <2>6, <2>9, <2>11, <2>12, <2>13, <2>14, WorksOn
<1> QED
  BY <1>3, <1>4

\* The staged file takes its place.
LEMMA RenameInv ==
  ASSUME IInv, NEW a \in Actors, Rename(a)
  PROVE  IInv'
<1>1. /\ actor[a].pc \in {"remove", "rename"}
      /\ disk' = [disk EXCEPT ![Current(a)] = actor[a].diff[Current(a)].new]
      /\ actor' = [actor EXCEPT ![a] = WithTodo(actor[a], "next", actor[a].todo \ {Current(a)})]
  BY DEF Rename, At, Step, WithTodo
<1>2. UNCHANGED <<rev, lock, store, shown, puts, commits, unfinished, environment>>
  BY DEF Rename
<1> QED
  BY <1>1, <1>2, PlacesOne

\* A file operation fails.
LEMMA FaultInv ==
  ASSUME IInv, NEW a \in Actors, Fault(a)
  PROVE  IInv'
<1> DEFINE me == actor[a]
           new == [me EXCEPT !.pc = "rollback"]
<1>1. me.pc \in Writing /\ faults' = faults + 1 /\ actor' = [actor EXCEPT ![a] = new]
  BY DEF Fault, Step, Writing
<1>2. UNCHANGED <<disk, rev, lock, store, shown, puts, commits, unfinished, edits, crashes, late>>
  BY DEF Fault
<1>3. me.pc \in Locking /\ me.pc \in Holding /\ me.pc # "idle"
  BY <1>1, PcIs
<1>4. me \in Local /\ LocalOK(me)
  BY <1>3, Claimed
<1>5. new \in Local /\ Same(new, me) /\ new.pc = "rollback" /\ new.backup = me.backup
  BY <1>4, GoesOn DEF Pcs, Holding, Locking
<1> HIDE DEF new
<1>6. LocalOK(new) /\ new.pc \in Locking /\ new.pc \notin Writing
  BY <1>3, <1>4, <1>5 DEF LocalOK, Same, Writing, Locking
<1>7. faults' \in Nat /\ faults' >= faults /\ faults' > 0 /\ disk' \in [Paths -> File]
  BY <1>1, <1>2, Before
<1> QED
  BY <1>1, <1>2, <1>3, <1>5, <1>6, <1>7, WorksOn

\* rollback writes the newest backup back, fails to, or is done.
LEMMA RollbackInv ==
  ASSUME IInv, NEW a \in Actors, Rollback(a)
  PROVE  IInv'
<1> DEFINE me == actor[a]
           p == Newest(me.backup)
<1>1. me.pc = "rollback" /\ me.pc \in Locking /\ me.pc \in Holding
  BY PcIs DEF Rollback, At, Locking
<1>2. UNCHANGED <<rev, store, shown, puts, commits, unfinished, edits, crashes, late>>
  BY DEF Rollback
<1>3. me \in Local /\ LocalOK(me) /\ me.backup \in Excerpts /\ faults > 0
  BY <1>1, Claimed DEF Local
<1>4. disk \in [Paths -> File] /\ faults \in Nat
  BY Before
<1>5. CASE me.backup = <<>>
  <2> DEFINE new == [me EXCEPT !.pc = "failed", !.todo = {}]
  <2>1. actor' = [actor EXCEPT ![a] = new] /\ lock' = None /\ UNCHANGED <<disk, faults>>
    BY <1>5 DEF Rollback, Step
  <2>2. new \in Local /\ Same(new, me) /\ new.pc = "failed" /\ new.backup = me.backup
    <3>1. new = WithTodo(me, "failed", {}) /\ "failed" \in Pcs /\ {} \in SUBSET Paths
      BY DEF WithTodo, Pcs, Holding
    <3> HIDE DEF new, me
    <3> QED
      BY <1>3, <3>1, GoesOnTodo
  <2> HIDE DEF new
  <2>3. LocalOK(new) /\ new.pc \notin Writing
    BY <1>1, <1>3, <1>5, <2>2 DEF LocalOK, Same, Writing, Locking
  <2>4. faults' \in Nat /\ faults' >= faults /\ disk' \in [Paths -> File]
    BY <1>4, <2>1
  <2> QED
    BY <1>1, <1>2, <2>1, <2>2, <2>3, <2>4, WorksOn
<1>6. CASE me.backup # <<>>
  <2> DEFINE backup == Without(me.backup, p)
             new == [me EXCEPT !.backup = backup]
  <2>1. /\ actor' = [actor EXCEPT ![a] = new] /\ lock' = lock
        /\ \/ disk' = Restored(a) /\ UNCHANGED faults
           \/ faults' = faults + 1 /\ UNCHANGED disk
    BY <1>6 DEF Rollback, Step
  <2>2. p \in DOMAIN me.backup /\ p \in Paths /\ me.backup[p] \in File
    <3>1. DOMAIN me.backup # {} /\ DOMAIN me.backup \subseteq Paths
      BY <1>3, <1>6, NoExcerpt, ExcerptIs
    <3> QED
      BY <1>3, <3>1, Extremes, ExcerptIs DEF Newest
  <2>3. disk' \in [Paths -> File] /\ faults' \in Nat /\ faults' >= faults /\ faults' > 0
    BY <1>3, <1>4, <2>1, <2>2 DEF Restored
  <2> HIDE DEF p
  <2>4. backup \in Excerpts
    BY <1>3, <2>2, BackupWithout
  <2> HIDE DEF backup
  <2>5. new \in Local /\ Same(new, me) /\ new.pc = "rollback"
    BY <1>1, <1>3, <2>4 DEF Local, Same
  <2> HIDE DEF new
  <2>6. LocalOK(new) /\ new.pc \notin Writing /\ new.pc \in Locking
    BY <1>1, <1>3, <2>5 DEF LocalOK, Same, Writing, Locking
  <2> QED
    BY <1>1, <1>2, <2>1, <2>3, <2>5, <2>6, WorksOn
<1> QED
  BY <1>5, <1>6

\* Commit spends the claim.
LEMMA CommitInv ==
  ASSUME IInv, NEW a \in Actors, Commit(a)
  PROVE  IInv'
<1> DEFINE me == actor[a]
           new == [me EXCEPT !.pc = "finish", !.backup = <<>>]
<1>1. /\ me.pc = "next" /\ actor' = [actor EXCEPT ![a] = new] /\ lock' = None
      /\ rev' = rev + 1 /\ commits' = [commits EXCEPT ![me.id] = @ + 1]
  BY DEF Commit, At, Step
<1>2. UNCHANGED <<disk, store, shown, puts, unfinished, faults, edits, crashes, late>>
  BY DEF Commit, environment
<1>3. me.pc \in Writing /\ me.pc \in Locking /\ me.pc \in Holding
  BY <1>1, PcIs DEF Writing
<1>4. /\ me \in Local /\ LocalOK(me) /\ me.id \in Ids /\ lock = a
      /\ [id |-> me.id, diff |-> me.hash] \in shown
  BY <1>3, Claimed
<1>5. new \in Local /\ Same(new, me) /\ new.pc = "finish" /\ new.backup = <<>>
  <2>1. new = WithBackup(me, "finish", <<>>) /\ "finish" \in Pcs /\ <<>> \in Excerpts
    BY EmptyIs DEF WithBackup, Pcs
  <2> HIDE DEF new, me
  <2> QED
    BY <1>4, <2>1, GoesOnBackup
<1> HIDE DEF new
<1>6. LocalOK(new) /\ new.pc \notin Holding /\ new.pc \notin Locking /\ new.pc \notin Writing
  BY <1>1, <1>4, <1>5 DEF LocalOK, Same, Writing, Locking, Holding
<1>7. Shapes'
  <2>1. rev' \in Nat /\ lock' \in Actors \cup {None} /\ commits' \in [Ids -> Nat]
    BY <1>1, <1>4 DEF IInv, Shapes
  <2>2. actor' \in [Actors -> Local]
    BY <1>1, <1>5 DEF IInv, Shapes
  <2> QED
    BY <1>2, <2>1, <2>2 DEF IInv, Shapes
<1>8. ActorOK(a)'
  <2>1. actor'[a] = new /\ lock' # a
    BY <1>1, WorkspaceAssumption DEF IInv, Shapes
  <2>2. [id |-> new.id, diff |-> new.hash] \in shown'
    BY <1>2, <1>4, <1>5 DEF Same
  <2> QED
    BY <1>5, <1>6, <2>1, <2>2 DEF ActorOK
<1>9. ActorsOK'
  <2>1. shown \subseteq shown' /\ faults' >= faults
    BY <1>2, Before
  <2>2. \A b \in Actors : b # a => (lock' = b <=> lock = b) /\ (lock = b => disk' = disk /\ late' = late)
    BY <1>1, <1>2, <1>4, WorkspaceAssumption
  <2> QED
    BY <1>1, <1>7, <1>8, <2>1, <2>2, ActorStep
<1>10. LateOK'
  BY <1>2 DEF IInv, LateOK
<1>11. ClaimsCount'
  <2>1. \A x \in Ids : Holds(new, x) = 0 /\ Holds(me, x) = IF x = me.id THEN 1 ELSE 0
    BY <1>3, <1>6 DEF Holds
  <2>2. /\ commits'[me.id] = commits[me.id] + 1
        /\ \A x \in Ids \ {me.id} : commits'[x] = commits[x]
    BY <1>1, <1>4 DEF IInv, Shapes
  <2>3. commits[me.id] \in Nat /\ puts[me.id] \in Nat /\ unfinished[me.id] \in Nat
    BY <1>4 DEF IInv, Shapes
  <2>4. Free(store[me.id]) \in {0, 1}
    BY DEF Free
  <2>5. Balanced(me, new, me.id)
    BY <1>2, <1>4, <2>1, <2>2, <2>3, <2>4 DEF Balanced
  <2> QED
    BY <1>1, <1>4, <1>7, <2>5, CountStep
<1> QED
  BY <1>7, <1>9, <1>10, <1>11 DEF IInv

\* A goroutine gives its claim back or fails: only the proposal under its id changes.
LEMMA Settles ==
  ASSUME IInv, NEW a \in Actors, NEW new \in Local, LocalOK(new), NEW p \in Proposal,
         actor' = [actor EXCEPT ![a] = new],
         actor[a].id \in Ids,
         store' = [store EXCEPT ![actor[a].id] = p],
         unfinished' \in [Ids -> Nat],
         UNCHANGED <<disk, rev, lock, shown, puts, commits, environment>>,
         actor[a].pc \notin Locking, new.pc \notin Locking,
         new.pc \in Holding \cup {"finish"} => [id |-> new.id, diff |-> new.hash] \in shown,
         Balanced(actor[a], new, actor[a].id)
  PROVE  IInv'
<1>1. UNCHANGED <<disk, rev, lock, shown, puts, commits, faults, edits, crashes, late>>
  BY DEF environment
<1>2. Shapes'
  BY <1>1 DEF IInv, Shapes
<1>3. ActorOK(a)'
  <2>1. actor'[a] = new /\ lock # a
    BY Before DEF IInv, Shapes
  <2>2. new.pc \notin Writing /\ new.pc # "rollback"
    BY PcIs DEF Locking
  <2> QED
    BY <1>1, <2>1, <2>2 DEF ActorOK
<1>4. ActorsOK'
  <2>1. shown \subseteq shown' /\ faults' >= faults
    BY <1>1, Before
  <2> QED
    BY <1>1, <1>2, <1>3, <2>1, ActorStep
<1>5. LateOK'
  BY <1>1 DEF IInv, LateOK
<1>6. ClaimsCount'
  BY <1>2, CountStep
<1> QED
  BY <1>2, <1>4, <1>5, <1>6 DEF IInv

\* FinishApply marks the proposal applied; where it is marked already, the
\* goroutine fails although its claim is spent.
LEMMA FinishApplyInv ==
  ASSUME IInv, NEW a \in Actors, FinishApply(a)
  PROVE  IInv'
<1> DEFINE me == actor[a]
           id == me.id
           p == store[id]
<1>1. me.pc = "finish" /\ me.pc \notin Holding /\ me.pc \notin Locking
  BY DEF FinishApply, At, Holding, Locking
<1>2. UNCHANGED <<disk, rev, lock, shown, puts, commits, environment>>
  BY DEF FinishApply
<1>3. me \in Local /\ LocalOK(me) /\ id \in Ids /\ [id |-> id, diff |-> me.hash] \in shown
  BY <1>1, Claimed
<1>4. /\ p \in Proposal /\ store \in [Ids -> Proposal]
      /\ unfinished \in [Ids -> Nat] /\ commits[id] \in Nat /\ puts[id] \in Nat
  BY <1>3 DEF IInv, Shapes
<1>5. Free(p) \in {0, 1} /\ \A x \in Ids : Holds(me, x) = 0
  BY <1>1 DEF Free, Holds
<1>6. CASE p.applied
  <2> DEFINE new == [me EXCEPT !.pc = "failed"]
  <2>1. /\ actor' = [actor EXCEPT ![a] = new] /\ store' = store
        /\ unfinished' = [unfinished EXCEPT ![id] = @ + 1]
    BY <1>6 DEF FinishApply, Step
  <2>2. new \in Local /\ Same(new, me) /\ new.pc = "failed" /\ new.backup = me.backup
    BY <1>3, GoesOn DEF Pcs, Holding
  <2> HIDE DEF new
  <2>3. LocalOK(new) /\ new.pc \in Holding /\ new.pc \notin Locking
    BY <1>1, <1>3, <2>2 DEF LocalOK, Same, Writing, Locking, Holding
  <2>4. [id |-> new.id, diff |-> new.hash] \in shown
    BY <1>3, <2>2 DEF Same
  <2>5. \A x \in Ids : Holds(new, x) = IF x = id THEN 1 ELSE 0
    BY <2>2, <2>3 DEF Holds, Same
  <2>6. unfinished' \in [Ids -> Nat] /\ unfinished'[id] = unfinished[id] + 1
    BY <1>3, <1>4, <2>1
  <2>7. \A x \in Ids \ {id} : unfinished'[x] = unfinished[x]
    BY <1>4, <2>1
  <2>8. Balanced(me, new, id)
    BY <1>2, <1>3, <1>4, <1>5, <2>1, <2>5, <2>6, <2>7 DEF Balanced
  <2>9. store' = [store EXCEPT ![id] = p]
    BY <1>4, <2>1
  <2> QED
    BY <1>1, <1>2, <1>3, <1>4, <2>1, <2>2, <2>3, <2>4, <2>6, <2>8, <2>9, Settles
<1>7. CASE ~p.applied
  <2> DEFINE q == [p EXCEPT !.applied = TRUE]
             done == [q EXCEPT !.applying = FALSE]
  <2>1. /\ actor' = [actor EXCEPT ![a] = Idle] /\ unfinished' = unfinished
        /\ store' = [store EXCEPT ![id].applied = TRUE, ![id].applying = FALSE]
    BY <1>7 DEF FinishApply, Step
  <2>2. store' = [store EXCEPT ![id] = done]
    BY <1>3, <1>4, <2>1
  <2>3. q \in Proposal /\ q.applied
    BY <1>4 DEF Proposal
  <2> HIDE DEF q
  <2>4. done \in Proposal /\ done.applied
    BY <2>3 DEF Proposal
  <2> HIDE DEF done
  <2>5. Free(done) = 0 /\ \A x \in Ids : Holds(Idle, x) = 0
    BY <2>4, IdleIs, PcIs DEF Free, Claimable, Holds
  <2>6. store'[id] = done /\ \A x \in Ids \ {id} : store'[x] = store[x]
    BY <1>3, <1>4, <2>2
  <2>7. unfinished[id] \in Nat
    BY <1>3, <1>4
  <2>8. Balanced(me, Idle, id)
    BY <1>2, <1>3, <1>4, <1>5, <2>1, <2>5, <2>6, <2>7 DEF Balanced
  <2>9. Idle.pc \notin Locking /\ Idle.pc \notin Holding \cup {"finish"}
    BY IdleIs, PcIs
  <2> QED
    BY <1>1, <1>2, <1>3, <1>4, <2>1, <2>2, <2>4, <2>8, <2>9, IdleIs, Settles
<1> QED
  BY <1>6, <1>7

\* AbortApply gives back the claim of whoever holds it now.
LEMMA AbortApplyInv ==
  ASSUME IInv, NEW a \in Actors, AbortApply(a)
  PROVE  IInv'
<1> DEFINE me == actor[a]
           id == me.id
           p == store[id]
           freed == IF p.applied THEN p ELSE [p EXCEPT !.applying = FALSE]
<1>1. /\ me.pc = "failed" /\ me.pc \in Holding /\ me.pc \notin Locking
      /\ actor' = [actor EXCEPT ![a] = Idle] /\ store' = Aborted(a)
  BY DEF AbortApply, At, Step, Holding, Locking
<1>2. /\ UNCHANGED <<disk, rev, lock, shown, puts, commits, environment>>
      /\ unfinished' = unfinished
  BY DEF AbortApply
<1>3. id \in Ids
  BY <1>1, Claimed
<1>4. /\ p \in Proposal /\ store \in [Ids -> Proposal]
      /\ unfinished \in [Ids -> Nat] /\ commits[id] \in Nat /\ puts[id] \in Nat
  BY <1>3 DEF IInv, Shapes
<1>5. freed \in Proposal /\ store' = [store EXCEPT ![id] = freed]
  BY <1>1, <1>3, <1>4 DEF Aborted, Proposal
<1>6. Free(p) \in {0, 1} /\ Free(freed) \in {0, 1}
  BY DEF Free
<1> HIDE DEF freed
<1>7. \A x \in Ids : Holds(Idle, x) = 0 /\ Holds(me, x) = IF x = id THEN 1 ELSE 0
  BY <1>1, IdleIs, PcIs DEF Holds
<1>8. store'[id] = freed /\ \A x \in Ids \ {id} : store'[x] = store[x]
  BY <1>3, <1>4, <1>5
<1>9. unfinished[id] \in Nat
  BY <1>3, <1>4
<1>10. Balanced(me, Idle, id)
  BY <1>2, <1>3, <1>4, <1>6, <1>7, <1>8, <1>9 DEF Balanced
<1>11. Idle.pc \notin Locking /\ Idle.pc \notin Holding \cup {"finish"}
  BY IdleIs, PcIs
<1>12. unfinished' \in [Ids -> Nat]
  BY <1>2, <1>4
<1> QED
  BY <1>1, <1>2, <1>3, <1>5, <1>10, <1>11, <1>12, IdleIs, Settles

-----------------------------------------------------------------------------
(* The user and the process                                                *)

\* A user's edit: an apply in progress notes the path as late.
LEMMA EditInv ==
  ASSUME IInv, NEW p \in Paths, NEW c \in File, Edit(p, c)
  PROVE  IInv'
<1>1. /\ disk' = [disk EXCEPT ![p] = c] /\ edits' = edits + 1
      /\ late' = IF lock = None THEN late ELSE late \cup {p}
      /\ lock = None \/ EditsDuringApply
  BY DEF Edit
<1>2. UNCHANGED <<rev, lock, store, shown, actor, puts, commits, unfinished, faults, crashes>>
  BY DEF Edit
<1>3. Shapes'
  BY <1>1, <1>2 DEF IInv, Shapes
<1>4. ASSUME NEW b \in Actors PROVE ActorOK(b)'
  <2>1. ActorOK(b) /\ actor[b] \in Local
    BY DEF IInv, ActorsOK, Shapes
  <2>2. CASE actor[b].pc \in Writing
    <3>1. late' = late \cup {p}
      BY <1>1, <2>1, <2>2, PcIs, WorkspaceAssumption DEF ActorOK
    <3>2. FilesOK(actor[b], disk, late) /\ PlanOK(actor[b])
      BY <2>1, <2>2 DEF ActorOK, LocalOK
    <3>3. DOMAIN actor[b].diff \subseteq Paths /\ actor[b].todo \subseteq Paths
      BY <2>1, DiffIs DEF Local
    <3>4. \A q \in Paths \ {p} : disk'[q] = disk[q]
      BY <1>1 DEF IInv, Shapes
    <3>5. FilesOK(actor[b], disk', late')
      BY <3>1, <3>2, <3>3, <3>4 DEF FilesOK
    <3> QED
      BY <1>2, <2>1, <3>5 DEF ActorOK
  <2>3. CASE actor[b].pc \notin Writing
    BY <1>2, <2>1, <2>3 DEF ActorOK
  <2> QED
    BY <2>2, <2>3
<1>5. LateOK'
  BY <1>1 DEF IInv, LateOK
<1>6. ClaimsCount'
  BY <1>2 DEF IInv, ClaimsCount, Holders
<1> QED
  BY <1>3, <1>4, <1>5, <1>6 DEF IInv, ActorsOK

\* A process that has just started: no goroutine runs, nothing is claimed.
Fresh ==
  /\ Shapes
  /\ actor = [a \in Actors |-> Idle] /\ store = [id \in Ids |-> NoProposal]
  /\ lock = None /\ late = {}
  /\ \A id \in Ids : commits[id] <= puts[id] + unfinished[id]

\* Its state is a good one, whether the process starts or restarts.
LEMMA FreshInv == Fresh => IInv
<1> SUFFICES ASSUME Fresh PROVE IInv
  OBVIOUS
<1> USE DEF Fresh
<1>1. ASSUME NEW a \in Actors PROVE ActorOK(a)
  <2>1. actor[a] = Idle /\ lock # a
    BY WorkspaceAssumption
  <2> QED
    BY <2>1, IdleIs, PcIs DEF ActorOK
<1>2. ASSUME NEW id \in Ids
      PROVE  commits[id] + Cardinality(Holders(id)) + Free(store[id]) <= puts[id] + unfinished[id]
  <2>1. Holders(id) = {} /\ Cardinality({}) = 0
    BY IdleIs, PcIs, FS_EmptySet DEF Holders
  <2>2. Free(store[id]) = 0
    BY DEF Free, Claimable, NoProposal
  <2>3. commits[id] \in Nat
    BY DEF Shapes
  <2> QED
    BY <2>1, <2>2, <2>3
<1>3. LateOK
  BY DEF LateOK
<1> QED
  BY <1>1, <1>2, <1>3 DEF IInv, ActorsOK, ClaimsCount

\* The shapes of an empty store and of idle goroutines.
LEMMA FreshShapes ==
  [a \in Actors |-> Idle] \in [Actors -> Local] /\ [id \in Ids |-> NoProposal] \in [Ids -> Proposal]
<1>1. NoProposal \in Proposal
  BY EmptyIs DEF NoProposal, Proposal
<1> QED
  BY <1>1, IdleIs

\* Init.
LEMMA InitInv == Init => IInv
<1> SUFFICES ASSUME Init PROVE IInv
  OBVIOUS
<1>1. Shapes
  BY FreshShapes DEF Init, Shapes
<1>2. Fresh
  BY <1>1 DEF Init, Fresh
<1> QED
  BY <1>2, FreshInv

\* A set of goroutines has a size.
LEMMA HoldersFinite ==
  ASSUME NEW id \in Ids
  PROVE  Cardinality(Holders(id)) \in Nat
<1>1. IsFiniteSet(Holders(id))
  BY WorkspaceAssumption, FS_Subset DEF Holders
<1> QED
  BY <1>1, FS_CardinalityType

\* OncePerPut is what the count of claims says when nobody holds one.
LEMMA CountedOnce == IInv => OncePerPut
<1> SUFFICES ASSUME IInv, NEW id \in Ids PROVE commits[id] <= puts[id] + unfinished[id]
  BY DEF OncePerPut
<1>1. commits[id] + Cardinality(Holders(id)) + Free(store[id]) <= puts[id] + unfinished[id]
  BY DEF IInv, ClaimsCount
<1>2. commits[id] \in Nat /\ puts[id] \in Nat /\ unfinished[id] \in Nat
  BY DEF IInv, Shapes
<1>3. Free(store[id]) \in {0, 1}
  BY DEF Free
<1> QED
  BY <1>1, <1>2, <1>3, HoldersFinite

\* The agent is killed and started again.
LEMMA CrashInv ==
  ASSUME IInv, Crash
  PROVE  IInv'
<1>1. OncePerPut
  BY CountedOnce
<1>2. Shapes'
  BY FreshShapes DEF Crash, IInv, Shapes
<1>3. Fresh'
  BY <1>1, <1>2 DEF Crash, Fresh, OncePerPut
<1>4. Fresh' => IInv'
  BY FreshInv, PTL
<1> QED
  BY <1>3, <1>4

\* Every step.
LEMMA NextInv == IInv /\ [Next]_vars => IInv'
<1> SUFFICES ASSUME IInv, [Next]_vars PROVE IInv'
  OBVIOUS
<1>1. ASSUME NEW a \in Actors, NEW id \in Ids, NEW cs \in ChangeSets, BeginPropose(a, id, cs) PROVE IInv'
  BY <1>1, BeginProposeInv
<1>2. ASSUME NEW a \in Actors, Fill(a) \/ GetAgain(a) \/ CopyRecord(a) \/ Plan(a) \/ Put(a) PROVE IInv'
  BY <1>2, FillInv, GetAgainInv, CopyRecordInv, PlanInv, PutInv
<1>3. ASSUME NEW a \in Actors, NEW request \in shown, Claim(a, request) PROVE IInv'
  BY <1>3, ClaimInv
<1>4. ASSUME NEW a \in Actors, Lock(a) \/ Revalidate(a) \/ Backup(a) \/ Remove(a) \/ Rename(a) PROVE IInv'
  BY <1>4, LockInv, RevalidateInv, BackupInv, RemoveInv, RenameInv
<1>5. ASSUME NEW a \in Actors, Fault(a) \/ Rollback(a) \/ Commit(a) \/ FinishApply(a) \/ AbortApply(a)
      PROVE  IInv'
  BY <1>5, FaultInv, RollbackInv, CommitInv, FinishApplyInv, AbortApplyInv
<1>6. ASSUME NEW p \in Paths, NEW c \in File, Edit(p, c) PROVE IInv'
  BY <1>6, EditInv
<1>7. ASSUME Crash PROVE IInv'
  BY <1>7, CrashInv
<1>8. ASSUME UNCHANGED vars PROVE IInv'
  BY <1>8 DEF vars, IInv, Shapes, ActorsOK, ActorOK, LateOK, ClaimsCount, Holders
<1> QED
  BY <1>1, <1>2, <1>3, <1>4, <1>5, <1>6, <1>7, <1>8 DEF Next

-----------------------------------------------------------------------------
(* The theorems                                                            *)

\* The invariant holds of Propose and ApplyChanges in every interleaving.
THEOREM ApplyInvariance == Spec => []IInv
BY InitInv, NextInv, PTL DEF Spec

\* Diffs, backups and files hold contents, and the Registry's lock is held by
\* the goroutine that writes or rolls back.
THEOREM ApplyTypeCorrect == Spec => []TypeOK
<1>1. IInv => TypeOK
  <2> SUFFICES ASSUME IInv PROVE TypeOK
    OBVIOUS
  <2>1. \A f \in Diffs : \E touched \in SUBSET Paths : f \in Diff(touched)
    BY DEF Diffs
  <2>2. disk \in [Paths -> File] /\ rev \in Nat /\ store \in [Ids -> Proposal]
        /\ shown \subseteq [id : Ids, diff : Diffs]
    BY DEF IInv, Shapes
  <2>3. ASSUME NEW id \in Ids PROVE store[id].diff \in Diffs
    BY <2>2 DEF Proposal
  <2>4. ASSUME NEW s \in shown PROVE s.id \in Ids /\ s.diff \in Diffs
    BY <2>2
  <2>5. ASSUME NEW a \in Actors
        PROVE  /\ DOMAIN actor[a].backup \subseteq Paths
               /\ \A p \in DOMAIN actor[a].backup : actor[a].backup[p] \in File
               /\ actor[a].pc \in Locking <=> lock = a
    <3>1. actor[a] \in Local /\ (actor[a].pc \in Locking <=> lock = a)
      BY Before
    <3>2. actor[a].backup \in Excerpts
      BY <3>1 DEF Local
    <3> QED
      BY <3>1, <3>2, ExcerptIs
  <2> QED
    BY <2>1, <2>2, <2>3, <2>4, <2>5 DEF TypeOK, Locking
<1> QED
  BY <1>1, ApplyInvariance, PTL

\* ClaimForApply: a change set is written at most as often as it was proposed,
\* but for the writes whose FinishApply failed.
THEOREM WrittenOncePerPut == Spec => []OncePerPut
BY CountedOnce, ApplyInvariance, PTL

\* What the goroutine me leaves to see of the files d: what it has backed up
\* still counts.
See(me, d) == [p \in Paths |-> IF p \in DOMAIN me.backup THEN me.backup[p] ELSE d[p]]

SeenOK ==
  /\ \A a \in Actors : lock = a => Visible = See(actor[a], disk)
  /\ lock = None => Visible = disk

\* Only the holder of the lock has backups, so only its are seen.
LEMMA VisibleIs == IInv => SeenOK
<1> SUFFICES ASSUME IInv PROVE SeenOK
  OBVIOUS
<1>1. ASSUME NEW b \in Actors, lock # b PROVE DOMAIN actor[b].backup = {}
  <2>1. actor[b].pc \notin Locking /\ LocalOK(actor[b])
    BY <1>1, Before
  <2>2. actor[b].backup = <<>>
    BY <2>1 DEF LocalOK, Writing, Locking
  <2> QED
    BY <2>2, EmptyIs
<1>2. ASSUME NEW a \in Actors, lock = a PROVE Visible = See(actor[a], disk)
  <2>1. ASSUME NEW p \in Paths PROVE Visible[p] = See(actor[a], disk)[p]
    <3>1. CASE p \in DOMAIN actor[a].backup
      <4>1. \A x \in Actors : p \in DOMAIN actor[x].backup <=> x = a
        BY <1>1, <1>2, <3>1
      <4>2. (CHOOSE x \in Actors : p \in DOMAIN actor[x].backup) = a
        BY <4>1
      <4> QED
        BY <3>1, <4>2 DEF Visible, See
    <3>2. CASE p \notin DOMAIN actor[a].backup
      BY <1>1, <1>2, <3>2 DEF Visible, See
    <3> QED
      BY <3>1, <3>2
  <2> QED
    BY <2>1 DEF Visible, See
<1>3. ASSUME lock = None PROVE Visible = disk
  <2>1. \A b \in Actors : DOMAIN actor[b].backup = {}
    BY <1>1, <1>3, WorkspaceAssumption
  <2>2. disk \in [Paths -> File]
    BY DEF IInv, Shapes
  <2> QED
    BY <2>1, <2>2 DEF Visible
<1> QED
  BY <1>2, <1>3 DEF SeenOK

\* What ApplyChanges replaces is what was approved, but for edits made after the
\* revalidation.
THEOREM OnlyLateEditsLost == Spec => []OnlyLateEditsAreLost
<1>1. IInv => OnlyLateEditsAreLost
  <2> SUFFICES ASSUME IInv, NEW a \in Actors, actor[a].pc \in Writing,
                      NEW p \in DOMAIN actor[a].diff \ late,
                      p \in actor[a].todo \cup DOMAIN actor[a].backup
               PROVE  Visible[p] = actor[a].diff[p].old
    BY DEF OnlyLateEditsAreLost, Writing
  <2>1. actor[a] \in Local /\ lock = a /\ FilesOK(actor[a], disk, late)
    BY PcIs, Claimed
  <2>2. p \in Paths
    BY <2>1, DiffIs DEF Local
  <2>3. Visible[p] = IF p \in DOMAIN actor[a].backup THEN actor[a].backup[p] ELSE disk[p]
    BY <2>1, <2>2, VisibleIs DEF SeenOK, See
  <2> QED
    BY <2>1, <2>3 DEF FilesOK
<1> QED
  BY <1>1, ApplyInvariance, PTL

-----------------------------------------------------------------------------
(* ApplyChanges is atomic                                                  *)

\* Nothing is done to the files behind ApplyChanges' back: no user saves a file
\* and no crash comes while the lock is held, and rollback can write what it
\* backed up.  File operations before that may fail as often as they like.
Undisturbed ==
  /\ edits' # edits => lock = None
  /\ crashes' # crashes => lock = None
  /\ \A a \in Actors : At(a, "rollback") /\ actor'[a] # actor[a] => faults' = faults

\* Then no edit is late,
Calm == IInv /\ late = {}

\* which every step keeps.
LEMMA CalmStep == Calm /\ [Next]_vars /\ [Undisturbed]_vars => Calm'
<1> SUFFICES ASSUME Calm, [Next]_vars, [Undisturbed]_vars PROVE Calm'
  OBVIOUS
<1>1. IInv'
  BY NextInv DEF Calm
<1>2. late' = {}
  <2>1. CASE UNCHANGED vars
    BY <2>1 DEF Calm, vars
  <2>2. CASE Next /\ Undisturbed
    <3>1. ASSUME NEW p \in Paths, NEW c \in File, Edit(p, c) PROVE late' = {}
      <4>1. edits' = edits + 1 /\ edits \in Nat /\ late' = IF lock = None THEN late ELSE late \cup {p}
        BY <3>1 DEF Edit, Calm, IInv, Shapes
      <4>2. lock = None
        BY <2>2, <4>1 DEF Undisturbed
      <4> QED
        BY <4>1, <4>2 DEF Calm
    <3>2. CASE Crash
      BY <3>2 DEF Crash
    <3>3. ASSUME NEW a \in Actors, NEW id \in Ids, NEW cs \in ChangeSets, BeginPropose(a, id, cs)
          PROVE  late' = {}
      BY <3>3 DEF BeginPropose, environment, Calm
    <3>4. ASSUME NEW a \in Actors, NEW request \in shown, Claim(a, request) PROVE late' = {}
      BY <3>4 DEF Claim, environment, Calm
    <3>5. ASSUME NEW a \in Actors, Fill(a) \/ GetAgain(a) \/ CopyRecord(a) \/ Plan(a) \/ Put(a)
          PROVE  late' = {}
      BY <3>5 DEF Fill, GetAgain, CopyRecord, Plan, Put, environment, Calm
    <3>6. ASSUME NEW a \in Actors, Lock(a) \/ Revalidate(a) \/ Backup(a) \/ Remove(a) \/ Rename(a)
          PROVE  late' = {}
      BY <3>6 DEF Lock, Revalidate, Backup, Remove, Rename, environment, Calm
    <3>7. ASSUME NEW a \in Actors, Fault(a) \/ Rollback(a) \/ Commit(a) \/ FinishApply(a) \/ AbortApply(a)
          PROVE  late' = {}
      BY <3>7 DEF Fault, Rollback, Commit, FinishApply, AbortApply, environment, Calm
    <3> QED
      BY <2>2, <3>1, <3>2, <3>3, <3>4, <3>5, <3>6, <3>7 DEF Next
  <2> QED
    BY <2>1, <2>2
<1> QED
  BY <1>1, <1>2 DEF Calm

Offered == {s.diff : s \in shown}

\* The abstract specification's variables do not change.
Stutter == Visible' = Visible /\ Offered' = Offered /\ edits' = edits

\* A step that touches neither files nor backups.
LEMMA SameBackups ==
  ASSUME IInv, NEW a \in Actors, NEW new, actor' = [actor EXCEPT ![a] = new],
         new.backup = actor[a].backup, UNCHANGED disk
  PROVE  Visible' = Visible
<1>1. \A b \in Actors : actor'[b].backup = actor[b].backup
  BY DEF IInv, Shapes
<1>2. \A p \in Paths : (CHOOSE x \in Actors : p \in DOMAIN actor'[x].backup)
                      = (CHOOSE x \in Actors : p \in DOMAIN actor[x].backup)
  BY <1>1, Zenon
<1>3. ASSUME NEW p \in Paths
      PROVE  Visible'[p] = Visible[p]
  <2>1. CASE \E b \in Actors : p \in DOMAIN actor[b].backup
    <3> DEFINE x == CHOOSE x \in Actors : p \in DOMAIN actor[x].backup
    <3>1. x \in Actors
      BY <2>1
    <3>2. Visible[p] = actor[x].backup[p]
      BY <2>1 DEF Visible
    <3>3. Visible'[p] = actor'[x].backup[p]
      BY <1>1, <1>2, <2>1 DEF Visible
    <3> QED
      BY <1>1, <3>1, <3>2, <3>3
  <2>2. CASE ~\E b \in Actors : p \in DOMAIN actor[b].backup
    BY <1>1, <2>2 DEF Visible
  <2> QED
    BY <2>1, <2>2
<1> QED
  BY <1>3 DEF Visible

\* Before it writes, and once it has, a goroutine has no backup.
LEMMA NoBackup ==
  ASSUME IInv, NEW a \in Actors, actor[a].pc \notin Writing \cup {"rollback"}
  PROVE  actor[a].backup = <<>>
BY Before DEF LocalOK

\* What a goroutine leaves to see, seen again after its step.
LEMMA SeenAgain ==
  ASSUME IInv, IInv', NEW a \in Actors, lock = a, lock' = a
  PROVE  Visible = See(actor[a], disk) /\ Visible' = See(actor'[a], disk')
<1>1. SeenOK /\ SeenOK'
  BY VisibleIs, PTL
<1> QED
  BY <1>1 DEF SeenOK

\* The files are seen as they are while nobody holds the lock.
LEMMA SeenFree ==
  ASSUME IInv, IInv'
  PROVE  (lock = None => Visible = disk) /\ (lock' = None => Visible' = disk')
<1>1. SeenOK /\ SeenOK'
  BY VisibleIs, PTL
<1> QED
  BY <1>1 DEF SeenOK

WithPc(r, pc) == [r EXCEPT !.pc = pc]

\* A goroutine that goes on, or has other paths to do, keeps its backups.
LEMMA KeepsBackup ==
  ASSUME NEW a \in Actors, actor \in [Actors -> Local],
         \/ \E pc : actor' = [actor EXCEPT ![a] = WithPc(actor[a], pc)]
         \/ \E pc, todo : actor' = [actor EXCEPT ![a] = WithTodo(actor[a], pc, todo)]
  PROVE  \E new : /\ actor' = [actor EXCEPT ![a] = new] /\ actor'[a] = new
                  /\ new.backup = actor[a].backup
<1>1. \A pc : WithPc(actor[a], pc).backup = actor[a].backup
  BY DEF Local, WithPc
<1>2. \A pc, todo : WithTodo(actor[a], pc, todo).backup = actor[a].backup
  BY DEF Local, WithTodo
<1> QED
  BY <1>1, <1>2

\* Propose, and the claims: no file is touched.
LEMMA AsideStutters ==
  ASSUME IInv, NEW a \in Actors,
         \/ Fill(a) \/ GetAgain(a) \/ CopyRecord(a) \/ Plan(a) \/ FinishApply(a) \/ AbortApply(a)
         \/ Lock(a) \/ Revalidate(a) \/ Fault(a)
         \/ \E id \in Ids, cs \in ChangeSets : BeginPropose(a, id, cs)
         \/ \E request \in shown : Claim(a, request)
  PROVE  Stutter
<1>1. UNCHANGED <<disk, shown, edits>>
  BY DEF Fill, GetAgain, CopyRecord, Plan, FinishApply, AbortApply, Lock, Revalidate, Fault,
         BeginPropose, Claim, environment
<1>2. actor[a] \in Local /\ actor \in [Actors -> Local]
  BY DEF IInv, Shapes
<1>3. \E new : actor' = [actor EXCEPT ![a] = new] /\ new.backup = actor[a].backup
  <2>1. CASE Fault(a) \/ GetAgain(a) \/ Lock(a) \/ Revalidate(a)
    <3>1. \/ \E pc : actor' = [actor EXCEPT ![a] = WithPc(actor[a], pc)]
          \/ \E pc, todo : actor' = [actor EXCEPT ![a] = WithTodo(actor[a], pc, todo)]
      BY <2>1 DEF Fault, GetAgain, Lock, Revalidate, Step, WithPc, WithTodo
    <3> QED
      BY <1>2, <3>1, KeepsBackup
  <2>2. CASE CopyRecord(a)
    BY <1>2, <2>2 DEF CopyRecord, Step, Local
  <2>3. CASE Plan(a)
    BY <1>2, <2>3 DEF Plan, Step, Local
  <2>4. CASE Fill(a)
    <3>1. actor[a].backup = <<>>
      BY <2>4, NoBackup DEF Fill, At, Writing
    <3> QED
      BY <1>2, <2>4, <3>1, IdleIs DEF Fill, Step, Local
  <2>5. CASE AbortApply(a)
    <3>1. actor[a].backup = <<>>
      BY <2>5, NoBackup DEF AbortApply, At, Writing
    <3> QED
      BY <2>5, <3>1, IdleIs DEF AbortApply, Step
  <2>6. CASE FinishApply(a)
    <3>1. actor[a].backup = <<>>
      BY <2>6, NoBackup DEF FinishApply, At, Writing
    <3> QED
      BY <1>2, <2>6, <3>1, IdleIs DEF FinishApply, Step, Local
  <2>7. CASE \/ \E id \in Ids, cs \in ChangeSets : BeginPropose(a, id, cs)
             \/ \E request \in shown : Claim(a, request)
    <3>1. actor[a].backup = <<>>
      BY <2>7, NoBackup DEF BeginPropose, Claim, At, Writing
    <3> QED
      BY <2>7, <3>1 DEF BeginPropose, Claim, Step, Idle
  <2> QED
    BY <2>1, <2>2, <2>3, <2>4, <2>5, <2>6, <2>7
<1>4. Visible' = Visible
  BY <1>1, <1>3, SameBackups
<1> QED
  BY <1>1, <1>4 DEF Stutter, Offered

\* Backing up, replacing and rolling back are not seen.
LEMMA WritesUnseen ==
  ASSUME IInv, IInv', Undisturbed, NEW a \in Actors,
         Backup(a) \/ Remove(a) \/ Rename(a) \/ Rollback(a)
  PROVE  Stutter
<1> DEFINE me == actor[a]
           cur == Current(a)
<1>1. UNCHANGED <<shown, edits>>
  BY DEF Backup, Remove, Rename, Rollback, environment
<1>2. me \in Local /\ disk \in [Paths -> File] /\ actor \in [Actors -> Local]
  BY Before DEF IInv, Shapes
<1>3. me.pc \in Locking /\ me.pc \in Holding
  BY PcIs DEF Backup, Remove, Rename, Rollback, At, Locking
<1>4. lock = a /\ (me.pc \in Writing => PlanOK(me))
  BY <1>3, Claimed
<1>5. me.backup \in Excerpts
  BY <1>2 DEF Local
<1>6. CASE Backup(a)
  <2>1. /\ me.pc \in Writing /\ me.todo # {} /\ lock' = a /\ disk' = disk
        /\ actor' = [actor EXCEPT ![a] = WithBackup(me, "remove", With(me.backup, cur, disk[cur]))]
    BY <1>4, <1>6 DEF Backup, At, Step, Writing, WithBackup
  <2>2. cur \in Paths /\ disk[cur] \in File /\ cur \in me.todo
    BY <2>1, AtCurrent
  <2>3. cur \notin DOMAIN me.backup
    BY <1>4, <1>6, <2>1, <2>2 DEF PlanOK, Backup, At
  <2> DEFINE b == With(me.backup, cur, disk[cur])
  <2> HIDE DEF cur
  <2>4. /\ b \in Excerpts /\ DOMAIN b = DOMAIN me.backup \cup {cur} /\ b[cur] = disk[cur]
        /\ \A q \in DOMAIN me.backup \ {cur} : b[q] = me.backup[q]
    BY <1>5, <2>2, BackupWith
  <2> HIDE DEF b
  <2>5. actor'[a].backup = b
    <3>1. WithBackup(me, "remove", b).backup = b
      BY <1>2 DEF WithBackup, Local
    <3> QED
      BY <1>2, <2>1, <3>1 DEF b
  <2>6. Visible = See(me, disk) /\ Visible' = See(actor'[a], disk')
    BY <1>4, <2>1, SeenAgain
  <2>7. See(actor'[a], disk') = See(me, disk)
    BY <2>1, <2>3, <2>4, <2>5 DEF See
  <2> QED
    BY <1>1, <2>6, <2>7 DEF Stutter, Offered
<1>7. CASE Remove(a) \/ Rename(a)
  <2>1. me.pc \in Writing /\ me.pc # "next" /\ lock' = a
    BY <1>4, <1>7 DEF Remove, Rename, At, Writing
  <2>2. me.todo # {} /\ cur \in DOMAIN me.backup
    BY <1>4, <2>1 DEF PlanOK, Current
  <2>3. cur \in Paths
    BY <2>1, <2>2, AtCurrent
  <2> HIDE DEF cur
  <2>4. \A p \in Paths \ {cur} : disk'[p] = disk[p]
    BY <1>2, <1>7, <2>3 DEF Remove, Rename, cur
  <2>5. actor'[a].backup = me.backup
    <3>1. \/ \E pc : actor' = [actor EXCEPT ![a] = WithPc(me, pc)]
          \/ \E pc, todo : actor' = [actor EXCEPT ![a] = WithTodo(me, pc, todo)]
      BY <1>7 DEF Remove, Rename, Step, WithPc, WithTodo
    <3> QED
      BY <1>2, <3>1, KeepsBackup
  <2>6. Visible = See(me, disk) /\ Visible' = See(actor'[a], disk')
    BY <1>4, <2>1, SeenAgain
  <2>7. See(actor'[a], disk') = See(me, disk)
    BY <2>2, <2>4, <2>5 DEF See
  <2> QED
    BY <1>1, <2>6, <2>7 DEF Stutter, Offered
<1>8. CASE Rollback(a) /\ me.backup = <<>>
  <2> DEFINE new == [me EXCEPT !.pc = "failed", !.todo = {}]
  <2>1. actor' = [actor EXCEPT ![a] = new] /\ disk' = disk
    BY <1>8 DEF Rollback, Step
  <2>2. new.backup = me.backup
    BY <1>2 DEF Local
  <2>3. Visible' = Visible
    BY <2>1, <2>2, SameBackups
  <2> QED
    BY <1>1, <2>3 DEF Stutter, Offered
<1>9. CASE Rollback(a) /\ me.backup # <<>>
  <2> DEFINE p == Newest(me.backup)
             b == Without(me.backup, p)
  <2>1. /\ me.pc = "rollback" /\ lock' = a /\ actor' = [actor EXCEPT ![a] = [me EXCEPT !.backup = b]]
        /\ \/ disk' = [disk EXCEPT ![p] = me.backup[p]]
           \/ faults' = faults + 1
    BY <1>4, <1>9 DEF Rollback, At, Step, Restored
  <2>2. p \in DOMAIN me.backup /\ p \in Paths
    <3>1. DOMAIN me.backup # {} /\ DOMAIN me.backup \subseteq Paths
      BY <1>5, <1>9, NoExcerpt, ExcerptIs
    <3> QED
      BY <3>1, Extremes DEF Newest
  <2> HIDE DEF p
  <2>3. DOMAIN b = DOMAIN me.backup \ {p} /\ \A q \in DOMAIN me.backup \ {p} : b[q] = me.backup[q]
    BY <1>5, <2>2, BackupWithout
  <2> HIDE DEF b
  <2>4. actor'[a].backup = b
    BY <1>2, <2>1 DEF Local
  <2>5. actor'[a] # me
    BY <2>2, <2>3, <2>4
  <2>6. faults' = faults /\ faults \in Nat
    BY <2>1, <2>5, Before DEF Undisturbed, At
  <2>7. disk' = [disk EXCEPT ![p] = me.backup[p]]
    BY <2>1, <2>6
  <2>8. Visible = See(me, disk) /\ Visible' = See(actor'[a], disk')
    BY <1>4, <2>1, SeenAgain
  <2>9. See(actor'[a], disk') = See(me, disk)
    BY <1>2, <2>2, <2>3, <2>4, <2>7 DEF See
  <2> QED
    BY <1>1, <2>8, <2>9 DEF Stutter, Offered
<1> QED
  BY <1>6, <1>7, <1>8, <1>9

\* A proposal that Put stores is offered; one refused is nothing.
LEMMA PutOffers ==
  ASSUME IInv, NEW a \in Actors, Put(a)
  PROVE  Stutter \/ \E diff \in Offered' \ Offered : Atomic!Offer(diff)
<1> DEFINE me == actor[a]
<1> PICK diff : diff = Stored(a).diff
  OBVIOUS
<1>1. /\ me.pc = "plan" /\ Len(me.seen) = Len(me.cs.changes)
      /\ actor' = [actor EXCEPT ![a] = Idle] /\ UNCHANGED <<disk, edits>>
      /\ shown' = shown \/ shown' = shown \cup {[id |-> me.id, diff |-> diff]}
  BY DEF Put, At, Step, environment
<1>2. diff \in Diffs
  BY <1>1, StoredIs DEF Proposal
<1>3. Visible' = Visible
  <2>1. Idle.backup = actor[a].backup
    BY <1>1, NoBackup, IdleIs DEF Writing
  <2> QED
    BY <1>1, <2>1, SameBackups
<1>4. Offered' = Offered \/ Offered' = Offered \cup {diff}
  BY <1>1 DEF Offered
<1>5. CASE Offered' = Offered
  BY <1>1, <1>3, <1>5 DEF Stutter
<1>6. CASE Offered' # Offered
  <2>1. diff \in Offered' \ Offered /\ Offered' = Offered \cup {diff}
    BY <1>4, <1>6
  <2>2. diff \in Atomic!Diffs
    BY <1>2 DEF Diffs, Diff, File, Atomic!Diffs
  <2>3. Atomic!Offer(diff)
    BY <1>1, <1>3, <2>1, <2>2 DEF Atomic!Offer, Offered
  <2> QED
    BY <2>1, <2>3
<1> QED
  BY <1>5, <1>6

\* Commit is the moment at which the whole diff is applied.
LEMMA CommitApplies ==
  ASSUME Calm, IInv', NEW a \in Actors, Commit(a)
  PROVE  \E diff \in Offered : Atomic!Apply(diff)
<1> DEFINE me == actor[a]
<1>1. IInv /\ late = {}
  BY DEF Calm
<1>2. /\ me.pc = "next" /\ me.todo = {} /\ lock' = None /\ UNCHANGED <<disk, shown, edits>>
  BY DEF Commit, At, environment
<1>3. me.pc \in Writing /\ me.pc \in Locking /\ me.pc \in Holding
  BY <1>2, PcIs DEF Writing
<1>4. /\ me \in Local /\ LocalOK(me) /\ lock = a /\ PlanOK(me) /\ FilesOK(me, disk, late)
      /\ [id |-> me.id, diff |-> me.hash] \in shown
  BY <1>1, <1>3, Claimed
<1>5. me.hash = me.diff /\ DOMAIN me.backup = DOMAIN me.diff
  BY <1>2, <1>3, <1>4 DEF LocalOK, PlanOK
<1>6. me.diff \in Offered
  BY <1>4, <1>5 DEF Offered
<1>7. DOMAIN me.diff \subseteq Paths
  BY <1>4, DiffIs DEF Local
<1>8. Visible = See(me, disk) /\ Visible' = disk
  BY <1>1, <1>2, <1>4, VisibleIs, SeenFree DEF SeenOK
<1>9. \A p \in DOMAIN me.diff : Visible[p] = me.diff[p].old /\ disk[p] = me.diff[p].new
  BY <1>1, <1>2, <1>4, <1>5, <1>7, <1>8 DEF See, FilesOK
<1>10. \A p \in Paths \ DOMAIN me.diff : Visible[p] = disk[p]
  BY <1>5, <1>8 DEF See
<1>11. Visible' = [p \in Paths |-> IF p \in DOMAIN me.diff THEN me.diff[p].new ELSE Visible[p]]
  <2>1. disk \in [Paths -> File]
    BY <1>1, Before
  <2> QED
    BY <1>8, <1>9, <1>10, <2>1
<1>12. Offered' = Offered
  BY <1>2 DEF Offered
<1>13. Atomic!Apply(me.diff)
  BY <1>2, <1>9, <1>11, <1>12 DEF Atomic!Apply, Offered
<1> QED
  BY <1>6, <1>13

\* A user's edit is an edit, a restart is nothing.
LEMMA OutsideStep ==
  ASSUME IInv, IInv', Undisturbed
  PROVE  /\ \A p \in Paths, c \in File : Edit(p, c) => Atomic!Edit(p, c)
         /\ Crash => Stutter
<1>1. ASSUME NEW p \in Paths, NEW c \in File, Edit(p, c) PROVE Atomic!Edit(p, c)
  <2>1. edits' = edits + 1 /\ edits \in Nat /\ UNCHANGED <<lock, shown>> /\ disk' = [disk EXCEPT ![p] = c]
    BY <1>1 DEF Edit, IInv, Shapes
  <2>2. lock = None /\ lock' = None
    BY <2>1 DEF Undisturbed
  <2>3. Visible = disk /\ Visible' = disk'
    BY <2>2, SeenFree
  <2> QED
    BY <2>1, <2>3 DEF Atomic!Edit
<1>2. ASSUME Crash PROVE Stutter
  <2>1. crashes' = crashes + 1 /\ crashes \in Nat /\ UNCHANGED <<disk, edits, shown>> /\ lock' = None
    BY <1>2 DEF Crash, IInv, Shapes
  <2>2. lock = None
    BY <2>1 DEF Undisturbed
  <2>3. Visible = disk /\ Visible' = disk'
    BY <2>1, <2>2, SeenFree
  <2> QED
    BY <2>1, <2>3 DEF Stutter, Offered
<1> QED
  BY <1>1, <1>2

\* Every step is one of the abstract specification's, or none.
LEMMA AbstractStep ==
  ASSUME Calm, Calm', [Next]_vars, [Undisturbed]_vars
  PROVE  [Atomic!Next]_<<Visible, Offered, edits>>
<1>1. IInv /\ IInv'
  BY DEF Calm
<1>2. Stutter => UNCHANGED <<Visible, Offered, edits>>
  BY DEF Stutter
<1>3. CASE UNCHANGED vars
  BY <1>2, <1>3 DEF vars, Visible, Offered
<1>4. CASE Next /\ Undisturbed
  <2>1. ASSUME NEW a \in Actors, NEW id \in Ids, NEW cs \in ChangeSets, BeginPropose(a, id, cs)
        PROVE  Stutter
    BY <1>1, <2>1, AsideStutters
  <2>2. ASSUME NEW a \in Actors, NEW request \in shown, Claim(a, request) PROVE Stutter
    BY <1>1, <2>2, AsideStutters
  <2>3. ASSUME NEW a \in Actors,
               \/ Fill(a) \/ GetAgain(a) \/ CopyRecord(a) \/ Plan(a) \/ FinishApply(a)
               \/ AbortApply(a) \/ Lock(a) \/ Revalidate(a) \/ Fault(a)
        PROVE  Stutter
    BY <1>1, <2>3, AsideStutters
  <2>4. ASSUME NEW a \in Actors, Backup(a) \/ Remove(a) \/ Rename(a) \/ Rollback(a) PROVE Stutter
    BY <1>1, <1>4, <2>4, WritesUnseen
  <2>5. ASSUME NEW a \in Actors, Put(a) PROVE Stutter \/ Atomic!Next
    BY <1>1, <2>5, PutOffers DEF Atomic!Next, Offered
  <2>6. ASSUME NEW a \in Actors, Commit(a) PROVE Atomic!Next
    BY <1>1, <2>6, CommitApplies DEF Atomic!Next, Offered
  <2>7. ASSUME NEW p \in Paths, NEW c \in File, Edit(p, c) PROVE Atomic!Next
    BY <1>1, <1>4, <2>7, OutsideStep DEF Atomic!Next, File
  <2>8. CASE Crash
    BY <1>1, <1>2, <1>4, <2>8, OutsideStep
  <2> QED
    BY <1>2, <1>4, <2>1, <2>2, <2>3, <2>4, <2>5, <2>6, <2>7, <2>8 DEF Next
<1> QED
  BY <1>3, <1>4

\* ApplyChanges is atomic: whatever goroutines propose, claim and apply at once,
\* and wherever a file operation fails, the files change by one whole offered
\* diff on exactly the contents it was computed from, or by an edit -- as long
\* as nobody saves a file and no crash comes while the lock is held, and the
\* rollback's own writes succeed.
THEOREM ApplyIsAtomic == Spec /\ [][Undisturbed]_vars => ImplementsAtomic
<1>1. Init => Calm
  BY InitInv DEF Init, Calm
<1>2. Init => Atomic!Init
  <2> SUFFICES ASSUME Init PROVE Atomic!Init
    OBVIOUS
  <2>1. IInv
    BY InitInv
  <2>2. Visible = disk
    BY <2>1, VisibleIs DEF SeenOK, Init
  <2> QED
    BY <2>2 DEF Init, Atomic!Init, File
<1>3. Calm /\ Calm' /\ [Next]_vars /\ [Undisturbed]_vars => [Atomic!Next]_<<Visible, Offered, edits>>
  BY AbstractStep
<1> QED
  BY <1>1, <1>2, <1>3, CalmStep, PTL DEF Spec, ImplementsAtomic, Atomic!Spec, Offered

=============================================================================
