---------------------------- MODULE AtomicApply ----------------------------
(***************************************************************************)
(* What applying change sets promises: the workspace files change by a     *)
(* user's edit, or by one whole offered diff at the moment every file it   *)
(* touches holds the content the diff was computed from.                   *)
(***************************************************************************)
EXTENDS Naturals

CONSTANTS Paths, Contents, Gone

VARIABLES files, offered, edits   \* edits: the user's changes so far

Diffs == UNION {[touched -> [old : Contents \cup {Gone}, new : Contents \cup {Gone}]] :
                touched \in SUBSET Paths}

Init ==
  /\ files \in [Paths -> Contents \cup {Gone}]
  /\ offered = {}
  /\ edits = 0

Offer(diff) ==
  /\ diff \in Diffs
  /\ offered' = offered \cup {diff}
  /\ UNCHANGED <<files, edits>>

Apply(diff) ==
  /\ \A p \in DOMAIN diff : files[p] = diff[p].old
  /\ files' = [p \in Paths |-> IF p \in DOMAIN diff THEN diff[p].new ELSE files[p]]
  /\ UNCHANGED <<offered, edits>>

Edit(p, c) ==
  /\ files' = [files EXCEPT ![p] = c]
  /\ edits' = edits + 1
  /\ UNCHANGED offered

Next ==
  \/ \E diff \in (offered' \ offered) : Offer(diff)
  \/ \E diff \in offered : Apply(diff)
  \/ \E p \in Paths, c \in Contents \cup {Gone} : Edit(p, c)

Spec == Init /\ [][Next]_<<files, offered, edits>>
=============================================================================
