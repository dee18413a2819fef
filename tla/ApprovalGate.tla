---------------------------- MODULE ApprovalGate ----------------------------
(***************************************************************************)
(* What the server promises about a work item, without handlers, rows or   *)
(* transactions: a change is applied only after its design was granted and *)
(* then its code was granted, each granted at most once, and a refusal is  *)
(* final.                                                                  *)
(***************************************************************************)
CONSTANT WorkItems

VARIABLES
  phase,    \* how far the work item is
  granted   \* the gates the user has granted for it

Phases == {"new", "design", "code", "apply", "done", "rejected"}

Move(w, from, to) == phase[w] = from /\ phase' = [phase EXCEPT ![w] = to]

Grant(w, gate) ==
  /\ gate \notin granted[w]
  /\ granted' = [granted EXCEPT ![w] = @ \cup {gate}]

Init ==
  /\ phase = [w \in WorkItems |-> "new"]
  /\ granted = [w \in WorkItems |-> {}]

Open(w)        == Move(w, "new", "design") /\ UNCHANGED granted
GrantDesign(w) == Move(w, "design", "code") /\ Grant(w, "DESIGN")
GrantCode(w)   == Move(w, "code", "apply") /\ Grant(w, "CODE_CHANGE")
Refuse(w)      == (Move(w, "design", "rejected") \/ Move(w, "code", "rejected")) /\ UNCHANGED granted
Finish(w)      == Move(w, "apply", "done") /\ UNCHANGED granted

Next == \E w \in WorkItems :
          Open(w) \/ GrantDesign(w) \/ GrantCode(w) \/ Refuse(w) \/ Finish(w)

Spec == Init /\ [][Next]_<<phase, granted>>

=============================================================================
