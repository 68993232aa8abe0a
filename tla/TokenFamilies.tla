---------------------------- MODULE TokenFamilies ----------------------------
(***************************************************************************)
(* What a server promises of its tokens: every login begins a family, and  *)
(* a family is a chain in which each pair takes the place of the one       *)
(* before, so that one is good at a time.  A family can be ended, once and *)
(* for good, and the user can take a pair away.  Refresh implements this   *)
(* with the numbers of pairs and the marks used, revoked and dead.         *)
(***************************************************************************)
EXTENDS Naturals

CONSTANT Pairs

VARIABLES family,  \* the family of a pair, 0 for a pair that was not issued
          good,    \* the pairs that are in force
          ended    \* the families that were revoked

vars == <<family, good, ended>>

New == {n \in Pairs : family[n] = 0}
Family(f) == {n \in Pairs : family[n] = f}

Init ==
  /\ family = [n \in Pairs |-> 0]
  /\ good = {} /\ ended = {}

Login(n) ==
  /\ \E f \in Pairs : Family(f) = {} /\ family' = [family EXCEPT ![n] = f]
  /\ good' = good \cup {n}
  /\ UNCHANGED ended

Rotate(old, n) ==
  /\ family' = [family EXCEPT ![n] = family[old]]
  /\ good' = (good \ {old}) \cup {n}
  /\ UNCHANGED ended

End(f) ==
  /\ good' = good \ Family(f) /\ ended' = ended \cup {f}
  /\ UNCHANGED family

TakeAway(n) == good' = good \ {n} /\ UNCHANGED <<family, ended>>

Next ==
  \/ \E n \in New : Login(n) \/ \E old \in good : Rotate(old, n)
  \/ \E n \in Pairs \ New : End(family[n])
  \/ \E n \in good : TakeAway(n)

Spec == Init /\ [][Next]_vars

\* One pair of a family is in force, and none of a family that was ended.
OneGood ==
  /\ good \subseteq Pairs \ New
  /\ \A m, n \in good : family[m] = family[n] => m = n
  /\ \A n \in good : family[n] \notin ended

\* A family that has lost its last good pair never has one again.
OverForGood ==
  [][\A n \in Pairs \ New : good \cap Family(family[n]) = {} => (good \cap Family(family[n]))' = {}]_vars
=============================================================================
