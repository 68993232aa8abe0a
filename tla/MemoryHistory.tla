---------------------------- MODULE MemoryHistory ----------------------------
(***************************************************************************)
(* What the history of a memory is to whoever reads it: contents that are  *)
(* numbered as they are written, that never change and never come back.    *)
(* The oldest ones go when there are more than Kept; whatever else is      *)
(* taken away is all that lies between two versions, and when the current  *)
(* content goes, its number is passed over.  Memory implements this with   *)
(* the row, its versions, their bodies and the records of purges.          *)
(***************************************************************************)
EXTENDS Naturals, FiniteSets

CONSTANT Kept   \* how many contents stay readable

VARIABLES last,   \* the number of the current version
          shown   \* the versions whose contents can be read, with these

vars == <<last, shown>>

Init == last = 0 /\ shown = {}

Older(b, c) == b.version < c.version

Write ==
  \E gone \in SUBSET shown, new \in shown' :
    /\ last' = last + 1 /\ new.version = last'
    /\ shown' = (shown \ gone) \cup {new}
    /\ \A b \in gone, c \in shown \ gone : Older(b, c)
    /\ Cardinality(shown') <= Kept
    /\ gone # {} => Cardinality(shown') = Kept

TakeAway(S) ==
  /\ S # {} /\ \A b \in shown \ S, c, d \in S : ~(Older(c, b) /\ Older(b, d))
  /\ shown' = shown \ S
  /\ last' = IF \E b \in S : b.version = last THEN last + 1 ELSE last

Next == Write \/ \E S \in SUBSET shown : TakeAway(S)

Spec == Init /\ [][Next]_vars

\* No version has two contents, none is newer than the current one, and there are not more than Kept.
Readable ==
  /\ \A b, c \in shown : b.version = c.version => b = c
  /\ \A b \in shown : b.version \in 1 .. last
  /\ IsFiniteSet(shown) /\ Cardinality(shown) <= Kept
=============================================================================
