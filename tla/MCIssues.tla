------------------------------ MODULE MCIssues ------------------------------
EXTENDS Issues, TLC

CONSTANTS ann, bob, a1, a2, b1

\* two sessions of one user and one of another
Pair == [s \in Sessions |-> IF s = b1 THEN bob ELSE ann]

OneKind == [s \in Sessions |-> "cli"]

Alone == [i \in Issues |-> i]
Under == [i \in Issues |-> IF i = 2 THEN 1 ELSE i]
Free  == [i \in Issues |-> {}]
Chain == [i \in Issues |-> IF i = 2 THEN {1} ELSE {}]

OnlyFirst == [i \in Issues |-> IF i = 1 THEN 1 ELSE 0]

\* one issue to do, the others not created yet
FirstTodo == {[i \in Issues |-> [status |-> IF i = 1 THEN "Todo" ELSE Unborn, assignee |-> Nobody]]}
=============================================================================
