---------------------------- MODULE MCIssuesLive ----------------------------
(***************************************************************************)
(* Sessions that go on asking for work and close what they are told to do  *)
(* leave nothing undone.                                                   *)
(***************************************************************************)
EXTENDS MCIssues

(***************************************************************************)
(* A session asks for work and each of its calls goes on, the wait for a   *)
(* row ending when nobody keeps it from it; and an AI that is told to work *)
(* on an issue again and again closes it some time.                        *)
(***************************************************************************)
Fairness ==
  \A s \in Sessions :
    /\ WF_vars(CallsNext(s) \/ ReadValues(s) \/ CallUpdate(s) \/ Transacts(s))
    /\ SF_vars(Finish(s))

LiveSpec == Spec /\ Fairness

\* Everybody may write, and no issue waits for a decision.
Workable ==
  /\ ~archived /\ editors = Users
  /\ \A i \in Issues : row[i].status \in {Unborn, "Todo", "In Progress"} \cup Closed

(***************************************************************************)
(* Everything gets done, whatever calls came between, when in the end the  *)
(* members may work: no issue is hidden from everybody by who is its       *)
(* assignee, who started it and its parts (rules 1 and 2 of next,          *)
(* hasOpenChild, SetMembership).  The instance has no blockers and epics.  *)
(***************************************************************************)
EverythingDone ==
  <>[]Workable => <>[](\A i \in Issues : row[i].status \in Closed \cup {Unborn})
=============================================================================
