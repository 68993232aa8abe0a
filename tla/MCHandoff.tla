----------------------------- MODULE MCHandoff -----------------------------
(***************************************************************************)
(* Whoever called looptrack handoff append and was told that the section   *)
(* is put aside need not come back: the hooks of any session send it.      *)
(***************************************************************************)
EXTENDS Handoff, TLC

CONSTANTS a1, c1

(***************************************************************************)
(* Hooks go on running and the server answers them, but for MaxFailures    *)
(* times; time passes; the time of a flush is not always over before the   *)
(* same file.  The processes of the command line may stop anywhere for     *)
(* ever, holding what they have claimed.                                   *)
(***************************************************************************)
Fairness ==
  /\ \A h \in Hooks : WF_vars(Stop(h) \/ FlushStep(h) \/ SendStep(h))
  /\ \A h \in Hooks, e \in Entries : SF_vars(Oldest(e, proc[h].todo) /\ Claim(h))
  /\ \A e \in Entries : WF_vars(Age(e))

LiveSpec == Spec /\ Fairness

\* A section that was put aside is sent and its file removed, unless there is no room for it.
SectionsArrive ==
  \A a \in Appends : told[a] = "spooled" ~> file[a] = "none" \/ ~Fits(Joined(a))
=============================================================================
