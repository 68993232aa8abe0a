---------------------------- MODULE MCLeaseLive ----------------------------
(***************************************************************************)
(* A lease does not outlive its holder's interest: one process, Keeper,    *)
(* goes on asking for it.                                                  *)
(***************************************************************************)
EXTENDS MCLease

CONSTANT Keeper

(***************************************************************************)
(* Time passes, a request that is under way is answered, Keeper asks       *)
(* whenever it believes in no lease, and it is neither refused for another *)
(* reason nor does every grant to it get lost.  Nothing is promised of the *)
(* others.                                                                 *)
(***************************************************************************)
Fairness ==
  /\ WF_vars(Tick)
  /\ \A p \in Procs : WF_vars(\E r \in pending[p] : Handle(p, r))
  /\ SF_vars(AskAcquire(Keeper, Omitted))
  /\ SF_vars(\E r \in pending[Keeper] : r.live /\ AcquireLease(Keeper, r))
  /\ SF_vars(Receive(Keeper))

\* Tokens are random in the code and never run out: the model's do not for ever.
TokenFree == \E t \in Tokens : NewToken(t)

LiveSpec == Spec /\ Fairness /\ []<>TokenFree

\* Every other process has stopped taking and extending the lease.
OthersGone == \A p \in Procs \ {Keeper} : \A r \in pending[p] : r.op \notin {"acquire", "extend"}

\* Keeper breaks nothing and waits for each answer, but a grant to it may get lost.
Patient == \A r \in pending[Keeper] : r.live /\ r.op # "break"

(***************************************************************************)
(* A holder that dies, or whose grant was lost on the way, cannot keep the *)
(* resource: when the others have gone, whoever patiently asks gets it     *)
(* again and again (the takeover after the expiry in AcquireLease).        *)
(***************************************************************************)
KeeperGetsIt ==
  <>[](OthersGone /\ Patient) => []<>(lease.left > 0 /\ lease.token \in Known(Keeper))
=============================================================================
