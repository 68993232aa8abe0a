-------------------------- MODULE MCBlobStoreLive --------------------------
(***************************************************************************)
(* Liveness of the body store, and what it does on a good day.  Both need  *)
(* failures to end: a store whose operator's every repair crashes recovers *)
(* nothing.                                                                *)
(***************************************************************************)
EXTENDS BlobStore

PlaceWell(p) == \/ LookForBody(p) \/ TouchBody(p) \/ RenameTemp(p)
                \/ Commit(p) \/ CommitCovered(p) \/ Unmark(p)

RemoveWell(p) == \/ CountRows(p) \/ FindMarkBefore(p) \/ FindNoMarkBefore(p) \/ TakeName(p)
                 \/ SetAside(p) \/ KeepRecent(p) \/ ListAfter(p) \/ StatAfter(p)
                 \/ Recount(p) \/ Unlink(p)
                 \/ body = Missing /\ SetNothingAside(p)

Advance(p) == PlaceWell(p) \/ Abort(p) \/ RemoveWell(p) \/ Restore(p)

(***************************************************************************)
(* A running process goes on, time passes, the operator runs the repair    *)
(* again and again, to its end, and crashes and failing operations come to *)
(* an end.  Names are random in the code and never run out: behaviours in  *)
(* which leftovers take all the model's Names for ever are not behaviours  *)
(* of the store.  No request is ever promised.                             *)
(***************************************************************************)
Fairness ==
  /\ SF_vars(Tick)
  /\ \A p \in Procs : WF_vars(Advance(p)) /\ WF_vars(StartRemoval(p))
  /\ \A p \in Repairs : SF_vars(OpenAside(p)) /\ SF_vars(SweepMarks(p)) /\ WF_vars(CheckOrphan(p))

NameFree == \E n \in Names : Unused(n)

\* Nothing fails and no attachment is rejected.
Serving == \/ \E p \in Servers : Serve(p)
           \/ \E p \in Procs : StartRemoval(p) \/ PlaceWell(p) \/ RemoveWell(p) \/ Restore(p)
           \/ Tick

\* No process stops and no file operation fails.
NoFailure == \/ Serving
             \/ \E p \in Procs : Abort(p)
             \/ \E p \in Repairs : Repair(p)

LiveSpec == Spec /\ Fairness /\ <>[][NoFailure]_vars /\ []<>NameFree

WellSpec == Init /\ [][Serving]_vars

(***************************************************************************)
(* A body set aside by a removal that stopped is not lost to its rows:     *)
(* while a row keeps pointing at it, repair puts it back at its path       *)
(* (recoverBlobLeftovers).                                                 *)
(***************************************************************************)
LiveBodyReturns == <>[](live # {}) => <>[](body # Missing)

Placing == \E p \in Procs : pc[p] \in PlacePcs

(***************************************************************************)
(* The content of a body that no row will point at again is gone in the    *)
(* end, from its path and from .tmp: the mark of a stopped placer and the  *)
(* aside of a stopped remover do not keep purged content for ever.         *)
(***************************************************************************)
OrphanGoes == <>[](live = {} /\ ~Placing) => <>[](~Stored)

(***************************************************************************)
(* "When the body could not be removed, [PurgeAttachment] keeps the record *)
(* and returns an error" (the comment above it).  Under WellSpec nothing   *)
(* but a purge takes the last row away: once every process is done, the    *)
(* body is gone.                                                           *)
(***************************************************************************)
PurgeRemovesBody ==
  (live = {} /\ \A p \in Procs : pc[p] = "idle" /\ todo[p] = {}) => ~Stored
=============================================================================
