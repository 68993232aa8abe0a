----------------------------- MODULE BlobStore -----------------------------
(***************************************************************************)
(* The content-addressed body store that attachments and transcripts       *)
(* share (internal/service/blobstore.go), for ONE body: every file it      *)
(* uses carries the sha256 of that body in its name, so bodies do not      *)
(* interact.  Server processes place the body and record a row that points *)
(* at it, purge rows and remove the body once nothing points at it; repair *)
(* processes (looptrack repair-attachments, repair-transcripts) recover    *)
(* what a stopped process left in `.tmp` and remove orphans.  They share   *)
(* only files and the database: the mutex of one process (attachMu,        *)
(* blobLocks) does not reach another.  Inside a process it makes these     *)
(* operations run one at a time, hence one program counter per process.    *)
(*                                                                         *)
(* Time is the age of a file, in steps of some fraction of OrphanGrace,    *)
(* and stops mattering at Grace.                                           *)
(***************************************************************************)
EXTENDS Integers

CONSTANTS Servers, \* the processes that serve requests on the store
          Repairs, \* the processes that run a repair subcommand with --apply
          Names,   \* file names in .tmp (random in the code: never reused while held)
          NoName,
          Refs,    \* the rows that can point at the body
          Kind,    \* "attachment" or "transcript": which purge runs
          Grace,   \* OrphanGrace, asideMinAge
          Window   \* blobPlaceWindow

ASSUME GraceAssumption == Grace \in Nat /\ Window \in Nat /\ Window < Grace
ASSUME NameAssumption  == NoName \notin Names
ASSUME KindAssumption  == Kind \in {"attachment", "transcript"}

VARIABLES
  live,   \* the rows that point at the body and are not purged
  body,   \* the file at the body's path: its modification age, or Missing
  mark,   \* .tmp/inflight-<sha>-n: its age, or Missing
  aside,  \* .tmp/remove-<sha>-<time>-n: the age of its name, or Missing
  inner,  \* the body renamed into aside n: its modification age, or Missing (empty file)
  pc,     \* where each process is
  held,   \* the file in .tmp that it works on
  seen,   \* the marks its last listing of .tmp returned
  keep,   \* keepRecent of the removal it runs
  todo    \* removals it has decided on and not started

disk  == <<body, mark, aside, inner>>
local == <<pc, held, seen, keep, todo>>
vars  == <<live, disk, local>>

Procs   == Servers \cup Repairs
Missing == -1
Ages    == 0 .. Grace
Fresh   == 0 .. (Grace - 1)
File    == Ages \cup {Missing}

PlacePcs   == {"marked", "touch", "rename", "placed", "covered", "committed", "aborted"}
RemovePcs  == {"count1", "before", "name", "aside", "recent",
               "list2", "stat2", "count2", "unlink"}
RestorePcs == {"look", "restore", "drop", "putback"}

TypeOK ==
  /\ live \subseteq Refs
  /\ body \in File
  /\ mark \in [Names -> File]
  /\ aside \in [Names -> File]
  /\ inner \in [Names -> File]
  /\ pc \in [Procs -> {"idle"} \cup PlacePcs \cup RemovePcs \cup RestorePcs]
  /\ held \in [Procs -> Names \cup {NoName}]
  /\ seen \in [Procs -> SUBSET Names]
  /\ keep \in [Procs -> BOOLEAN]
  /\ todo \in [Procs -> SUBSET {"purge", "orphan"}]

Init ==
  /\ live = {}
  /\ body = Missing
  /\ mark = [n \in Names |-> Missing]
  /\ aside = [n \in Names |-> Missing]
  /\ inner = [n \in Names |-> Missing]
  /\ pc = [p \in Procs |-> "idle"]
  /\ held = [p \in Procs |-> NoName]
  /\ seen = [p \in Procs |-> {}]
  /\ keep = [p \in Procs |-> FALSE]
  /\ todo = [p \in Procs |-> {}]

Goto(p, from, to) == pc[p] = from /\ pc' = [pc EXCEPT ![p] = to]

\* os.CreateTemp: a name that no file has and no process remembers.
Unused(n) == /\ mark[n] = Missing /\ aside[n] = Missing
             /\ \A p \in Procs : held[p] # n /\ n \notin seen[p]

\* The end of an operation: its process forgets it and releases the body's lock.
Done(p) ==
  /\ pc' = [pc EXCEPT ![p] = "idle"]
  /\ held' = [held EXCEPT ![p] = NoName]
  /\ seen' = [seen EXCEPT ![p] = {}]
  /\ keep' = [keep EXCEPT ![p] = FALSE]
  /\ UNCHANGED todo

-----------------------------------------------------------------------------
(* Placing: Attach and AppendTranscriptChunk, from the mark to its removal. *)

BeginPlace(p) ==
  \E n \in Names :
    /\ Unused(n)
    /\ Goto(p, "idle", "marked")
    /\ held' = [held EXCEPT ![p] = n]
    /\ mark' = [mark EXCEPT ![n] = 0]
    /\ UNCHANGED <<live, body, aside, inner, seen, keep, todo>>

LookForBody(p) ==
  /\ Goto(p, "marked", IF body # Missing THEN "touch" ELSE "rename")
  /\ UNCHANGED <<live, disk, held, seen, keep, todo>>

\* Chtimes; a body set aside since the look is placed again from the temporary file.
TouchBody(p) ==
  /\ Goto(p, "touch", IF body # Missing THEN "placed" ELSE "rename")
  /\ body' = IF body # Missing THEN 0 ELSE Missing
  /\ UNCHANGED <<live, mark, aside, inner, held, seen, keep, todo>>

\* The temporary file was written before the lock was taken: it may be old.
RenameTemp(p) ==
  /\ Goto(p, "rename", "placed")
  /\ body' \in Ages
  /\ UNCHANGED <<live, mark, aside, inner, held, seen, keep, todo>>

\* placeBlob returns an error: the mark goes, nothing else is cleaned up.
FailPlace(p) ==
  /\ pc[p] \in {"touch", "rename"}
  /\ mark' = [mark EXCEPT ![held[p]] = Missing]
  /\ Done(p)
  /\ UNCHANGED <<live, body, aside, inner>>

\* Faulty variant: the transaction is not bound by blobPlaceWindow.
CommitLate(p) ==
  /\ Goto(p, "placed", "committed")
  /\ \E r \in Refs : live' = live \cup {r}
  /\ UNCHANGED <<disk, held, seen, keep, todo>>

\* The recording transaction commits before its context expires.  The reply
\* may be lost: the caller then cleans up after a row that exists.
Commit(p) ==
  /\ pc[p] = "placed" /\ mark[held[p]] \in 0 .. Window
  /\ \E r \in Refs : live' = live \cup {r}
  /\ \E to \in {"committed", "aborted"} : Goto(p, "placed", to)
  /\ UNCHANGED <<disk, held, seen, keep, todo>>

\* The row of an attachment that a purge covers already is purged when it is recorded.
CommitCovered(p) ==
  /\ pc[p] = "covered" /\ mark[held[p]] \in 0 .. Window
  /\ \E to \in {"committed", "aborted"} : Goto(p, "covered", to)
  /\ UNCHANGED <<live, disk, held, seen, keep, todo>>

\* Rejected (quota, archived project, sequence), failed or timed out.
Abort(p) ==
  /\ Goto(p, "placed", "aborted") \/ Goto(p, "covered", "aborted")
  /\ UNCHANGED <<live, disk, held, seen, keep, todo>>

\* The mark goes after the transaction; a failed operation then removes the body.
Unmark(p) ==
  /\ pc[p] \in {"committed", "aborted"}
  /\ mark' = [mark EXCEPT ![held[p]] = Missing]
  /\ pc' = [pc EXCEPT ![p] = IF pc[p] = "aborted" THEN "count1" ELSE "idle"]
  /\ held' = [held EXCEPT ![p] = NoName]
  /\ UNCHANGED <<live, body, aside, inner, seen, keep, todo>>

-----------------------------------------------------------------------------
(* What makes a process remove the body. *)

(***************************************************************************)
(* PurgeAttachment: one transaction, inside attachMu, reads the rows of    *)
(* the body and records the largest id.  What another server commits       *)
(* between the two stays, unless its id is not larger; a row whose id was  *)
(* given before and that is not committed yet (late) is covered too.  The  *)
(* body is removed even if no row was left to purge.                       *)
(***************************************************************************)
PurgeAttachments(p) ==
  /\ Kind = "attachment" /\ pc[p] = "idle"
  /\ \E gone \in SUBSET live, late \in SUBSET {q \in Procs : pc[q] = "placed"} :
       /\ gone = {} => late = {}
       /\ live' = live \ gone
       /\ pc' = [q \in Procs |-> IF q = p THEN "count1"
                                 ELSE IF q \in late THEN "covered" ELSE pc[q]]
  /\ UNCHANGED <<disk, held, seen, keep, todo>>

\* purgeTranscript: the transaction purges one transcript, outside the lock of
\* the body; the removal takes that lock afterwards.
PurgeTranscript(p) ==
  /\ Kind = "transcript"
  /\ \E r \in live : live' = live \ {r}
  /\ todo' = [todo EXCEPT ![p] = @ \cup {"purge"}]
  /\ UNCHANGED <<disk, pc, held, seen, keep>>

\* The repair subcommand finds a body that no row points at and that is not recent.
CheckOrphan(p) ==
  /\ live = {} /\ body = Grace
  /\ "orphan" \notin todo[p]
  /\ todo' = [todo EXCEPT ![p] = @ \cup {"orphan"}]
  /\ UNCHANGED <<live, disk, pc, held, seen, keep>>

StartRemoval(p) ==
  \E why \in todo[p] :
    /\ Goto(p, "idle", "count1")
    /\ keep' = [keep EXCEPT ![p] = (why = "orphan")]
    /\ todo' = [todo EXCEPT ![p] = @ \ {why}]
    /\ UNCHANGED <<live, disk, held, seen>>

-----------------------------------------------------------------------------
(* removeBlobGuarded *)

CountRows(p) ==
  /\ pc[p] = "count1"
  /\ IF live # {}
       THEN Done(p)
       ELSE pc' = [pc EXCEPT ![p] = "before"] /\ UNCHANGED <<held, seen, keep, todo>>
  /\ UNCHANGED <<live, disk>>

Marks == {n \in Names : mark[n] # Missing}

DropStale(S) == mark' = [n \in Names |-> IF n \in S /\ mark[n] = Grace THEN Missing ELSE mark[n]]

\* The first check of the marks: one that is found stops the removal.
FindMarkBefore(p) ==
  /\ pc[p] = "before"
  /\ \E n \in Names : mark[n] \in Fresh
  /\ DropStale(Names)
  /\ Done(p)
  /\ UNCHANGED <<live, body, aside, inner>>

\* It finds none: there is none, it was made after the listing, or the check
\* failed, which is ignored.
FindNoMarkBefore(p) ==
  /\ Goto(p, "before", "name")
  /\ \/ DropStale(Names)
     \/ UNCHANGED mark
  /\ UNCHANGED <<live, body, aside, inner, held, seen, keep, todo>>

TakeName(p) ==
  \E n \in Names :
    /\ Unused(n)
    /\ Goto(p, "name", "aside")
    /\ held' = [held EXCEPT ![p] = n]
    /\ aside' = [aside EXCEPT ![n] = 0]
    /\ UNCHANGED <<live, body, mark, inner, seen, keep, todo>>

SetAside(p) ==
  /\ Goto(p, "aside", IF keep[p] THEN "recent" ELSE "list2")
  /\ body # Missing
  /\ inner' = [inner EXCEPT ![held[p]] = body]
  /\ body' = Missing
  /\ UNCHANGED <<live, mark, aside, held, seen, keep, todo>>

\* Nothing at the path (blobAbsent), or the rename fails: the empty file goes.
SetNothingAside(p) ==
  /\ pc[p] = "aside"
  /\ aside' = [aside EXCEPT ![held[p]] = Missing]
  /\ Done(p)
  /\ UNCHANGED <<live, body, mark, inner>>

KeepRecent(p) ==
  /\ Goto(p, "recent", IF inner[held[p]] \in Fresh THEN "restore" ELSE "list2")
  /\ UNCHANGED <<live, disk, held, seen, keep, todo>>

\* blobPlaceInFlight: a listing of .tmp, then a stat of every mark it returned.
ListAfter(p) ==
  /\ Goto(p, "list2", "stat2")
  /\ seen' = [seen EXCEPT ![p] = Marks]
  /\ UNCHANGED <<live, disk, held, keep, todo>>

\* Faulty variant: the marks are searched before the body is set aside, not again after.
StatNoMark(p) ==
  /\ Goto(p, "stat2", "count2")
  /\ seen' = [seen EXCEPT ![p] = {}]
  /\ UNCHANGED <<live, disk, held, keep, todo>>

StatAfter(p) ==
  /\ Goto(p, "stat2", IF \E n \in seen[p] : mark[n] \in Fresh THEN "restore" ELSE "count2")
  /\ DropStale(seen[p])
  /\ seen' = [seen EXCEPT ![p] = {}]
  /\ UNCHANGED <<live, body, aside, inner, held, keep, todo>>

\* Faulty variant: the rows are not counted again.
CountOnce(p) ==
  /\ Goto(p, "count2", "unlink")
  /\ UNCHANGED <<live, disk, held, seen, keep, todo>>

Recount(p) ==
  /\ Goto(p, "count2", IF live # {} THEN "restore" ELSE "unlink")
  /\ UNCHANGED <<live, disk, held, seen, keep, todo>>

\* The listing, the recount or the unlink fails: the body goes back.
FailAfter(p) ==
  /\ pc[p] \in {"list2", "count2", "unlink"}
  /\ pc' = [pc EXCEPT ![p] = "restore"]
  /\ UNCHANGED <<live, disk, held, seen, keep, todo>>

\* Removes the aside; if a repair has put it back, there is nothing to remove.
Unlink(p) ==
  /\ pc[p] = "unlink"
  /\ aside' = [aside EXCEPT ![held[p]] = Missing]
  /\ inner' = [inner EXCEPT ![held[p]] = Missing]
  /\ Done(p)
  /\ UNCHANGED <<live, body, mark>>

-----------------------------------------------------------------------------
(* restoreBlob and recoverBlobLeftovers *)

LookBeforeRestore(p) ==
  /\ Goto(p, "restore", IF body # Missing THEN "drop" ELSE "putback")
  /\ UNCHANGED <<live, disk, held, seen, keep, todo>>

\* The rename replaces a body placed since the look (same content, older time).
PutBack(p) ==
  LET n == held[p] IN
  /\ pc[p] = "putback"
  /\ body' = IF aside[n] # Missing THEN inner[n] ELSE body
  /\ aside' = [aside EXCEPT ![n] = Missing]
  /\ inner' = [inner EXCEPT ![n] = Missing]
  /\ Done(p)
  /\ UNCHANGED <<live, mark>>

DropAside(p) ==
  /\ pc[p] = "drop"
  /\ aside' = [aside EXCEPT ![held[p]] = Missing]
  /\ inner' = [inner EXCEPT ![held[p]] = Missing]
  /\ Done(p)
  /\ UNCHANGED <<live, body, mark>>

\* The repair opens an aside whose name is old enough: its process may have stopped.
OpenAside(p) ==
  \E n \in Names :
    /\ aside[n] = Grace
    /\ Goto(p, "idle", "look")
    /\ held' = [held EXCEPT ![p] = n]
    /\ UNCHANGED <<live, disk, seen, keep, todo>>

\* Faulty variants: an aside whose body is not at its path is left to the
\* process that set it aside; one is removed like any temporary file.
RecoverNothing(p) ==
  /\ pc[p] = "look"
  /\ IF aside[held[p]] = Missing \/ body = Missing
       THEN Done(p)
       ELSE pc' = [pc EXCEPT ![p] = "drop"] /\ UNCHANGED <<held, seen, keep, todo>>
  /\ UNCHANGED <<live, disk>>

RecoverByDropping(p) ==
  /\ Goto(p, "look", "drop")
  /\ UNCHANGED <<live, disk, held, seen, keep, todo>>

\* It drops an empty file, or a body that is at its path again.
RecoverAside(p) ==
  LET n == held[p] IN
  /\ pc[p] = "look"
  /\ IF aside[n] = Missing
       THEN Done(p)
       ELSE /\ pc' = [pc EXCEPT ![p] = IF body # Missing \/ inner[n] = Missing
                                         THEN "drop" ELSE "restore"]
            /\ UNCHANGED <<held, seen, keep, todo>>
  /\ UNCHANGED <<live, disk>>

SweepMarks(p) ==
  /\ pc[p] = "idle"
  /\ \E n \in Names : mark[n] = Grace
  /\ DropStale(Names)
  /\ UNCHANGED <<live, body, aside, inner, local>>

-----------------------------------------------------------------------------
\* A process stops: what it left on the disk stays.
Crash(p) ==
  /\ pc[p] # "idle" \/ todo[p] # {}
  /\ pc' = [pc EXCEPT ![p] = "idle"]
  /\ held' = [held EXCEPT ![p] = NoName]
  /\ seen' = [seen EXCEPT ![p] = {}]
  /\ keep' = [keep EXCEPT ![p] = FALSE]
  /\ todo' = [todo EXCEPT ![p] = {}]
  /\ UNCHANGED <<live, disk>>

Older(a) == IF a \in Fresh THEN a + 1 ELSE a

\* Consecutive file operations take no time: a process does not sit between
\* its mark and the placed body, or between the name of an aside and the rename.
Tick ==
  /\ \A p \in Procs : pc[p] \notin {"marked", "touch", "rename", "aside"}
  /\ body' = Older(body)
  /\ mark' = [n \in Names |-> Older(mark[n])]
  /\ aside' = [n \in Names |-> Older(aside[n])]
  /\ inner' = [n \in Names |-> Older(inner[n])]
  /\ UNCHANGED <<live, local>>

Place(p) == \/ LookForBody(p) \/ TouchBody(p) \/ RenameTemp(p) \/ FailPlace(p)
            \/ Commit(p) \/ CommitCovered(p) \/ Abort(p) \/ Unmark(p)

Remove(p) == \/ CountRows(p) \/ FindMarkBefore(p) \/ FindNoMarkBefore(p) \/ TakeName(p)
             \/ SetAside(p) \/ SetNothingAside(p) \/ KeepRecent(p) \/ ListAfter(p)
             \/ StatAfter(p) \/ Recount(p) \/ FailAfter(p) \/ Unlink(p)

Restore(p) == LookBeforeRestore(p) \/ PutBack(p) \/ DropAside(p) \/ RecoverAside(p)

Serve(p) == BeginPlace(p) \/ PurgeAttachments(p) \/ PurgeTranscript(p)

Repair(p) == CheckOrphan(p) \/ OpenAside(p) \/ SweepMarks(p)

Next ==
  \/ \E p \in Servers : Serve(p)
  \/ \E p \in Repairs : Repair(p)
  \/ \E p \in Procs : StartRemoval(p) \/ Place(p) \/ Remove(p) \/ Restore(p) \/ Crash(p)
  \/ Tick

Spec == Init /\ [][Next]_vars

-----------------------------------------------------------------------------
\* A copy of the content is left, at its path or set aside.
Stored == body # Missing \/ \E n \in Names : inner[n] # Missing

(***************************************************************************)
(* The protocol of the comment above beginBlobPlace: whatever removers,    *)
(* repairs and crashes do, the content of a body that a row points at is   *)
(* never deleted; at worst it is set aside for a while.                    *)
(***************************************************************************)
NoLostBody == live # {} => Stored

Abstract == INSTANCE BlobRefs WITH stored <- Stored

(***************************************************************************)
(* The store implements BlobRefs: a row is recorded only over a stored     *)
(* body, and the last copy goes only while no row points at it.            *)
(***************************************************************************)
ImplementsRefs == Abstract!Spec

-----------------------------------------------------------------------------
(* The inductive invariant behind both. *)

AsidePcs == {"recent", "list2", "stat2", "count2", "unlink", "restore", "putback"}

\* Which process works on which file.
Holding ==
  /\ \A p \in Procs : (held[p] = NoName) <=> (pc[p] \in {"idle", "count1", "before", "name"})
  /\ \A p \in Procs : pc[p] \in PlacePcs =>
        aside[held[p]] = Missing /\ \A q \in Procs \ {p} : held[q] # held[p]
  /\ \A p \in Procs : pc[p] = "aside" =>
        /\ aside[held[p]] = 0 /\ inner[held[p]] = Missing
        /\ \A q \in Procs \ {p} : held[q] # held[p]

\* A file set aside is named before it is filled, and it is filled until it goes.
Filled ==
  /\ \A n \in Names : aside[n] = Missing => inner[n] = Missing
  /\ \A p \in Procs : pc[p] \in AsidePcs /\ aside[held[p]] # Missing => inner[held[p]] # Missing

\* A placer whose transaction can still commit.
CanCommit(z) == pc[z] = "placed" /\ mark[held[z]] \in 0 .. Window

\* No process that works on aside n will give it up while a row points at the body.
SafeForRows(n) ==
  /\ inner[n] # Missing
  /\ \A p \in Procs : held[p] = n =>
        pc[p] \in {"recent", "list2", "stat2", "count2", "look", "restore", "putback"}

\* None will give it up before placer z has committed: whoever has listed the
\* marks has seen that of z.
SafeForPlacer(n, z) ==
  /\ inner[n] # Missing
  /\ \A p \in Procs : held[p] = n =>
        \/ pc[p] \in {"recent", "list2", "look", "restore", "putback"}
        \/ pc[p] = "stat2" /\ held[z] \in seen[p]

RowsSafe    == live # {} => body # Missing \/ \E n \in Names : SafeForRows(n)
PlacersSafe == \A z \in Procs : CanCommit(z) =>
                 body # Missing \/ \E n \in Names : SafeForPlacer(n, z)

(***************************************************************************)
(* The argument of the code's comment, made precise: a copy is safe for    *)
(* the rows if every process that holds it still has its recount ahead,    *)
(* and safe for a placer if each still has its listing ahead or has seen   *)
(* the placer's mark.                                                      *)
(***************************************************************************)
IInv == TypeOK /\ Holding /\ Filled /\ RowsSafe /\ PlacersSafe
=============================================================================
