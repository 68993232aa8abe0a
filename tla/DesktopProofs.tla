--------------------------- MODULE DesktopProofs ---------------------------
(***************************************************************************)
(* For any number of processes, pieces, versions and failures: an instance *)
(* can be found, it leaves alone what it has handed over, the old copy of  *)
(* a piece survives every moment of an update, and an update is whole or   *)
(* not at all.  The argument: only the process that holds the lock has an  *)
(* update, the pieces below the one it is at are placed, and those above   *)
(* are as they were.                                                       *)
(***************************************************************************)
EXTENDS Desktop, TLAPS

\* What is proved without the processes, and what about them.
UpdateOK  == TypeOK /\ UpdateInv
ProcessOK == LockInv /\ Findable /\ InstanceInv

\* An update under way is a record of its type.
LEMMA JobType ==
  ASSUME TypeOK, job.at # "none"
  PROVE  /\ job \in Job /\ k \in 1..Last + 1 /\ job.to \in Versions /\ job.bare \subseteq Pieces
         /\ job.at \in Forward \cup Undoing
         /\ \A i \in Pieces : job.was[i].cur \in Copies /\ job.was[i].prev \in Copies
<1>1. job \in Job
  BY DEF TypeOK, NoJob
<1>2. job.was \in [Pieces -> [cur : Copies, prev : Copies]]
  BY <1>1 DEF Job
<1>3. \A i \in Pieces : job.was[i] \in [cur : Copies, prev : Copies]
  BY <1>2
<1> QED  BY <1>1, <1>3 DEF Job, k

\* Outside of the last two phases the update is at a piece.
LEMMA AtPiece ==
  ASSUME DesktopAssumption, UpdateOK, job.at # "none", job.at \notin {"relaunch", "quits"}
  PROVE  k \in Pieces /\ PieceInv /\ disk[k] \in Piece
<1>1. k \in 1..Last + 1 /\ k # Last + 1
  BY JobType DEF UpdateOK, UpdateInv
<1> QED  BY <1>1 DEF DesktopAssumption, UpdateOK, UpdateInv, TypeOK, Disk, Pieces

\* Where the update does not change, what is known of it does not.
LEMMA UpdateStays ==
  ASSUME UpdateInv, UNCHANGED <<disk, job, torn>>
  PROVE  UpdateInv'
BY DEF UpdateInv, PieceInv, BelowInv, AboveInv, Untouched, Placed, AsBefore, At, k, Best

\* No update, nothing to know.
LEMMA UpdateGone ==
  ASSUME job' = NoJob
  PROVE  UpdateInv'
BY DEF UpdateInv, NoJob

-----------------------------------------------------------------------------
(* The update. *)

\* A step at a piece: what it needs to know of the others, and what it leaves.
LEMMA OthersStay ==
  ASSUME DesktopAssumption, UpdateOK, job.at # "none", k \in Pieces,
         NEW i \in Pieces, i # k,
         NEW copies, Set(k, copies) \/ UNCHANGED disk
  PROVE  disk'[i] = disk[i]
BY DEF UpdateOK, TypeOK, Disk, Set

\* An update that ends without having placed everything leaves every piece as it was.
EndsAsBefore == job'.at = "none" /\ ~torn' => \A i \in Pieces : disk'[i].cur = job.was[i].cur

\* Where a piece is put back, or was not placed, the update ends or goes on below.
LEMMA BackingOut ==
  ASSUME DesktopAssumption, UpdateOK, job.at # "none", k \in 1..Last + 1, BackOut,
         \A i \in Pieces : i # k => disk'[i] = disk[i],
         torn \/ torn' = FALSE => torn' = torn,
         torn => torn', torn' \in BOOLEAN,
         k \in Pieces => /\ Best(job.was[k]) \in {disk'[k].cur, disk'[k].prev}
                         /\ torn' \/ disk'[k].cur = job.was[k].cur
  PROVE  UpdateInv' /\ job' \in Job \cup {NoJob} /\ EndsAsBefore
<1>1. CASE k = 1
  <2>1. 1 \in Pieces /\ job' = NoJob
    BY <1>1 DEF BackOut, Pieces, DesktopAssumption
  <2>2. ASSUME NEW i \in Pieces, ~torn'
        PROVE  disk'[i].cur = job.was[i].cur
    <3>1. CASE i = k
      BY <2>1, <2>2, <3>1
    <3>2. CASE i # k
      <4>1. AboveInv(i) /\ disk'[i] = disk[i]
        BY <1>1, <3>2 DEF UpdateOK, UpdateInv, Pieces
      <4> QED  BY <2>2, <4>1 DEF AboveInv, Untouched, AsBefore
    <3> QED  BY <3>1, <3>2
  <2> QED  BY <2>1, <2>2, UpdateGone DEF EndsAsBefore
<1>2. CASE k # 1
  <2>1. job \in Job
    BY JobType DEF UpdateOK
  <2>2. job' = [job EXCEPT !.at = "clear", !.piece = k - 1]
    BY <1>2 DEF BackOut
  <2> k \in 2..Last + 1 /\ k = job.piece
    BY <1>2 DEF DesktopAssumption, k
  <2>9. job' = [at |-> "clear", piece |-> k - 1, to |-> job.to, bare |-> job.bare, was |-> job.was,
                waited |-> job.waited]
    BY <2>1, <2>2 DEF Job
  <2>10. k - 1 \in Pieces /\ k - 1 \in 1..Last + 1
    BY DEF Pieces, DesktopAssumption
  <2>3. /\ job' \in Job /\ job'.at = "clear" /\ k' = k - 1 /\ k' \in Pieces
        /\ job'.was = job.was /\ job'.to = job.to /\ job'.bare = job.bare
    BY <2>1, <2>9, <2>10 DEF Job, Undoing, k
  <2>4. \A i \in Pieces : i < k => BelowInv(i)
    BY DEF UpdateOK, UpdateInv
  <2>5. \A i \in Pieces : i <= k' => BelowInv(i)'
    <3> SUFFICES ASSUME NEW i \in Pieces, i <= k'
                 PROVE  BelowInv(i)'
      OBVIOUS
    <3>1. i < k /\ i # k
      BY <2>3 DEF Pieces
    <3> QED  BY <3>1, <2>3, <2>4 DEF BelowInv, Placed
  <2>6. ASSUME NEW i \in Pieces, i > k'
        PROVE  AboveInv(i)'
    <3>1. CASE i = k
      BY <3>1, <2>3 DEF AboveInv, Forward, AsBefore
    <3>2. CASE i > k
      <4>1. AboveInv(i) /\ disk'[i] = disk[i] /\ i # k
        BY <3>2 DEF UpdateOK, UpdateInv, Pieces
      <4>2. Best(job.was[i]) \in {disk[i].cur, disk[i].prev} /\ (torn \/ AsBefore(i))
        BY <4>1 DEF AboveInv, Untouched, AsBefore, Best
      <4> QED  BY <4>1, <4>2, <2>3 DEF AboveInv, Forward, AsBefore
    <3> QED  BY <3>1, <3>2, <2>3, <2>6 DEF Pieces
  <2>7. PieceInv'
    <3>1. BelowInv(k)'
      BY <2>3, <2>5 DEF Pieces
    <3> QED  BY <3>1, <2>3 DEF PieceInv, At, BelowInv, Undoing
  <2>8. /\ ~(job'.at \in {"relaunch", "quits"}) /\ k' # Last + 1 /\ ~At("fetch")' /\ job'.at \notin Forward
    BY <2>3 DEF At, Forward, Pieces, DesktopAssumption
  <2>11. EndsAsBefore
    BY <2>3 DEF EndsAsBefore
  <2> QED  BY <2>3, <2>5, <2>6, <2>7, <2>8, <2>11 DEF UpdateInv, Pieces
<1> QED  BY <1>1, <1>2

\* The next phase at the same piece.
LEMMA NextPhase ==
  ASSUME TypeOK, job.at # "none", NEW phase \in Forward \cup Undoing, NEW set \in SUBSET Pieces,
         job' = [job EXCEPT !.at = phase, !.bare = set]
  PROVE  /\ job' \in Job /\ job'.at = phase /\ k' = k /\ job'.bare = set
         /\ job'.was = job.was /\ job'.to = job.to
<1>1. job \in Job /\ job' = [at |-> phase, piece |-> k, to |-> job.to, bare |-> set, was |-> job.was,
                            waited |-> job.waited]
  BY JobType DEF Job, k
<1> QED  BY <1>1 DEF Job, k

\* The same, when the set of the bare pieces stays.
LEMMA NextPhaseOnto ==
  ASSUME TypeOK, job.at # "none", NEW phase \in Forward \cup Undoing, Onto(phase)
  PROVE  /\ job' \in Job /\ job'.at = phase /\ k' = k /\ job'.bare = job.bare
         /\ job'.was = job.was /\ job'.to = job.to
<1>1. job \in Job /\ job' = [at |-> phase, piece |-> k, to |-> job.to, bare |-> job.bare, was |-> job.was,
                            waited |-> job.waited]
  BY JobType DEF Job, Onto, k
<1> QED  BY <1>1 DEF Job, k

\* A step that stays at its piece has only that piece to look at.
LEMMA StayingAt ==
  ASSUME DesktopAssumption, UpdateOK, job.at # "none", k \in Pieces,
         k' = k, job'.was = job.was, job'.to = job.to, torn' = torn,
         job'.bare = job.bare \/ job'.bare = job.bare \cup {k},
         job.at \in Forward <=> job'.at \in Forward,
         job'.at \notin {"none", "fetch", "relaunch", "quits"},
         \A i \in Pieces : i # k => disk'[i] = disk[i],
         PieceInv'
  PROVE  UpdateInv'
<1>1. job.at \in Forward => ~torn
  BY DEF UpdateOK, UpdateInv
<1>2. k # Last + 1
  BY DEF Pieces, DesktopAssumption
<1>3. ASSUME NEW i \in Pieces, i < k
      PROVE  BelowInv(i)'
  <2>1. BelowInv(i) /\ disk'[i] = disk[i] /\ i # k
    BY <1>3 DEF UpdateOK, UpdateInv, Pieces
  <2> QED  BY <2>1 DEF BelowInv, Placed
<1>4. ASSUME NEW i \in Pieces, i > k
      PROVE  AboveInv(i)'
  <2>1. AboveInv(i) /\ disk'[i] = disk[i] /\ i # k
    BY <1>4 DEF UpdateOK, UpdateInv, Pieces
  <2> QED  BY <2>1 DEF AboveInv, Untouched, AsBefore
<1>5. \A i \in Pieces : (i < k)' <=> i < k
  OBVIOUS
<1> QED  BY <1>1, <1>2, <1>3, <1>4 DEF UpdateInv, At

\* One file is renamed or removed.
LEMMA OneSet ==
  ASSUME TypeOK, NEW i \in Pieces, NEW copies \in Piece, Set(i, copies)
  PROVE  disk' \in Disk /\ disk'[i] = copies /\ \A j \in Pieces : j # i => disk'[j] = disk[j]
BY DEF TypeOK, Disk, Set

UpdateTypes == disk' \in Disk /\ job' \in Job \cup {NoJob} /\ torn' \in BOOLEAN

LEMMA FetchKeeps ==
  ASSUME DesktopAssumption, UpdateOK, Fetch
  PROVE  UpdateInv' /\ UpdateTypes
<1>1. /\ job.at = "fetch" /\ Onto("place") /\ "place" \in Forward \cup Undoing
      /\ disk' = disk /\ torn' = torn
  BY DEF Fetch, At, Forward
<1>2. k \in Pieces /\ PieceInv
  BY <1>1, AtPiece
<1>3. /\ job' \in Job /\ job'.at = "place" /\ k' = k /\ job'.bare = job.bare
      /\ job'.was = job.was /\ job'.to = job.to
  BY <1>1, NextPhaseOnto DEF UpdateOK
<1>4. PieceInv'
  BY <1>1, <1>2, <1>3 DEF PieceInv, At, Untouched, Undoing
<1> QED  BY <1>1, <1>2, <1>3, <1>4, StayingAt DEF Forward, UpdateTypes, UpdateOK, TypeOK

LEMMA PlaceKeeps ==
  ASSUME DesktopAssumption, UpdateOK, Place
  PROVE  UpdateInv' /\ UpdateTypes
<1>1. job.at = "place" /\ torn' = torn /\ {"put", "aside"} \subseteq Forward
  BY DEF Place, At, Forward
<1>2. k \in Pieces /\ PieceInv /\ disk[k] \in Piece
  BY <1>1, AtPiece
<1>3. CASE disk[k].cur = 0
  <2>1. job' = [job EXCEPT !.at = "put", !.bare = job.bare \cup {k}] /\ disk' = disk
    BY <1>3, JobType, <1>1 DEF Place, Job, UpdateOK
  <2>2. job.bare \cup {k} \in SUBSET Pieces
    BY <1>1, <1>2, JobType DEF UpdateOK
  <2>3. /\ job' \in Job /\ job'.at = "put" /\ k' = k /\ job'.bare = job.bare \cup {k}
        /\ job'.was = job.was /\ job'.to = job.to
    BY <1>1, <2>1, <2>2, NextPhase DEF UpdateOK
  <2>4. PieceInv'
    BY <1>1, <1>2, <1>3, <2>1, <2>3 DEF PieceInv, At, Untouched, Undoing, Best
  <2> QED  BY <1>1, <1>2, <2>1, <2>3, <2>4, StayingAt DEF Forward, UpdateTypes, UpdateOK, TypeOK
<1>4. CASE disk[k].cur # 0
  <2>1. Onto("aside") /\ Set(k, [disk[k] EXCEPT !.prev = 0])
    BY <1>4 DEF Place
  <2>2. [disk[k] EXCEPT !.prev = 0] \in Piece /\ [disk[k] EXCEPT !.prev = 0].cur = disk[k].cur
    BY <1>2 DEF Piece, Copies, DesktopAssumption
  <2>3. /\ job' \in Job /\ job'.at = "aside" /\ k' = k /\ job'.bare = job.bare
        /\ job'.was = job.was /\ job'.to = job.to
    BY <1>1, <2>1, NextPhaseOnto DEF UpdateOK
  <2>4. disk' \in Disk /\ disk'[k].cur = disk[k].cur /\ \A j \in Pieces : j # k => disk'[j] = disk[j]
    BY <1>2, <2>1, <2>2, OneSet DEF UpdateOK
  <2>5. PieceInv'
    BY <1>1, <1>2, <1>4, <2>4, <2>3 DEF PieceInv, At, Untouched, AsBefore, Undoing
  <2> QED  BY <1>1, <1>2, <2>3, <2>4, <2>5, StayingAt DEF Forward, UpdateTypes, UpdateOK, TypeOK
<1> QED  BY <1>3, <1>4

LEMMA SetAsideKeeps ==
  ASSUME DesktopAssumption, UpdateOK, SetAside
  PROVE  UpdateInv' /\ UpdateTypes
<1>1. /\ job.at = "aside" /\ Onto("put") /\ "put" \in Forward \cup Undoing
      /\ Set(k, [cur |-> 0, prev |-> disk[k].cur, failed |-> disk[k].failed]) /\ torn' = torn
  BY DEF SetAside, At, Forward, Undoing
<1>2. k \in Pieces /\ PieceInv /\ disk[k] \in Piece
  BY <1>1, AtPiece
<1>3. [cur |-> 0, prev |-> disk[k].cur, failed |-> disk[k].failed] \in Piece
  BY <1>2 DEF Piece, Copies, DesktopAssumption
<1>4. /\ disk' \in Disk /\ disk'[k] = [cur |-> 0, prev |-> disk[k].cur, failed |-> disk[k].failed]
      /\ \A j \in Pieces : j # k => disk'[j] = disk[j]
  BY <1>1, <1>2, <1>3, OneSet DEF UpdateOK
<1>5. /\ job' \in Job /\ job'.at = "put" /\ k' = k /\ job'.bare = job.bare
      /\ job'.was = job.was /\ job'.to = job.to
  BY <1>1, NextPhaseOnto DEF UpdateOK
<1>6. disk'[k].cur = 0 /\ disk'[k].prev = disk[k].cur
  BY <1>2, <1>4 DEF Piece
<1>7. PieceInv'
  BY <1>1, <1>2, <1>5, <1>6 DEF PieceInv, At, AsBefore, Undoing, Best
<1> QED  BY <1>1, <1>2, <1>4, <1>5, <1>7, StayingAt DEF Forward, Undoing, UpdateTypes, UpdateOK, TypeOK

LEMMA UndoClearKeeps ==
  ASSUME DesktopAssumption, UpdateOK, UndoClear
  PROVE  UpdateInv' /\ UpdateTypes
<1>1. /\ job.at = "clear" /\ Onto("move") /\ "move" \in Forward \cup Undoing
      /\ Set(k, [disk[k] EXCEPT !.failed = 0]) /\ torn' = torn
  BY DEF UndoClear, At, Forward, Undoing
<1>2. k \in Pieces /\ PieceInv /\ disk[k] \in Piece
  BY <1>1, AtPiece
<1>3. [disk[k] EXCEPT !.failed = 0] \in Piece
  BY <1>2 DEF Piece, Copies, DesktopAssumption
<1>4. /\ disk' \in Disk /\ disk'[k] = [disk[k] EXCEPT !.failed = 0]
      /\ \A j \in Pieces : j # k => disk'[j] = disk[j]
  BY <1>1, <1>2, <1>3, OneSet DEF UpdateOK
<1>5. /\ job' \in Job /\ job'.at = "move" /\ k' = k /\ job'.bare = job.bare
      /\ job'.was = job.was /\ job'.to = job.to
  BY <1>1, NextPhaseOnto DEF UpdateOK
<1>6. disk'[k].cur = disk[k].cur /\ disk'[k].prev = disk[k].prev
  BY <1>2, <1>4 DEF Piece
<1>7. PieceInv'
  BY <1>1, <1>2, <1>5, <1>6 DEF PieceInv, At, Placed, Undoing
<1> QED  BY <1>1, <1>2, <1>4, <1>5, <1>7, StayingAt DEF Forward, Undoing, UpdateTypes, UpdateOK, TypeOK

LEMMA PutBackKeeps ==
  ASSUME DesktopAssumption, UpdateOK, PutBack
  PROVE  UpdateInv' /\ UpdateTypes
<1>1. /\ job.at = "putback" /\ Onto("drop") /\ "drop" \in Forward \cup Undoing
      /\ Set(k, [cur |-> disk[k].prev, prev |-> 0, failed |-> disk[k].failed]) /\ torn' = torn
  BY DEF PutBack, At, Forward, Undoing
<1>2. k \in Pieces /\ PieceInv /\ disk[k] \in Piece
  BY <1>1, AtPiece
<1>3. [cur |-> disk[k].prev, prev |-> 0, failed |-> disk[k].failed] \in Piece
  BY <1>2 DEF Piece, Copies, DesktopAssumption
<1>4. /\ disk' \in Disk /\ disk'[k] = [cur |-> disk[k].prev, prev |-> 0, failed |-> disk[k].failed]
      /\ \A j \in Pieces : j # k => disk'[j] = disk[j]
  BY <1>1, <1>2, <1>3, OneSet DEF UpdateOK
<1>5. /\ job' \in Job /\ job'.at = "drop" /\ k' = k /\ job'.bare = job.bare
      /\ job'.was = job.was /\ job'.to = job.to
  BY <1>1, NextPhaseOnto DEF UpdateOK
<1>6. disk'[k].cur = disk[k].prev /\ disk'[k].prev = 0
  BY <1>2, <1>4 DEF Piece
<1>7. PieceInv'
  BY <1>1, <1>2, <1>5, <1>6 DEF PieceInv, At, AsBefore, Undoing, Best
<1> QED  BY <1>1, <1>2, <1>4, <1>5, <1>7, StayingAt DEF Forward, Undoing, UpdateTypes, UpdateOK, TypeOK

LEMMA UndoMoveKeeps ==
  ASSUME DesktopAssumption, UpdateOK, UndoMove
  PROVE  UpdateInv' /\ UpdateTypes
<1> DEFINE moved == [cur |-> 0, prev |-> disk[k].prev, failed |-> disk[k].cur]
           next  == IF k \in job.bare THEN "drop" ELSE "putback"
<1>1. /\ job.at = "move" /\ Onto(next) /\ next \in Forward \cup Undoing
      /\ Set(k, moved) /\ torn' = torn
  BY DEF UndoMove, At, Undoing
<1>2. k \in Pieces /\ PieceInv /\ disk[k] \in Piece
  BY <1>1, AtPiece
<1>3. moved \in Piece
  BY <1>2 DEF Piece, Copies, DesktopAssumption
<1>4. disk' \in Disk /\ disk'[k] = moved /\ \A j \in Pieces : j # k => disk'[j] = disk[j]
  BY <1>1, <1>2, <1>3, OneSet DEF UpdateOK
<1>5. /\ job' \in Job /\ job'.at = next /\ k' = k /\ job'.bare = job.bare
      /\ job'.was = job.was /\ job'.to = job.to
  BY <1>1, NextPhaseOnto DEF UpdateOK
<1>6. disk'[k].cur = 0 /\ disk'[k].prev = disk[k].prev
  BY <1>2, <1>4 DEF Piece
<1>7. PieceInv'
  BY <1>1, <1>2, <1>5, <1>6 DEF PieceInv, At, Placed, AsBefore, Undoing, Best
<1> QED  BY <1>1, <1>2, <1>4, <1>5, <1>7, StayingAt DEF Forward, Undoing, UpdateTypes, UpdateOK, TypeOK

LEMMA PutBackFailsKeeps ==
  ASSUME DesktopAssumption, UpdateOK, PutBackFails
  PROVE  UpdateInv' /\ UpdateTypes
<1>1. /\ job.at = "putback" /\ Onto("putagain") /\ "putagain" \in Forward \cup Undoing
      /\ disk' = disk /\ torn' = torn
  BY DEF PutBackFails, At, Undoing
<1>2. k \in Pieces /\ PieceInv
  BY <1>1, AtPiece
<1>3. /\ job' \in Job /\ job'.at = "putagain" /\ k' = k /\ job'.bare = job.bare
      /\ job'.was = job.was /\ job'.to = job.to
  BY <1>1, NextPhaseOnto DEF UpdateOK
<1>4. PieceInv'
  BY <1>1, <1>2, <1>3 DEF PieceInv, At, Undoing
<1> QED  BY <1>1, <1>2, <1>3, <1>4, StayingAt DEF Forward, Undoing, UpdateTypes, UpdateOK, TypeOK

LEMMA PutFailsKeeps ==
  ASSUME DesktopAssumption, UpdateOK, PutFails
  PROVE  UpdateInv' /\ UpdateTypes /\ EndsAsBefore
<1>1. job.at = "put" /\ disk' = disk /\ torn' = torn /\ "restore" \in Forward \cup Undoing
  BY DEF PutFails, At, Forward
<1>2. k \in Pieces /\ PieceInv /\ k \in 1..Last + 1
  BY <1>1, AtPiece, JobType DEF UpdateOK
<1>3. CASE k \in job.bare
  <2>1. Best(job.was[k]) \in {disk'[k].cur, disk'[k].prev} /\ disk'[k].cur = job.was[k].cur
    BY <1>1, <1>2, <1>3 DEF PieceInv, At
  <2> QED  BY <1>1, <1>2, <1>3, <2>1, BackingOut DEF PutFails, UpdateTypes, UpdateOK, TypeOK
<1>4. CASE k \notin job.bare
  <2>1. Onto("restore")
    BY <1>4 DEF PutFails
  <2>2. /\ job' \in Job /\ job'.at = "restore" /\ k' = k /\ job'.bare = job.bare
        /\ job'.was = job.was /\ job'.to = job.to
    BY <1>1, <2>1, NextPhaseOnto DEF UpdateOK
  <2>3. PieceInv'
    BY <1>1, <1>2, <1>4, <2>2 DEF PieceInv, At, Undoing
  <2> QED  BY <1>1, <1>2, <2>2, <2>3, StayingAt DEF Forward, UpdateTypes, UpdateOK, TypeOK, EndsAsBefore
<1> QED  BY <1>3, <1>4

LEMMA PlaceFailsKeeps ==
  ASSUME DesktopAssumption, UpdateOK, PlaceFails
  PROVE  UpdateInv' /\ UpdateTypes /\ EndsAsBefore
<1>1. /\ job.at \in {"place", "aside"} /\ BackOut /\ torn' = torn
      /\ disk' = disk
  BY DEF PlaceFails, At
<1>2. k \in Pieces /\ PieceInv /\ disk[k] \in Piece /\ k \in 1..Last + 1
  BY <1>1, AtPiece, JobType DEF UpdateOK
<1>4. disk' \in Disk /\ disk'[k] = disk[k] /\ \A j \in Pieces : j # k => disk'[j] = disk[j]
  BY <1>1 DEF UpdateOK, TypeOK
<1>5. /\ Best(job.was[k]) \in {disk'[k].cur, disk'[k].prev}
      /\ torn' \/ disk'[k].cur = job.was[k].cur
  BY <1>1, <1>2, <1>4 DEF PieceInv, At, Untouched, Placed, AsBefore, Best, Piece, Undoing
<1> QED  BY <1>1, <1>2, <1>4, <1>5, BackingOut DEF UpdateTypes, UpdateOK, TypeOK

LEMMA RestoreKeeps ==
  ASSUME DesktopAssumption, UpdateOK, Restore
  PROVE  UpdateInv' /\ UpdateTypes /\ EndsAsBefore
<1>1. /\ job.at \in {"restore"} /\ BackOut /\ torn' = torn
      /\ Set(k, [cur |-> disk[k].prev, prev |-> 0, failed |-> disk[k].failed])
  BY DEF Restore, At
<1>2. k \in Pieces /\ PieceInv /\ disk[k] \in Piece /\ k \in 1..Last + 1
  BY <1>1, AtPiece, JobType DEF UpdateOK
<1>3. [cur |-> disk[k].prev, prev |-> 0, failed |-> disk[k].failed] \in Piece
  BY <1>2 DEF Piece, Copies, DesktopAssumption
<1>4. /\ disk' \in Disk /\ disk'[k] = [cur |-> disk[k].prev, prev |-> 0, failed |-> disk[k].failed]
      /\ \A j \in Pieces : j # k => disk'[j] = disk[j]
  BY <1>1, <1>2, <1>3, OneSet DEF UpdateOK
<1>5. /\ Best(job.was[k]) \in {disk'[k].cur, disk'[k].prev}
      /\ torn' \/ disk'[k].cur = job.was[k].cur
  BY <1>1, <1>2, <1>4 DEF PieceInv, At, Untouched, Placed, AsBefore, Best, Piece, Undoing
<1> QED  BY <1>1, <1>2, <1>4, <1>5, BackingOut DEF UpdateTypes, UpdateOK, TypeOK

LEMMA RestoreFailsKeeps ==
  ASSUME DesktopAssumption, UpdateOK, RestoreFails
  PROVE  UpdateInv' /\ UpdateTypes /\ EndsAsBefore
<1>1. /\ job.at \in {"restore"} /\ BackOut /\ torn' = TRUE
      /\ disk' = disk
  BY DEF RestoreFails, At
<1>2. k \in Pieces /\ PieceInv /\ disk[k] \in Piece /\ k \in 1..Last + 1
  BY <1>1, AtPiece, JobType DEF UpdateOK
<1>4. disk' \in Disk /\ disk'[k] = disk[k] /\ \A j \in Pieces : j # k => disk'[j] = disk[j]
  BY <1>1 DEF UpdateOK, TypeOK
<1>5. /\ Best(job.was[k]) \in {disk'[k].cur, disk'[k].prev}
      /\ torn' \/ disk'[k].cur = job.was[k].cur
  BY <1>1, <1>2, <1>4 DEF PieceInv, At, Untouched, Placed, AsBefore, Best, Piece, Undoing
<1> QED  BY <1>1, <1>2, <1>4, <1>5, BackingOut DEF UpdateTypes, UpdateOK, TypeOK

LEMMA UndoDropKeeps ==
  ASSUME DesktopAssumption, UpdateOK, UndoDrop
  PROVE  UpdateInv' /\ UpdateTypes /\ EndsAsBefore
<1>1. /\ job.at \in {"drop"} /\ BackOut /\ torn' = torn
      /\ Set(k, [disk[k] EXCEPT !.failed = 0])
  BY DEF UndoDrop, At
<1>2. k \in Pieces /\ PieceInv /\ disk[k] \in Piece /\ k \in 1..Last + 1
  BY <1>1, AtPiece, JobType DEF UpdateOK
<1>3. [disk[k] EXCEPT !.failed = 0] \in Piece
  BY <1>2 DEF Piece, Copies, DesktopAssumption
<1>4. /\ disk' \in Disk /\ disk'[k] = [disk[k] EXCEPT !.failed = 0]
      /\ \A j \in Pieces : j # k => disk'[j] = disk[j]
  BY <1>1, <1>2, <1>3, OneSet DEF UpdateOK
<1>5. /\ Best(job.was[k]) \in {disk'[k].cur, disk'[k].prev}
      /\ torn' \/ disk'[k].cur = job.was[k].cur
  BY <1>1, <1>2, <1>4 DEF PieceInv, At, Untouched, Placed, AsBefore, Best, Piece, Undoing
<1> QED  BY <1>1, <1>2, <1>4, <1>5, BackingOut DEF UpdateTypes, UpdateOK, TypeOK

LEMMA UndoFailsKeeps ==
  ASSUME DesktopAssumption, UpdateOK, UndoFails
  PROVE  UpdateInv' /\ UpdateTypes /\ EndsAsBefore
<1>1. /\ job.at \in {"clear", "move", "drop"} /\ BackOut /\ torn' = TRUE
      /\ disk' = disk
  BY DEF UndoFails, At
<1>2. k \in Pieces /\ PieceInv /\ disk[k] \in Piece /\ k \in 1..Last + 1
  BY <1>1, AtPiece, JobType DEF UpdateOK
<1>4. disk' \in Disk /\ disk'[k] = disk[k] /\ \A j \in Pieces : j # k => disk'[j] = disk[j]
  BY <1>1 DEF UpdateOK, TypeOK
<1>5. /\ Best(job.was[k]) \in {disk'[k].cur, disk'[k].prev}
      /\ torn' \/ disk'[k].cur = job.was[k].cur
  BY <1>1, <1>2, <1>4 DEF PieceInv, At, Untouched, Placed, AsBefore, Best, Piece, Undoing
<1> QED  BY <1>1, <1>2, <1>4, <1>5, BackingOut DEF UpdateTypes, UpdateOK, TypeOK

LEMMA PutAgainKeeps ==
  ASSUME DesktopAssumption, UpdateOK, PutAgain
  PROVE  UpdateInv' /\ UpdateTypes /\ EndsAsBefore
<1> DEFINE again == [cur |-> disk[k].failed, prev |-> disk[k].prev, failed |-> 0]
<1>1. /\ job.at = "putagain" /\ BackOut /\ torn' = TRUE
      /\ Set(k, again) \/ disk' = disk
  BY DEF PutAgain, At
<1>2. k \in Pieces /\ PieceInv /\ disk[k] \in Piece /\ k \in 1..Last + 1
  BY <1>1, AtPiece, JobType DEF UpdateOK
<1>3. again \in Piece /\ again.prev = disk[k].prev
  BY <1>2 DEF Piece, Copies, DesktopAssumption
<1>4. disk' \in Disk /\ disk'[k].prev = disk[k].prev /\ \A j \in Pieces : j # k => disk'[j] = disk[j]
  BY <1>1, <1>2, <1>3, OneSet DEF UpdateOK, TypeOK
<1>5. Best(job.was[k]) \in {disk'[k].cur, disk'[k].prev}
  BY <1>1, <1>2, <1>4 DEF PieceInv
<1> QED  BY <1>1, <1>2, <1>4, <1>5, BackingOut DEF UpdateTypes, UpdateOK, TypeOK

LEMMA PutKeeps ==
  ASSUME DesktopAssumption, UpdateOK, Put
  PROVE  UpdateInv' /\ UpdateTypes
<1> DEFINE next == IF k < Last THEN "place" ELSE "relaunch"
           new  == [disk[k] EXCEPT !.cur = job.to]
<1>1. job.at = "put" /\ Set(k, new) /\ torn' = torn /\ job' = [job EXCEPT !.at = next, !.piece = k + 1]
  BY DEF Put, At
<1>2. /\ k \in Pieces /\ PieceInv /\ disk[k] \in Piece
      /\ job \in Job /\ job.to \in Versions
  BY <1>1, AtPiece, JobType DEF UpdateOK
<1>3. new \in Piece /\ new.cur = job.to /\ new.prev = disk[k].prev
  BY <1>2 DEF Piece, Copies, Versions, DesktopAssumption
<1>4. disk' \in Disk /\ disk'[k] = new /\ \A j \in Pieces : j # k => disk'[j] = disk[j]
  BY <1>1, <1>2, <1>3, OneSet DEF UpdateOK
<1>5. job' = [at |-> next, piece |-> k + 1, to |-> job.to, bare |-> job.bare, was |-> job.was,
              waited |-> job.waited]
  BY <1>1, <1>2 DEF Job
<1>6. k + 1 \in 1..Last + 1 /\ next \in Forward
  BY <1>2 DEF Pieces, DesktopAssumption, Forward
<1>7. /\ job' \in Job /\ job'.at = next /\ k' = k + 1 /\ job'.bare = job.bare
      /\ job'.was = job.was /\ job'.to = job.to
  BY <1>2, <1>5, <1>6 DEF Job, k
<1>8. ASSUME NEW i \in Pieces, i < k'
      PROVE  BelowInv(i)'
  <2>1. CASE i = k
    BY <2>1, <1>1, <1>2, <1>3, <1>4, <1>7 DEF PieceInv, BelowInv, Placed
  <2>2. CASE i # k
    <3>1. i < k
      BY <2>2, <1>7, <1>8, <1>2 DEF Pieces
    <3>2. BelowInv(i) /\ disk'[i] = disk[i]
      BY <1>1, <1>4, <2>2, <3>1 DEF UpdateOK, UpdateInv
    <3> QED  BY <3>2, <1>7 DEF BelowInv, Placed
  <2> QED  BY <2>1, <2>2
<1>9. ASSUME NEW i \in Pieces, i > k
      PROVE  /\ disk'[i] = disk[i]
             /\ disk[i].cur = job.was[i].cur /\ disk[i].prev = job.was[i].prev /\ i \notin job.bare
  <2>1. AboveInv(i) /\ i # k
    BY <1>1, <1>9, <1>2 DEF UpdateOK, UpdateInv, Pieces
  <2> QED  BY <2>1, <1>1, <1>4 DEF AboveInv, Forward, Untouched
<1>10. ASSUME NEW i \in Pieces, i > k'
       PROVE  AboveInv(i)'
  <2>1. i > k
    BY <1>10, <1>7, <1>2 DEF Pieces
  <2> QED  BY <2>1, <1>9, <1>6, <1>7 DEF AboveInv, Untouched
<1>11. k' <= Last => PieceInv'
  <2> SUFFICES ASSUME k' <= Last
               PROVE  PieceInv'
    OBVIOUS
  <2>1. k' \in Pieces /\ k' > k /\ job'.at = "place"
    BY <1>2, <1>7 DEF Pieces, DesktopAssumption
  <2>2. /\ disk'[k'].cur = job.was[k'].cur /\ disk'[k'].prev = job.was[k'].prev
        /\ k' \notin job.bare
    BY <2>1, <1>9
  <2> QED  BY <2>1, <2>2, <1>7 DEF PieceInv, At, Untouched, Undoing
<1>12. (job'.at \in {"relaunch", "quits"} <=> k' = Last + 1) /\ ~At("fetch")'
  BY <1>2, <1>7 DEF Pieces, DesktopAssumption, At
<1>13. ~torn'
  BY <1>1 DEF UpdateOK, UpdateInv, Forward
<1> QED  BY <1>1, <1>4, <1>7, <1>8, <1>10, <1>11, <1>12, <1>13
         DEF UpdateInv, UpdateTypes, UpdateOK, TypeOK

\* Everything is placed when the new version is started, and when the old one then quits.
LEMMA AllPlaced ==
  ASSUME DesktopAssumption, UpdateOK, job.at \in {"relaunch", "quits"}
  PROVE  k = Last + 1 /\ \A i \in Pieces : disk[i].cur = job.to /\ BelowInv(i)
<1>1. k = Last + 1
  BY DEF UpdateOK, UpdateInv
<1>2. \A i \in Pieces : BelowInv(i)
  BY <1>1 DEF UpdateOK, UpdateInv, Pieces, DesktopAssumption
<1> QED  BY <1>1, <1>2 DEF BelowInv, Placed

LEMMA RelaunchKeeps ==
  ASSUME DesktopAssumption, UpdateOK, NEW q \in Procs, Relaunch(q)
  PROVE  UpdateInv' /\ UpdateTypes
<1>1. job.at = "relaunch" /\ Onto("quits") /\ disk' = disk /\ torn' = torn /\ "quits" \in Forward \cup Undoing
  BY DEF Relaunch, At, Forward
<1>2. k = Last + 1 /\ \A i \in Pieces : BelowInv(i)
  BY <1>1, AllPlaced
<1>3. /\ job' \in Job /\ job'.at = "quits" /\ k' = k /\ job'.bare = job.bare
      /\ job'.was = job.was /\ job'.to = job.to
  BY <1>1, NextPhaseOnto DEF UpdateOK
<1>4. \A i \in Pieces : BelowInv(i)' /\ ~(i > k)
  BY <1>1, <1>2, <1>3 DEF BelowInv, Placed, Pieces, DesktopAssumption
<1>5. ~torn
  BY <1>1 DEF UpdateOK, UpdateInv, Forward
<1>6. ~(k <= Last)
  BY <1>2 DEF DesktopAssumption
<1> QED  BY <1>1, <1>2, <1>3, <1>4, <1>5, <1>6 DEF UpdateInv, At, UpdateTypes, UpdateOK, TypeOK

LEMMA RelaunchFailsKeeps ==
  ASSUME DesktopAssumption, UpdateOK, RelaunchFails
  PROVE  UpdateInv' /\ UpdateTypes /\ EndsAsBefore
<1>1. job.at = "relaunch" /\ BackOut /\ disk' = disk /\ torn' = torn
  BY DEF RelaunchFails, At
<1>2. k = Last + 1 /\ k \in 1..Last + 1 /\ k \notin Pieces
  BY <1>1, AllPlaced DEF Pieces, DesktopAssumption
<1> QED  BY <1>1, <1>2, BackingOut DEF UpdateTypes, UpdateOK, TypeOK

LEMMA BeginKeeps ==
  ASSUME DesktopAssumption, UpdateOK, NEW v \in Versions, NEW waited \in BOOLEAN, Begin(v, waited)
  PROVE  UpdateInv' /\ UpdateTypes
<1> DEFINE was == [i \in Pieces |-> [cur |-> disk[i].cur, prev |-> disk[i].prev]]
<1>1. /\ job' = [at |-> "fetch", piece |-> 1, to |-> v, bare |-> {}, waited |-> waited, was |-> was]
      /\ torn' = FALSE /\ disk' = disk
  BY DEF Begin
<1>2. \A i \in Pieces : disk[i] \in Piece
  BY DEF UpdateOK, TypeOK, Disk
<1>3. was \in [Pieces -> [cur : Copies, prev : Copies]]
  BY <1>2 DEF Piece
<1>4. job' \in Job /\ job'.at = "fetch" /\ k' = 1 /\ job'.bare = {} /\ job'.was = was
  BY <1>1, <1>3 DEF Job, Forward, DesktopAssumption, k
<1>5. \A i \in Pieces : Untouched(i)'
  BY <1>1, <1>4 DEF Untouched
<1>6. PieceInv'
  BY <1>4, <1>5 DEF PieceInv, At, Undoing, Pieces, DesktopAssumption
<1>7. \A i \in Pieces : ~(i < 1) /\ AboveInv(i)'
  BY <1>4, <1>5 DEF AboveInv, Forward, Pieces
<1>8. k' # Last + 1 /\ 1 # Last + 1
  BY <1>4 DEF DesktopAssumption
<1>9. UpdateInv'
  BY <1>1, <1>4, <1>6, <1>7, <1>8 DEF UpdateInv, At
<1> QED  BY <1>1, <1>4, <1>9 DEF UpdateTypes, UpdateOK, TypeOK

LEMMA JobKeeps ==
  ASSUME DesktopAssumption, UpdateOK, JobNext \/ \E v \in Versions, w \in BOOLEAN : Begin(v, w)
  PROVE  UpdateInv' /\ UpdateTypes
<1>1. CASE JobNext
  <2>1. CASE FetchFails \/ QuitAfter
    BY <2>1, UpdateGone DEF FetchFails, QuitAfter, UpdateTypes, UpdateOK, TypeOK
  <2> QED
    BY <1>1, <2>1, FetchKeeps, PlaceKeeps, SetAsideKeeps, PutKeeps, RestoreKeeps, UndoClearKeeps, UndoMoveKeeps,
       PutBackKeeps, PutAgainKeeps, UndoDropKeeps, PlaceFailsKeeps, PutFailsKeeps, RestoreFailsKeeps,
       PutBackFailsKeeps, UndoFailsKeeps, RelaunchFailsKeeps, RelaunchKeeps
    DEF JobNext, Renames, Undoes, Failures
<1>2. CASE \E v \in Versions, w \in BOOLEAN : Begin(v, w)
  BY <1>2, BeginKeeps
<1> QED  BY <1>1, <1>2

-----------------------------------------------------------------------------
(* The processes. *)

LEMMA InitIInv == ASSUME DesktopAssumption, Init PROVE IInv
<1>5. {[cur |-> v, prev |-> 0, failed |-> 0] : v \in {0, 1}} \subseteq Piece
  BY DEF DesktopAssumption, Piece, Copies
<1>6. disk \in Disk
  BY <1>5 DEF Init, Disk
<1>7. 0 \in Copies /\ "gone" \in Places
  BY DEF DesktopAssumption, Copies, Places
<1>8. pc \in [Procs -> Places] /\ ver \in [Procs -> Copies]
  BY <1>7 DEF Init
<1>1. TypeOK
  BY <1>6, <1>7, <1>8 DEF Init, TypeOK, Wanted
<1>2. LockInv /\ Findable
  BY DEF DesktopAssumption, Init, LockInv, Findable, Holding, Instance
<1>3. job.at = "none"
  BY DEF Init, NoJob
<1>4. InstanceInv /\ UpdateInv /\ HandedOver
  BY <1>3 DEF Init, InstanceInv, UpdateInv, HandedOver
<1> QED  BY <1>1, <1>2, <1>4 DEF IInv

\* An update under way belongs to the instance that holds the lock.
LEMMA JobOfInstance ==
  ASSUME IInv, job.at # "none"
  PROVE  lock # NoProc /\ lock \in Procs /\ pc[lock] \in Instance \ {"boots"}
BY DEF IInv, InstanceInv, TypeOK

LEMMA BeginProc ==
  ASSUME DesktopAssumption, IInv, NEW v \in Versions, NEW waited \in BOOLEAN, Begin(v, waited)
  PROVE  ProcessOK' /\ HandedOver'
<1>1. /\ lock # NoProc /\ pc[lock] = "serves" /\ job.at = "none" /\ job'.at = "fetch"
      /\ disk' = disk /\ UNCHANGED <<lock, file, pc, quitting, handed>>
  BY DEF Begin, JobUnchanged, procVars, At
<1>2. LockInv' /\ Findable' /\ HandedOver'
  BY <1>1 DEF IInv, LockInv, Findable, HandedOver
<1>3. InstanceInv'
  BY <1>1 DEF IInv, InstanceInv, Instance
<1> QED  BY <1>2, <1>3 DEF ProcessOK

LEMMA QuitAfterProc ==
  ASSUME DesktopAssumption, IInv, QuitAfter
  PROVE  ProcessOK' /\ HandedOver'
<1>1. /\ job.at = "quits" /\ quitting' = TRUE /\ job'.at = "none"
      /\ disk' = disk /\ UNCHANGED <<lock, file, pc, handed>>
  BY DEF QuitAfter, procVars, At, NoJob
<1>2. LockInv' /\ Findable' /\ HandedOver'
  BY <1>1 DEF IInv, LockInv, Findable, HandedOver
<1>3. lock # NoProc /\ pc[lock] \in Instance
  BY <1>1, JobOfInstance
<1>4. InstanceInv'
  BY <1>1, <1>3 DEF InstanceInv
<1> QED  BY <1>2, <1>4 DEF ProcessOK

LEMMA RelaunchProc ==
  ASSUME DesktopAssumption, IInv, NEW q \in Procs, Relaunch(q)
  PROVE  ProcessOK' /\ HandedOver'
<1>1. /\ job.at = "relaunch" /\ job'.at = "quits" /\ handed' = job.to /\ pc[q] = "gone"
      /\ pc' = [pc EXCEPT ![q] = "takesOver"]
      /\ disk' = disk /\ UNCHANGED <<lock, file, quitting>>
  BY JobType DEF Relaunch, Onto, At, IInv, Job
<1>2. pc \in [Procs -> Places]
  BY DEF IInv, TypeOK
<1>3. LockInv' /\ Findable'
  BY <1>1, <1>2 DEF IInv, LockInv, Findable, Holding, Instance
<1>4. lock \in Procs /\ lock # NoProc /\ pc[lock] \in Instance \ {"boots"} /\ lock # q
  BY <1>1, JobOfInstance DEF Instance
<1>5. InstanceInv'
  BY <1>1, <1>2, <1>4 DEF IInv, InstanceInv
<1>6. HandedOver'
  BY <1>1, AllPlaced DEF HandedOver, IInv, UpdateOK
<1> QED  BY <1>3, <1>5, <1>6 DEF ProcessOK

\* All other steps of the update leave the processes alone; after a handover there is none that touches a file.
LEMMA StepProc ==
  ASSUME DesktopAssumption, IInv, Fetch \/ Renames \/ Undoes \/ Failures
  PROVE  ProcessOK' /\ HandedOver'
<1>1. UNCHANGED <<lock, file, pc, quitting, handed>>
  BY DEF Fetch, Renames, Undoes, Failures, Place, SetAside, Put, Restore, UndoClear, UndoMove, PutBack, PutAgain,
     UndoDrop, FetchFails, PlaceFails, PutFails, RestoreFails, PutBackFails, UndoFails, RelaunchFails,
     JobUnchanged, JobFault, procVars
<1>2. job.at # "none" /\ job.at # "quits"
  BY DEF Fetch, Renames, Undoes, Failures, Place, SetAside, Put, Restore, UndoClear, UndoMove, PutBack, PutAgain,
     UndoDrop, FetchFails, PlaceFails, PutFails, RestoreFails, PutBackFails, UndoFails, RelaunchFails, At
<1>3. lock # NoProc /\ pc[lock] \in Instance \ {"boots"}
  BY <1>2, JobOfInstance
<1>4. handed # 0 => job' = NoJob /\ disk' = disk /\ quitting
  <2> SUFFICES ASSUME handed # 0
               PROVE  job' = NoJob /\ disk' = disk /\ quitting
    OBVIOUS
  <2>1. job.at = "fetch" /\ quitting
    BY <1>2 DEF IInv, InstanceInv
  <2>2. FetchFails
    BY <2>1 DEF Fetch, Renames, Undoes, Failures, Place, SetAside, Put, Restore, UndoClear, UndoMove, PutBack,
       PutAgain, UndoDrop, PlaceFails, PutFails, RestoreFails, PutBackFails, UndoFails, RelaunchFails, At
  <2> QED  BY <2>1, <2>2 DEF FetchFails
<1>5. LockInv' /\ Findable' /\ HandedOver'
  BY <1>1, <1>4 DEF IInv, LockInv, Findable, HandedOver
<1>6. InstanceInv'
  BY <1>1, <1>3, <1>4 DEF IInv, InstanceInv, NoJob
<1> QED  BY <1>5, <1>6 DEF ProcessOK

\* The update does not disturb what is known of the processes, nor a handover.
LEMMA JobIInv ==
  ASSUME DesktopAssumption, IInv, JobNext \/ \E v \in Versions, w \in BOOLEAN : Begin(v, w)
  PROVE  IInv'
<1>1. UpdateInv' /\ UpdateTypes
  BY JobKeeps DEF IInv, UpdateOK
<1>2. ProcessOK' /\ HandedOver'
  BY BeginProc, QuitAfterProc, RelaunchProc, StepProc DEF JobNext
<1>3. TypeOK'
  <2>1. CASE \E q \in Procs : Relaunch(q)
    <3> PICK q \in Procs : Relaunch(q)
      BY <2>1
    <3>1. disk[1] \in Piece /\ job.to \in Versions
      BY JobType DEF IInv, TypeOK, Disk, Pieces, DesktopAssumption, Relaunch, At
    <3>2. disk[1].cur \in Copies /\ job.to \in Copies
      BY <3>1 DEF Piece, Versions, Copies, DesktopAssumption
    <3> QED  BY <1>1, <3>2 DEF Relaunch, IInv, TypeOK, UpdateTypes, Places
  <2>2. CASE QuitAfter
    BY <1>1, <2>2 DEF QuitAfter, procVars, IInv, TypeOK, UpdateTypes
  <2>3. CASE Failures
    BY <1>1, <2>3 DEF Failures, FetchFails, PlaceFails, PutFails, RestoreFails, PutBackFails, UndoFails,
       RelaunchFails, JobFault, JobUnchanged, Fault, procVars, IInv, TypeOK, UpdateTypes
  <2>4. CASE Fetch \/ Renames \/ Undoes \/ \E v \in Versions, w \in BOOLEAN : Begin(v, w)
    BY <1>1, <2>4 DEF Fetch, Renames, Undoes, Place, SetAside, Put, Restore, UndoClear, UndoMove, PutBack,
       PutAgain, UndoDrop, Begin, JobUnchanged, procVars, IInv, TypeOK, UpdateTypes
  <2> QED  BY <2>1, <2>2, <2>3, <2>4 DEF JobNext
<1> QED  BY <1>1, <1>2, <1>3 DEF IInv, ProcessOK

\* Of a process that does not hold the lock nothing is said.
LEMMA MovesOutside ==
  ASSUME DesktopAssumption, IInv, NEW p \in Procs, pc[p] \notin Holding,
         NEW place \in Places \ Holding, pc' = [pc EXCEPT ![p] = place],
         UNCHANGED <<disk, lock, file, job, torn, handed, quitting>>
  PROVE  LockInv' /\ Findable' /\ InstanceInv' /\ UpdateInv' /\ HandedOver'
<1>1. pc \in [Procs -> Places] /\ LockInv
  BY DEF IInv, TypeOK
<1>2. LockInv' /\ Findable'
  BY <1>1 DEF IInv, LockInv, Findable, Holding, Instance
<1>3. lock # p
  BY <1>1 DEF LockInv
<1>4. lock # NoProc => lock \in Procs
  BY DEF IInv, TypeOK
<1>5. InstanceInv'
  BY <1>1, <1>3, <1>4 DEF IInv, InstanceInv
<1> QED  BY <1>2, <1>5, UpdateStays DEF IInv, HandedOver

\* The lock is released, by its holder.
LEMMA Releasing ==
  ASSUME DesktopAssumption, IInv, NEW p \in Procs, lock = p, pc' = [pc EXCEPT ![p] = "gone"], Released,
         UNCHANGED <<disk, file>>
  PROVE  LockInv' /\ Findable' /\ InstanceInv' /\ UpdateInv' /\ HandedOver'
<1>1. pc \in [Procs -> Places] /\ LockInv /\ NoProc \notin Procs
  BY DEF IInv, TypeOK, DesktopAssumption
<1>2. LockInv' /\ Findable'
  BY <1>1 DEF IInv, LockInv, Findable, Holding, Instance, Released
<1>3. job'.at = "none" /\ handed' = 0 /\ quitting' = FALSE /\ lock' = NoProc
  BY DEF Released, NoJob
<1>4. InstanceInv' /\ HandedOver'
  BY <1>3 DEF InstanceInv, HandedOver
<1> QED  BY <1>2, <1>4, UpdateGone DEF Released

\* The lock is taken.
LEMMA Locking ==
  ASSUME DesktopAssumption, IInv, NEW p \in Procs, lock = NoProc, lock' = p,
         NEW place \in {"boots", "probes"}, pc' = [pc EXCEPT ![p] = place],
         UNCHANGED <<disk, file, job, torn, handed, quitting>>
  PROVE  LockInv' /\ Findable' /\ InstanceInv' /\ UpdateInv' /\ HandedOver'
<1>1. pc \in [Procs -> Places] /\ LockInv /\ NoProc \notin Procs
  BY DEF IInv, TypeOK, DesktopAssumption
<1>2. LockInv' /\ Findable'
  BY <1>1 DEF IInv, LockInv, Findable, Holding, Instance
<1>3. job.at = "none" /\ handed = 0 /\ ~quitting
  BY DEF IInv, InstanceInv
<1>4. InstanceInv'
  BY <1>1, <1>3 DEF InstanceInv
<1> QED  BY <1>2, <1>4, UpdateStays DEF IInv, HandedOver

\* The instance goes on: it boots, serves, closes, leaves.
LEMMA GoingOn ==
  ASSUME DesktopAssumption, IInv, NEW p \in Procs, Boot(p) \/ Close(p) \/ ClearState(p)
  PROVE  LockInv' /\ Findable' /\ InstanceInv' /\ UpdateInv' /\ HandedOver'
<1>1. pc \in [Procs -> Places] /\ LockInv
  BY DEF IInv, TypeOK
<1>2. lock = p /\ UNCHANGED <<disk, lock, job, torn, handed, quitting>> /\ NoProc # p
  BY <1>1 DEF Boot, Close, ClearState, LockInv, Holding, Instance, DesktopAssumption
<1>3. LockInv' /\ Findable'
  BY <1>1, <1>2 DEF IInv, LockInv, Findable, Holding, Instance, Boot, Close, ClearState, Moves
<1>4. InstanceInv'
  BY <1>1, <1>2 DEF IInv, InstanceInv, Instance, Boot, Close, ClearState, Moves
<1> QED  BY <1>2, <1>3, <1>4, UpdateStays DEF IInv, HandedOver

\* The instance is to quit.
LEMMA ToQuit ==
  ASSUME DesktopAssumption, IInv, NEW p \in Procs, pc[p] = "serves", quitting' = TRUE,
         UNCHANGED <<disk, lock, file, job, torn, handed, pc>>
  PROVE  LockInv' /\ Findable' /\ InstanceInv' /\ UpdateInv' /\ HandedOver'
<1>1. lock = p /\ NoProc # p
  BY DEF IInv, LockInv, Holding, Instance, DesktopAssumption
<1>2. LockInv' /\ Findable' /\ HandedOver'
  BY DEF IInv, LockInv, Findable, HandedOver
<1>3. InstanceInv'
  BY <1>1 DEF IInv, InstanceInv, Instance
<1> QED  BY <1>2, <1>3, UpdateStays DEF IInv

LEMMA StartingIInv ==
  ASSUME DesktopAssumption, IInv, NEW p \in Procs, Starting(p)
  PROVE  IInv'
<1>1. pc[p] \in Places /\ {"gone", "starts", "reads", "takesOver"} \subseteq Places \ Holding
  BY DEF IInv, TypeOK, Places, Holding, Instance
<1>2. CASE StartLocks(p)
  BY <1>2, Locking DEF StartLocks, Moves, IInv, TypeOK, Places, Instance
<1>3. CASE Start(p)
  <2>1. disk[1].cur \in Copies
    BY DEF IInv, TypeOK, Disk, Piece, Pieces, DesktopAssumption
  <2> QED  BY <1>1, <1>3, <2>1, MovesOutside DEF Start, IInv, TypeOK
<1>4. CASE FindsLocked(p) \/ ReadsState(p) \/ TakeoverTimesOut(p)
  <2>1. ver' \in [Procs -> Copies]
    BY <1>4 DEF FindsLocked, ReadsState, TakeoverTimesOut, Moves, Ends, IInv, TypeOK, Copies, DesktopAssumption
  <2>2. PICK place \in Places \ Holding : pc' = [pc EXCEPT ![p] = place]
    BY <1>1, <1>4 DEF FindsLocked, ReadsState, TakeoverTimesOut, Moves, Ends
  <2>3. /\ pc[p] \notin Holding
        /\ UNCHANGED <<disk, lock, file, quitting, job, handed, torn, wanted, faults>>
    BY <1>4 DEF FindsLocked, ReadsState, TakeoverTimesOut, Holding, Instance
  <2>4. LockInv' /\ Findable' /\ InstanceInv' /\ UpdateInv' /\ HandedOver'
    BY <2>2, <2>3, MovesOutside
  <2>5. pc' \in [Procs -> Places]
    BY <2>2 DEF IInv, TypeOK
  <2> QED  BY <2>1, <2>3, <2>4, <2>5 DEF IInv, TypeOK
<1> QED  BY <1>2, <1>3, <1>4 DEF Starting

LEMMA LivingIInv ==
  ASSUME DesktopAssumption, IInv, NEW p \in Procs, Living(p)
  PROVE  IInv'
<1>1. pc \in [Procs -> Places] /\ "gone" \in Places \ Holding /\ Instance \subseteq Places \cap Holding
  BY DEF IInv, TypeOK, Places, Holding, Instance
<1>2. CASE Boot(p) \/ Close(p) \/ ClearState(p)
  BY <1>1, <1>2, GoingOn DEF Boot, Close, ClearState, Moves, IInv, TypeOK, Instance, Wanted
<1>3. CASE Quit(p)
  BY <1>3, ToQuit DEF Quit, procVars, IInv, TypeOK, Wanted
<1>4. CASE BootFails(p) \/ Leave(p) \/ (Kill(p) /\ lock = p)
  <2>1. lock = p
    BY <1>4 DEF BootFails, Leave, IInv, LockInv, Holding, Instance
  <2>4. Ends(p) /\ Released /\ UNCHANGED <<disk, file, torn>>
    BY <1>4 DEF BootFails, Leave, Kill
  <2>5. wanted' \in Wanted
    BY <1>4 DEF Wanted, BootFails, Leave, Kill, IInv, TypeOK
  <2>6. faults' \in Nat
    BY <1>4 DEF BootFails, Leave, Kill, Fault, IInv, TypeOK
  <2>2. Ends(p) /\ Released /\ UNCHANGED <<disk, file, torn>> /\ wanted' \in Wanted /\ faults' \in Nat
    BY <2>4, <2>5, <2>6
  <2>3. ver' \in [Procs -> Copies] /\ pc' \in [Procs -> Places]
    BY <1>1, <2>2 DEF Ends, IInv, TypeOK, Copies, DesktopAssumption
  <2> QED  BY <2>1, <2>2, <2>3, Releasing DEF Ends, Released, IInv, TypeOK, Copies, DesktopAssumption
<1>5. CASE Kill(p) /\ lock # p
  <2>1. pc[p] \notin Holding
    BY <1>5 DEF IInv, LockInv
  <2>2. Ends(p) /\ UNCHANGED <<disk, lock, file, quitting, job, handed, torn>> /\ wanted' \in Wanted /\ faults' \in Nat
    BY <1>5 DEF Wanted, Kill, Fault, IInv, TypeOK
  <2>3. ver' \in [Procs -> Copies] /\ pc' \in [Procs -> Places]
    BY <1>1, <2>2 DEF Ends, IInv, TypeOK, Copies, DesktopAssumption
  <2> QED  BY <1>1, <2>1, <2>2, <2>3, MovesOutside DEF Ends, IInv, TypeOK
<1> QED  BY <1>2, <1>3, <1>4, <1>5 DEF Living

LEMMA StoppingIInv ==
  ASSUME DesktopAssumption, IInv, NEW p \in Procs, Stopping(p)
  PROVE  IInv'
<1>1. /\ pc \in [Procs -> Places] /\ "probes" \in Places
      /\ {"gone", "asks", "aims", "awaits"} \subseteq Places \ Holding
  BY DEF IInv, TypeOK, Places, Holding, Instance
<1>2. CASE Probe(p)
  BY <1>1, <1>2, Locking DEF Probe, Moves, IInv, TypeOK
<1>3. CASE ProbeEnds(p)
  <2>1. lock = p
    BY <1>3 DEF ProbeEnds, IInv, LockInv, Holding
  <2>2. Ends(p) /\ Released /\ UNCHANGED <<disk, file, torn, wanted, faults>>
    BY <1>3 DEF ProbeEnds
  <2>3. ver' \in [Procs -> Copies] /\ pc' \in [Procs -> Places]
    BY <1>1, <2>2 DEF Ends, IInv, TypeOK, Copies, DesktopAssumption
  <2> QED  BY <2>1, <2>2, <2>3, Releasing DEF Ends, Released, IInv, TypeOK, Copies, DesktopAssumption
<1>4. CASE RunQuit(p) \/ AskFinds(p) \/ GiveUp(p) \/ Signal(p)
  <2>1. ver' \in [Procs -> Copies] /\ pc[p] \notin Holding
    BY <1>4 DEF RunQuit, AskFinds, GiveUp, Signal, Moves, Ends, IInv, TypeOK, Copies, DesktopAssumption,
       Holding, Instance
  <2>2. PICK place \in Places \ Holding : pc' = [pc EXCEPT ![p] = place]
    BY <1>1, <1>4 DEF RunQuit, AskFinds, GiveUp, Signal, Moves, Ends
  <2>3. UNCHANGED <<disk, lock, file, job, handed, torn, faults>>
    BY <1>4 DEF RunQuit, AskFinds, GiveUp, Signal
  <2>4. CASE quitting' = quitting /\ wanted' = wanted
    BY <2>1, <2>2, <2>3, <2>4, <1>1, MovesOutside DEF IInv, TypeOK
  <2>5. CASE Signal(p) /\ pc[file] = "serves" /\ quitting' = TRUE /\ wanted' = "no"
    <3>1. file \in Procs /\ file # p /\ lock = file /\ NoProc # file
      BY <2>5 DEF Signal, IInv, TypeOK, LockInv, Holding, Instance, DesktopAssumption
    <3>2. LockInv' /\ Findable'
      BY <1>1, <2>1, <2>2, <2>3, <3>1 DEF IInv, LockInv, Findable, Holding, Instance
    <3>3. InstanceInv'
      BY <1>1, <2>2, <2>3, <2>5, <3>1 DEF IInv, InstanceInv, Instance
    <3>4. UpdateInv' /\ HandedOver'
      BY <2>3, UpdateStays DEF IInv, HandedOver
    <3> QED  BY <1>1, <2>1, <2>2, <2>3, <2>5, <3>2, <3>3, <3>4 DEF IInv, TypeOK, Wanted
  <2> QED  BY <1>4, <2>4, <2>5 DEF RunQuit, AskFinds, GiveUp, Signal
<1> QED  BY <1>2, <1>3, <1>4 DEF Stopping

LEMMA NextIInv == ASSUME DesktopAssumption, IInv, [Next]_vars PROVE IInv'
<1>1. CASE \E p \in Procs : Starting(p) \/ Living(p) \/ Stopping(p)
  BY <1>1, StartingIInv, LivingIInv, StoppingIInv
<1>2. CASE JobNext \/ \E v \in Versions, w \in BOOLEAN : Begin(v, w)
  BY <1>2, JobIInv
<1>3. CASE UNCHANGED vars
  <2>1. UNCHANGED <<disk, lock, file, pc, ver, quitting, job, handed, torn, faults, wanted>>
    BY <1>3 DEF vars, procVars
  <2>2. UpdateInv'
    BY <2>1, UpdateStays DEF IInv
  <2> QED  BY <2>1, <2>2 DEF IInv, TypeOK, LockInv, Findable, InstanceInv, HandedOver
<1> QED  BY <1>1, <1>2, <1>3 DEF Next

-----------------------------------------------------------------------------
(* The theorems. *)

\* Desktop: the lock, the file, the update and the copies on the disk fit together in every reachable state.
THEOREM DesktopInvariant == Spec => []IInv
<1>1. Init => IInv
  BY DesktopAssumption, InitIInv
<1>2. IInv /\ [Next]_vars => IInv'
  BY DesktopAssumption, NextIInv
<1> QED  BY <1>1, <1>2, PTL DEF Spec

\* desktop.json names the instance for as long as it serves.
THEOREM DesktopFindable == Spec => []Findable
<1>1. IInv => Findable
  BY DEF IInv
<1> QED  BY <1>1, DesktopInvariant, PTL

\* After the new version was started the old one leaves the installation alone.
THEOREM DesktopHandedOver == Spec => []HandedOver
<1>1. IInv => HandedOver
  BY DEF IInv
<1> QED  BY <1>1, DesktopInvariant, PTL

\* No moment of an update is without the old copy of a piece.
THEOREM DesktopOldVersionThere == Spec => []OldVersionThere
<1>1. ASSUME IInv
      PROVE  OldVersionThere
  <2> SUFFICES ASSUME job.at # "none", NEW i \in Pieces
               PROVE  Best(job.was[i]) \in {disk[i].cur, disk[i].prev}
    BY DEF OldVersionThere
  <2>1. k \in 1..Last + 1 /\ UpdateOK /\ job.at \in Forward \cup Undoing
    BY <1>1, JobType DEF IInv, UpdateOK
  <2>2. CASE i < k
    BY <2>1, <2>2 DEF UpdateOK, UpdateInv, BelowInv, Placed
  <2>3. CASE i > k
    BY <2>1, <2>3 DEF UpdateOK, UpdateInv, AboveInv, Untouched, Best
  <2>4. CASE i = k
    <3>1. PieceInv
      BY <2>1, <2>4 DEF UpdateOK, UpdateInv, Pieces
    <3>2. job.at \notin {"relaunch", "quits"}
      BY <2>1, <2>4, DesktopAssumption DEF UpdateOK, UpdateInv, Pieces, DesktopAssumption
    <3> QED  BY <2>1, <2>4, <3>1, <3>2 DEF PieceInv, At, Untouched, AsBefore, Placed, Best, Forward, Undoing
  <2> QED  BY <2>1, <2>2, <2>3, <2>4 DEF Pieces
<1> QED  BY <1>1, DesktopInvariant, PTL

\* An update that ends in a living process replaced every piece or none, unless undoing failed.
THEOREM DesktopAllOrNothing == Spec => AllOrNothing
<1> DEFINE Whole ==
      job.at # "none" /\ job'.at = "none" /\ lock' = lock /\ ~torn' =>
        \/ \A i \in Pieces : disk'[i].cur = job.to
        \/ \A i \in Pieces : disk'[i].cur = job.was[i].cur
<1>1. ASSUME IInv, [Next]_vars
      PROVE  Whole
  <2> SUFFICES ASSUME job.at # "none", job'.at = "none", lock' = lock, ~torn'
               PROVE  \/ \A i \in Pieces : disk'[i].cur = job.to
                      \/ \A i \in Pieces : disk'[i].cur = job.was[i].cur
    OBVIOUS
  <2>1. UpdateOK /\ job \in Job /\ lock # NoProc
    BY <1>1, JobType, JobOfInstance DEF IInv, UpdateOK
  <2>2. job' # job /\ lock' # NoProc
    BY <2>1
  <2>3. JobNext
    <3>1. ASSUME NEW p \in Procs, Starting(p) \/ Living(p) \/ Stopping(p)
          PROVE  FALSE
      BY <2>2, <3>1 DEF Starting, Living, Stopping, Start, StartLocks, FindsLocked, ReadsState, TakeoverTimesOut,
         Boot, BootFails, Quit, Close, ClearState, Leave, Kill, RunQuit, Probe, ProbeEnds, AskFinds, Signal, GiveUp,
         Released
    <3>2. ~UNCHANGED vars
      BY <2>2 DEF vars
    <3>3. ASSUME NEW v \in Versions, NEW w \in BOOLEAN, Begin(v, w)
          PROVE  FALSE
      BY <3>3 DEF Begin, At
    <3> QED  BY <1>1, <3>1, <3>2, <3>3 DEF Next
  <2>4. CASE QuitAfter
    BY <2>1, <2>4, AllPlaced, DesktopAssumption DEF QuitAfter, At
  <2>5. CASE FetchFails
    <3>1. disk' = disk /\ k = 1 /\ job.at = "fetch"
      BY <2>1, <2>5 DEF FetchFails, At, UpdateOK, UpdateInv
    <3>2. Untouched(1)
      BY <2>1, <3>1, AtPiece, DesktopAssumption DEF PieceInv, At
    <3>3. ASSUME NEW i \in Pieces, i # 1
          PROVE  Untouched(i)
      <4>1. AboveInv(i)
        BY <2>1, <3>1, <3>3 DEF UpdateOK, UpdateInv, Pieces
      <4> QED  BY <3>1, <4>1 DEF AboveInv, Forward
    <3> QED  BY <3>1, <3>2, <3>3 DEF Untouched
  <2>6. CASE \/ Fetch \/ SetAside \/ UndoClear \/ UndoMove \/ PutBack \/ PutBackFails
             \/ \E q \in Procs : Relaunch(q)
    <3>1. PICK phase \in Forward \cup Undoing : Onto(phase)
      BY <2>6 DEF Fetch, SetAside, UndoClear, UndoMove, PutBack, PutBackFails, Relaunch, Forward, Undoing
    <3> QED  BY <1>1, <3>1, NextPhaseOnto DEF IInv, Forward, Undoing
  <2>7. CASE Place \/ Put
    <3>1. \/ job' = [job EXCEPT !.at = "put", !.bare = job.bare \cup {k}] \/ Onto("aside")
          \/ job' = [job EXCEPT !.at = IF k < Last THEN "place" ELSE "relaunch", !.piece = k + 1]
      BY <2>1, <2>7 DEF Place, Put, Job
    <3>2. job'.at \in {"put", "aside", "place", "relaunch"}
      BY <2>1, <3>1 DEF Job, Onto
    <3> QED  BY <3>2
  <2>8. CASE \/ PlaceFails \/ PutFails \/ RestoreFails \/ UndoFails \/ RelaunchFails
             \/ Restore \/ PutAgain \/ UndoDrop
    BY <2>1, <2>8, PlaceFailsKeeps, PutFailsKeeps, RestoreFailsKeeps, UndoFailsKeeps, RelaunchFailsKeeps,
       RestoreKeeps, PutAgainKeeps, UndoDropKeeps, DesktopAssumption DEF EndsAsBefore
  <2> QED  BY <2>3, <2>4, <2>5, <2>6, <2>7, <2>8 DEF JobNext, Renames, Undoes, Failures
<1> QED  BY <1>1, DesktopInvariant, PTL DEF Spec, AllOrNothing

-----------------------------------------------------------------------------
(* The steps that are left to an update. *)

\* What the phases count.
LEMMA Phases ==
  /\ Within("fetch") = -1 /\ Within("place") = 0 /\ Within("aside") = 1 /\ Within("put") = 2
  /\ Within("restore") = 3 /\ Within("relaunch") = 0 /\ Within("quits") = 1
  /\ Within("clear") = 0 /\ Within("move") = 1 /\ Within("putback") = 2
  /\ Within("putagain") = 3 /\ Within("drop") = 3
BY DEF Within

LEMMA WithinBounds ==
  ASSUME NEW phase \in Forward \cup Undoing
  PROVE  Within(phase) \in -1..3
BY Phases DEF Forward, Undoing

\* The count of a record by the way it goes.
LEMMA Count ==
  ASSUME DesktopAssumption, NEW j \in Job
  PROVE  /\ j.at \in Forward  => StepsLeft(j) = 4 * (2 * Last + 2 - j.piece) - Within(j.at)
         /\ j.at \in Undoing  => StepsLeft(j) = 4 * j.piece - Within(j.at)
         /\ j.piece \in 1..Last + 1 /\ j.at \in Forward \cup Undoing /\ Within(j.at) \in -1..3
         /\ StepsLeft(j) \in Nat \ {0}
<1>1. j.piece \in 1..Last + 1 /\ j.at \in Forward \cup Undoing /\ Within(j.at) \in -1..3
  BY WithinBounds DEF Job
<1>2. j.at # "none" /\ (j.at \in Forward => j.at \notin Undoing)
  BY <1>1 DEF Forward, Undoing
<1>3. /\ j.at \in Forward  => StepsLeft(j) = 4 * (2 * Last + 2 - j.piece) - Within(j.at)
      /\ j.at \in Undoing  => StepsLeft(j) = 4 * j.piece - Within(j.at)
  BY <1>2 DEF StepsLeft
<1> QED  BY <1>1, <1>3 DEF DesktopAssumption

Nearer == StepsLeft(job') \in Nat /\ StepsLeft(job') < StepsLeft(job)

\* The end is the nearest.
LEMMA NearerByEnding ==
  ASSUME DesktopAssumption, TypeOK, job.at # "none", job' = NoJob
  PROVE  Nearer
<1>1. StepsLeft(job') = 0
  BY DEF StepsLeft, NoJob
<1> QED  BY <1>1, JobType, Count DEF Nearer

\* A later phase of the same piece.
LEMMA NearerByPhase ==
  ASSUME DesktopAssumption, TypeOK, job.at # "none", job' \in Job, k' = k,
         job.at \in Forward <=> job'.at \in Forward, Within(job'.at) > Within(job.at)
  PROVE  Nearer
<1>1. job \in Job
  BY JobType
<1>2. CASE job.at \in Forward
  BY <1>1, <1>2, Count DEF Nearer, k, DesktopAssumption
<1>3. CASE job.at \notin Forward
  <2>1. job.at \in Undoing /\ job'.at \in Undoing
    BY <1>1, <1>3, Count
  <2> QED  BY <1>1, <2>1, Count DEF Nearer, k
<1> QED  BY <1>2, <1>3

\* Undoing goes on below.
LEMMA NearerByBackingOut ==
  ASSUME DesktopAssumption, TypeOK, job.at # "none", BackOut
  PROVE  Nearer
<1>1. job \in Job /\ k \in 1..Last + 1
  BY JobType
<1>2. CASE k = 1
  BY <1>2, NearerByEnding DEF BackOut
<1>3. CASE k # 1
  <2>1. job' = [at |-> "clear", piece |-> k - 1, to |-> job.to, bare |-> job.bare, was |-> job.was,
                waited |-> job.waited]
    BY <1>1, <1>3 DEF BackOut, Job
  <2>2. job' \in Job /\ job'.at = "clear" /\ job'.piece = k - 1 /\ "clear" \in Undoing
    BY <1>1, <1>3, <2>1 DEF Job, Undoing, DesktopAssumption
  <2>3. StepsLeft(job') = 4 * (k - 1) /\ StepsLeft(job') \in Nat
    BY <1>1, <2>2, Count, Phases
  <2>4. StepsLeft(job) > 4 * (k - 1)
    BY <1>1, Count DEF k, DesktopAssumption
  <2> QED  BY <2>3, <2>4 DEF Nearer
<1> QED  BY <1>2, <1>3

\* Desktop: an update comes nearer to its end with every step, for any number of pieces and failures.
THEOREM DesktopUpdateEnds == Spec => UpdateEnds
<1> DEFINE Ending == job.at # "none" /\ job' # job => Nearer
<1>1. ASSUME IInv, [Next]_vars
      PROVE  Ending
  <2> SUFFICES ASSUME job.at # "none", job' # job
               PROVE  Nearer
    OBVIOUS
  <2>1. TypeOK /\ UpdateOK /\ job \in Job /\ DesktopAssumption
    BY <1>1, JobType, DesktopAssumption DEF IInv, UpdateOK
  <2>2. CASE \E p \in Procs : Starting(p) \/ Living(p) \/ Stopping(p)
    <3>1. job' = NoJob
      BY <2>2 DEF Starting, Living, Stopping, Start, StartLocks, FindsLocked, ReadsState, TakeoverTimesOut,
         Boot, BootFails, Quit, Close, ClearState, Leave, Kill, RunQuit, Probe, ProbeEnds, AskFinds, Signal, GiveUp,
         Released
    <3> QED  BY <2>1, <3>1, NearerByEnding
  <2>3. CASE UNCHANGED vars \/ \E v \in Versions, w \in BOOLEAN : Begin(v, w)
    BY <2>3 DEF vars, Begin, At
  <2>4. CASE FetchFails \/ QuitAfter
    BY <2>1, <2>4, NearerByEnding DEF FetchFails, QuitAfter
  <2>5. CASE \/ PlaceFails \/ Restore \/ RestoreFails \/ PutAgain \/ UndoDrop \/ UndoFails \/ RelaunchFails
             \/ PutFails /\ k \in job.bare
    BY <2>1, <2>5, NearerByBackingOut DEF PlaceFails, Restore, RestoreFails, PutAgain, UndoDrop, UndoFails,
       RelaunchFails, PutFails
  <2>6. CASE \/ Fetch \/ SetAside \/ UndoClear \/ UndoMove \/ PutBack \/ PutBackFails
             \/ (PutFails /\ k \notin job.bare) \/ \E q \in Procs : Relaunch(q)
    <3>1. PICK phase \in Forward \cup Undoing :
            /\ Onto(phase) /\ (job.at \in Forward <=> phase \in Forward) /\ Within(phase) > Within(job.at)
      BY <2>6, Phases DEF Fetch, SetAside, UndoClear, UndoMove, PutBack, PutBackFails, PutFails, Relaunch, At,
         Forward, Undoing
    <3>2. job' \in Job /\ job'.at = phase /\ k' = k
      BY <2>1, <3>1, NextPhaseOnto
    <3> QED  BY <2>1, <3>1, <3>2, NearerByPhase
  <2>7. CASE Place
    <3>1. job.at = "place" /\ k \in Pieces
      BY <2>1, <2>7, AtPiece DEF Place, At
    <3>2. CASE disk[k].cur = 0
      <4>1. job' = [job EXCEPT !.at = "put", !.bare = job.bare \cup {k}] /\ job.bare \cup {k} \in SUBSET Pieces
        BY <2>1, <2>7, <3>1, <3>2, JobType DEF Place, Job
      <4>2. job' \in Job /\ job'.at = "put" /\ k' = k
        BY <2>1, <4>1, NextPhase DEF Forward
      <4> QED  BY <2>1, <3>1, <4>2, NearerByPhase, Phases DEF Forward
    <3>3. CASE disk[k].cur # 0
      <4>1. job' \in Job /\ job'.at = "aside" /\ k' = k
        BY <2>1, <2>7, <3>3, NextPhaseOnto DEF Place, Forward
      <4> QED  BY <2>1, <3>1, <4>1, NearerByPhase, Phases DEF Forward
    <3> QED  BY <3>2, <3>3
  <2>8. CASE Put
    <3>1. job.at = "put" /\ k \in 1..Last
      BY <2>1, <2>8, AtPiece DEF Put, At, Pieces
    <3> DEFINE next == IF k < Last THEN "place" ELSE "relaunch"
    <3>2. job' = [at |-> next, piece |-> k + 1, to |-> job.to, bare |-> job.bare, was |-> job.was,
                  waited |-> job.waited]
      BY <2>1, <2>8 DEF Put, Job
    <3>3. job' \in Job /\ job'.at = next /\ job'.piece = k + 1 /\ next \in Forward /\ Within(next) = 0
      BY <2>1, <3>1, <3>2, Phases DEF Job, Forward, DesktopAssumption
    <3>4. StepsLeft(job') = 4 * (2 * Last + 2 - (k + 1)) /\ StepsLeft(job') \in Nat
      BY <2>1, <3>3, Count DEF DesktopAssumption
    <3>5. StepsLeft(job) = 4 * (2 * Last + 2 - k) - 2
      BY <2>1, <3>1, Count, Phases DEF Forward, k
    <3> QED  BY <2>1, <3>1, <3>4, <3>5 DEF Nearer, DesktopAssumption
  <2>9. JobNext => \/ FetchFails \/ QuitAfter \/ Place \/ Put
                   \/ PlaceFails \/ Restore \/ RestoreFails \/ PutAgain \/ UndoDrop \/ UndoFails \/ RelaunchFails
                   \/ Fetch \/ SetAside \/ UndoClear \/ UndoMove \/ PutBack \/ PutBackFails
                   \/ PutFails \/ \E q \in Procs : Relaunch(q)
    BY DEF JobNext, Renames, Undoes, Failures
  <2> QED  BY <1>1, <2>2, <2>3, <2>4, <2>5, <2>6, <2>7, <2>8, <2>9 DEF Next
<1> QED  BY <1>1, DesktopInvariant, PTL DEF Spec, UpdateEnds, Nearer
=============================================================================
