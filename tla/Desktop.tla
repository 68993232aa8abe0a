------------------------------ MODULE Desktop ------------------------------
(***************************************************************************)
(* The desktop application: one instance at a time, kept apart by a lock   *)
(* that ends with its process; the file desktop.json by which others find  *)
(* the instance; and the replacement of the application by a newer         *)
(* version, file by file, after which the new version is started and waits *)
(* for the lock while the old one shuts down.                              *)
(*                                                                         *)
(* A piece is a file of the installation (the AppImage; the four files of  *)
(* the Windows zip) with the copies <name>.prev and <name>.failed beside   *)
(* it.  A copy is the number of its version, 0 when there is no file.  A   *)
(* process is its PID, and PIDs are used again.  What only the instance    *)
(* has (whether it quits, its update) is kept once, and goes with the lock.*)
(***************************************************************************)
EXTENDS Integers

CONSTANTS
  Procs,      \* PIDs
  NoProc,
  Last,       \* the number of pieces; piece 1 is what is started
  Required,   \* pieces without which the application does not take itself for installed
  MaxVersion, \* bound: versions released
  MaxFaults   \* bound: processes that die or cannot start, files that cannot be renamed or removed

Pieces   == 1..Last
Versions == 1..MaxVersion
Copies   == 0..MaxVersion

ASSUME DesktopAssumption ==
  /\ NoProc \notin Procs
  /\ Last \in Nat \ {0} /\ MaxVersion \in Nat \ {0} /\ MaxFaults \in Nat
  /\ Required \subseteq Pieces /\ 1 \in Required

VARIABLES
  disk,      \* the copies of each piece
  lock,      \* who holds desktop.lock
  file,      \* the PID in desktop.json, NoProc when it only keeps the port
  pc,        \* where a process is
  ver,       \* the version a process was started from
  quitting,  \* the instance is to end: the channel quit is closed
  job,       \* the update of the instance
  handed,    \* history: the version that the instance has started to take over
  faults,
  torn,      \* history: the last update could not put back what it had moved
  wanted     \* history: "yes", an instance served, and neither did the user end it nor something kill it;
             \* "unbooted": then an update was handed over, and the new version started but could not boot; else "no"

procVars == <<lock, file, pc, ver>>
vars == <<disk, procVars, quitting, job, handed, torn, faults, wanted>>

\* "starts", "reads": a start; "takesOver": a start with --after-update; "asks", "aims", "awaits", "probes": --quit.
Instance == {"boots", "serves", "closes", "leaves"}
Places   == Instance \cup {"gone", "starts", "reads", "takesOver", "asks", "aims", "awaits", "probes"}
Holding  == Instance \cup {"probes"}
Forward  == {"fetch", "place", "aside", "put", "restore", "relaunch", "quits"}
Undoing  == {"clear", "move", "putback", "putagain", "drop"}

Wanted == {"no", "yes", "unbooted"}
Piece == [cur : Copies, prev : Copies, failed : Copies]
Disk  == [Pieces -> Piece]
NoJob == [at |-> "none"]
\* piece: the one it is at, those below are placed; bare: those placed where there was nothing
Job   == [at : Forward \cup Undoing, piece : 1..Last + 1, to : Versions, bare : SUBSET Pieces,
          was : [Pieces -> [cur : Copies, prev : Copies]], waited : BOOLEAN]

TypeOK ==
  /\ disk \in Disk
  /\ lock \in Procs \cup {NoProc} /\ file \in Procs \cup {NoProc}
  /\ pc \in [Procs -> Places] /\ ver \in [Procs -> Copies]
  /\ quitting \in BOOLEAN /\ job \in Job \cup {NoJob}
  /\ handed \in Copies /\ torn \in BOOLEAN /\ faults \in Nat
  /\ wanted \in Wanted

Init ==
  /\ disk \in [Pieces -> {[cur |-> v, prev |-> 0, failed |-> 0] : v \in {0, 1}}]
  /\ \A i \in Required : disk[i].cur = 1
  /\ lock = NoProc /\ file = NoProc
  /\ pc = [p \in Procs |-> "gone"] /\ ver = [p \in Procs |-> 0]
  /\ quitting = FALSE /\ job = NoJob /\ handed = 0 /\ torn = FALSE /\ faults = 0 /\ wanted = "no"

Moves(p, place) == /\ pc' = [pc EXCEPT ![p] = place] /\ UNCHANGED ver
Ends(p)         == /\ pc' = [pc EXCEPT ![p] = "gone"] /\ ver' = [ver EXCEPT ![p] = 0]
Fault           == faults < MaxFaults /\ faults' = faults + 1
Released        == /\ lock' = NoProc /\ quitting' = FALSE /\ job' = NoJob /\ handed' = 0

\* A process other than p is to take over.
Succeeded(p)    == \E q \in Procs \ {p} : pc[q] = "takesOver"

-----------------------------------------------------------------------------
(* Main: a start, and the life of the instance. *)

Start(p) ==
  /\ pc[p] = "gone" /\ disk[1].cur # 0
  /\ pc' = [pc EXCEPT ![p] = "starts"] /\ ver' = [ver EXCEPT ![p] = disk[1].cur]
  /\ UNCHANGED <<disk, lock, file, quitting, job, handed, torn, wanted, faults>>

\* One with --after-update tries again until the lock is free.
StartLocks(p) ==
  /\ pc[p] \in {"starts", "takesOver"} /\ lock = NoProc
  /\ lock' = p /\ Moves(p, "boots")
  /\ UNCHANGED <<disk, file, quitting, job, handed, torn, wanted, faults>>

\* Faulty variant: --after-update does not wait for the lock.
GoesSecond(p) ==
  /\ pc[p] \in {"starts", "takesOver"} /\ lock # NoProc
  /\ Moves(p, "reads")
  /\ UNCHANGED <<disk, lock, file, quitting, job, handed, torn, wanted, faults>>

FindsLocked(p) ==
  /\ pc[p] = "starts" /\ lock # NoProc
  /\ Moves(p, "reads")
  /\ UNCHANGED <<disk, lock, file, quitting, job, handed, torn, wanted, faults>>

\* With no PID in the file it tries again, up to 20 times; else it shows the page of the instance and ends.
ReadsState(p) ==
  /\ pc[p] = "reads"
  /\ \/ file = NoProc /\ Moves(p, "starts")
     \/ Ends(p)
  /\ UNCHANGED <<disk, lock, file, quitting, job, handed, torn, wanted, faults>>

\* The time allowed is far above what an instance that quits needs: only another one that stays uses it up.
TakeoverTimesOut(p) ==
  /\ pc[p] = "takesOver" /\ lock # NoProc /\ pc[lock] \in {"boots", "serves"}
  /\ ~quitting /\ job.at # "quits"
  /\ Ends(p)
  /\ UNCHANGED <<disk, lock, file, quitting, job, handed, torn, wanted, faults>>

\* The server runs; the PID is written.
Boot(p) ==
  /\ pc[p] = "boots"
  /\ Moves(p, "serves") /\ file' = p /\ wanted' = "yes"
  /\ UNCHANGED <<disk, lock, quitting, job, handed, torn, faults>>

\* The log, the port, the backup or the migration of the database, or the server fails.  When it is the new
\* version of an update, nobody undoes the update and nobody serves any more.
BootFails(p) ==
  /\ pc[p] = "boots"
  /\ Ends(p) /\ Fault /\ Released
  /\ wanted' = IF wanted = "yes" /\ ~Succeeded(p) THEN "unbooted" ELSE wanted
  /\ UNCHANGED <<disk, file, torn>>

\* The tray, a signal, the end of the session or of the server.
Quit(p) ==
  /\ pc[p] = "serves" /\ ~quitting
  /\ quitting' = TRUE /\ wanted' = "no"
  /\ UNCHANGED <<disk, procVars, job, handed, torn, faults>>

\* Faulty variant: the lock is released before the file is written.
CloseUnlocked(p) ==
  /\ pc[p] = "serves" /\ quitting
  /\ Moves(p, "closes") /\ Released
  /\ UNCHANGED <<disk, file, torn, wanted, faults>>

Close(p) ==
  /\ pc[p] = "serves" /\ quitting
  /\ Moves(p, "closes")
  /\ UNCHANGED <<disk, lock, file, quitting, job, handed, torn, wanted, faults>>

\* The server has shut down.
ClearState(p) ==
  /\ pc[p] = "closes"
  /\ Moves(p, "leaves") /\ file' = NoProc
  /\ UNCHANGED <<disk, lock, quitting, job, handed, torn, wanted, faults>>

\* An update that the periodic check runs is waited for; one that the user began ends with the process.
Leave(p) ==
  /\ pc[p] = "leaves"
  /\ job.at # "none" => ~job.waited
  /\ Ends(p) /\ Released
  /\ UNCHANGED <<disk, file, torn, wanted, faults>>

\* The process dies: the lock goes, the file stays.
Kill(p) ==
  /\ pc[p] # "gone" /\ Ends(p) /\ Fault
  /\ IF lock = p THEN Released ELSE UNCHANGED <<lock, quitting, job, handed>>
  /\ wanted' = IF pc[p] \in Instance \cup {"takesOver"} /\ ~Succeeded(p) THEN "no" ELSE wanted
  /\ UNCHANGED <<disk, file, torn>>

-----------------------------------------------------------------------------
(* --quit. *)

RunQuit(p) ==
  /\ pc[p] = "gone" /\ Moves(p, "asks")
  /\ UNCHANGED <<disk, lock, file, quitting, job, handed, torn, wanted, faults>>

\* It takes the lock to see that no instance runs, or that it has ended.
Probe(p) ==
  /\ pc[p] \in {"asks", "awaits"} /\ lock = NoProc
  /\ lock' = p /\ Moves(p, "probes")
  /\ UNCHANGED <<disk, file, quitting, job, handed, torn, wanted, faults>>

ProbeEnds(p) ==
  /\ pc[p] = "probes"
  /\ Ends(p) /\ Released
  /\ UNCHANGED <<disk, file, torn, wanted, faults>>

AskFinds(p) ==
  /\ pc[p] = "asks" /\ lock # NoProc
  /\ Moves(p, "aims")
  /\ UNCHANGED <<disk, lock, file, quitting, job, handed, torn, wanted, faults>>

\* The instance notes the signal.  Any other process that a stale PID names dies of it: Kill.
Signal(p) ==
  /\ pc[p] = "aims" /\ file # NoProc /\ pc[file] # "gone"
  /\ Moves(p, "awaits")
  /\ IF pc[file] = "serves" /\ ~quitting
     THEN quitting' = TRUE /\ wanted' = "no"
     ELSE UNCHANGED <<quitting, wanted>>
  /\ UNCHANGED <<disk, lock, file, job, handed, torn, faults>>

\* There is no PID, no such process, or the instance took too long.
GiveUp(p) ==
  /\ \/ pc[p] = "aims" /\ (file # NoProc => pc[file] = "gone")
     \/ pc[p] = "awaits"
  /\ Ends(p)
  /\ UNCHANGED <<disk, lock, file, quitting, job, handed, torn, wanted, faults>>

-----------------------------------------------------------------------------
(* The update.  Each step renames or removes one file, and may fail. *)

At(phase) == job.at = phase
k == job.piece
Set(i, copies)    == disk' = [disk EXCEPT ![i] = copies]
JobUnchanged      == UNCHANGED <<procVars, quitting, handed, wanted, faults>>
JobFault          == UNCHANGED <<procVars, quitting, handed, wanted>> /\ Fault
Onto(phase)       == job' = [job EXCEPT !.at = phase]

\* Faulty variant: the pieces already placed are left.
BackOutAtOnce == job' = NoJob

\* After an error at piece k: the pieces below are undone, from the last on.
BackOut == job' = IF k = 1 THEN NoJob ELSE [job EXCEPT !.at = "clear", !.piece = k - 1]

\* A newer version is known; the tray, the page, or (waited) the periodic check begins.
Begin(v, waited) ==
  /\ lock # NoProc /\ pc[lock] = "serves" /\ At("none") /\ v > ver[lock]
  /\ \A i \in Required : disk[i].cur # 0
  /\ job' = [at |-> "fetch", piece |-> 1, to |-> v, bare |-> {}, waited |-> waited,
             was |-> [i \in Pieces |-> [cur |-> disk[i].cur, prev |-> disk[i].prev]]]
  /\ torn' = FALSE
  /\ UNCHANGED disk /\ JobUnchanged

\* Faulty variant: a process that is to quit goes on downloading.
FetchAnyway ==
  /\ At("fetch") /\ Onto("place")
  /\ UNCHANGED <<disk, torn>> /\ JobUnchanged

\* Downloaded and verified; the end of the process cancels the download.
Fetch ==
  /\ At("fetch") /\ ~quitting
  /\ Onto("place")
  /\ UNCHANGED <<disk, torn>> /\ JobUnchanged

\* No piece is to be placed yet, or moved.
FetchFails ==
  /\ At("fetch") /\ job' = NoJob
  /\ UNCHANGED <<disk, torn>> /\ JobUnchanged

\* Faulty variant: <name>.prev is removed whether or not there is a file to set aside.
PlaceAlways ==
  /\ At("place") /\ Set(k, [disk[k] EXCEPT !.prev = 0])
  /\ job' = IF disk[k].cur = 0 THEN [job EXCEPT !.at = "put", !.bare = @ \cup {k}]
                               ELSE [job EXCEPT !.at = "aside"]
  /\ UNCHANGED torn /\ JobUnchanged

\* Where there is no file, the new one is put as it is; else the old <name>.prev is removed first.
Place ==
  /\ At("place")
  /\ IF disk[k].cur = 0
     THEN job' = [job EXCEPT !.at = "put", !.bare = @ \cup {k}] /\ UNCHANGED disk
     ELSE Onto("aside") /\ Set(k, [disk[k] EXCEPT !.prev = 0])
  /\ UNCHANGED torn /\ JobUnchanged

SetAside ==
  /\ At("aside") /\ Onto("put")
  /\ Set(k, [cur |-> 0, prev |-> disk[k].cur, failed |-> disk[k].failed])
  /\ UNCHANGED torn /\ JobUnchanged

PlaceFails ==
  /\ job.at \in {"place", "aside"}
  /\ BackOut
  /\ UNCHANGED <<disk, torn>> /\ JobFault

Put ==
  /\ At("put")
  /\ Set(k, [disk[k] EXCEPT !.cur = job.to])
  /\ job' = [job EXCEPT !.at = IF k < Last THEN "place" ELSE "relaunch", !.piece = k + 1]
  /\ UNCHANGED torn /\ JobUnchanged

PutFails ==
  /\ At("put")
  /\ IF k \in job.bare THEN BackOut ELSE Onto("restore")
  /\ UNCHANGED <<disk, torn>> /\ JobFault

Restore ==
  /\ At("restore") /\ BackOut
  /\ Set(k, [cur |-> disk[k].prev, prev |-> 0, failed |-> disk[k].failed])
  /\ UNCHANGED torn /\ JobUnchanged

RestoreFails ==
  /\ At("restore") /\ BackOut /\ torn' = TRUE
  /\ UNCHANGED disk /\ JobFault

-----------------------------------------------------------------------------
(* Undo: an error is noted, and the next piece follows. *)

UndoClear ==
  /\ At("clear") /\ Onto("move") /\ Set(k, [disk[k] EXCEPT !.failed = 0])
  /\ UNCHANGED torn /\ JobUnchanged

UndoMove ==
  /\ At("move") /\ Onto(IF k \in job.bare THEN "drop" ELSE "putback")
  /\ Set(k, [cur |-> 0, prev |-> disk[k].prev, failed |-> disk[k].cur])
  /\ UNCHANGED torn /\ JobUnchanged

PutBack ==
  /\ At("putback") /\ Onto("drop")
  /\ Set(k, [cur |-> disk[k].prev, prev |-> 0, failed |-> disk[k].failed])
  /\ UNCHANGED torn /\ JobUnchanged

\* Faulty variant: the error of the rename is not looked at.
PutBackUnchecked ==
  /\ At("putback") /\ Onto("drop")
  /\ UNCHANGED <<disk, torn>> /\ JobFault

\* Faulty variant: the undo of the piece is tried again from its beginning.
UndoAgain ==
  /\ At("putback") /\ Onto("clear")
  /\ UNCHANGED <<disk, torn>> /\ JobFault

PutBackFails ==
  /\ At("putback") /\ Onto("putagain")
  /\ UNCHANGED <<disk, torn>> /\ JobFault

\* The new file returns to its place, if that works.
PutAgain ==
  /\ At("putagain") /\ BackOut /\ torn' = TRUE
  /\ \/ Set(k, [cur |-> disk[k].failed, prev |-> disk[k].prev, failed |-> 0])
     \/ UNCHANGED disk
  /\ JobUnchanged

UndoDrop ==
  /\ At("drop") /\ BackOut
  /\ Set(k, [disk[k] EXCEPT !.failed = 0])
  /\ UNCHANGED torn /\ JobUnchanged

UndoFails ==
  /\ job.at \in {"clear", "move", "drop"}
  /\ BackOut /\ torn' = TRUE
  /\ UNCHANGED disk /\ JobFault

-----------------------------------------------------------------------------
(* The new version is started, and the old one quits. *)

Relaunch(q) ==
  /\ At("relaunch") /\ pc[q] = "gone"
  /\ pc' = [pc EXCEPT ![q] = "takesOver"] /\ ver' = [ver EXCEPT ![q] = disk[1].cur]
  /\ handed' = job.to /\ Onto("quits")
  /\ UNCHANGED <<disk, lock, file, quitting, torn, wanted, faults>>

RelaunchFails ==
  /\ At("relaunch") /\ BackOut
  /\ UNCHANGED <<disk, torn>> /\ JobFault

QuitAfter ==
  /\ At("quits") /\ quitting' = TRUE /\ job' = NoJob
  /\ UNCHANGED <<disk, procVars, handed, torn, wanted, faults>>

-----------------------------------------------------------------------------
Renames  == Place \/ SetAside \/ Put \/ Restore
Undoes   == UndoClear \/ UndoMove \/ PutBack \/ PutAgain \/ UndoDrop
Failures == \/ FetchFails \/ PlaceFails \/ PutFails \/ RestoreFails
            \/ PutBackFails \/ UndoFails \/ RelaunchFails
JobNext  == Fetch \/ Renames \/ Undoes \/ Failures \/ QuitAfter \/ \E q \in Procs : Relaunch(q)
Starting(p) == Start(p) \/ StartLocks(p) \/ FindsLocked(p) \/ ReadsState(p) \/ TakeoverTimesOut(p)
Living(p)   == Boot(p) \/ BootFails(p) \/ Quit(p) \/ Close(p) \/ ClearState(p) \/ Leave(p) \/ Kill(p)
Stopping(p) == RunQuit(p) \/ Probe(p) \/ ProbeEnds(p) \/ AskFinds(p) \/ Signal(p) \/ GiveUp(p)

Next ==
  \/ \E p \in Procs : Starting(p) \/ Living(p) \/ Stopping(p)
  \/ \E v \in Versions, w \in BOOLEAN : Begin(v, w)
  \/ JobNext

Spec == Init /\ [][Next]_vars

\* The code of a process goes on; one that waits for the lock asks for it again and again.
Fairness ==
  /\ \A p \in Procs : /\ WF_vars(Boot(p) \/ BootFails(p))
                      /\ WF_vars(Close(p) \/ ClearState(p) \/ Leave(p))
                      /\ WF_vars(ProbeEnds(p))
                      /\ SF_vars(pc[p] = "takesOver" /\ StartLocks(p))
  /\ WF_vars(JobNext)

LiveSpec == Spec /\ Fairness

-----------------------------------------------------------------------------
(* Properties. *)

Best(copies) == IF copies.cur # 0 THEN copies.cur ELSE copies.prev

\* What a piece is like: not yet touched, placed, and (when nothing was torn) as before.
Untouched(i) == disk[i].cur = job.was[i].cur /\ disk[i].prev = job.was[i].prev
Placed(i)    == disk[i].cur = job.to /\ disk[i].prev = Best(job.was[i])
AsBefore(i)  == disk[i].cur = job.was[i].cur

\* The piece the update is at.
PieceInv ==
  /\ At("fetch") \/ At("place") => Untouched(k) /\ k \notin job.bare
  /\ At("aside") => AsBefore(k) /\ disk[k].cur # 0 /\ k \notin job.bare
  /\ job.at \in {"put", "restore", "putback", "putagain"} =>
       disk[k].cur = 0 /\ disk[k].prev = Best(job.was[k])
  /\ job.at \in {"restore", "putback", "putagain"} => k \notin job.bare
  /\ job.at \in {"put", "restore"} \cup Undoing => (k \in job.bare <=> job.was[k].cur = 0)
  /\ At("clear") \/ At("move") => Placed(k)
  /\ At("drop") => AsBefore(k) /\ Best(job.was[k]) \in {disk[k].cur, disk[k].prev}

BelowInv(i) == Placed(i) /\ (i \in job.bare <=> job.was[i].cur = 0)
AboveInv(i) == IF job.at \in Forward
               THEN Untouched(i) /\ i \notin job.bare
               ELSE Best(job.was[i]) \in {disk[i].cur, disk[i].prev} /\ (torn \/ AsBefore(i))

\* The pieces below are placed; those above are not touched, or put back.
UpdateInv ==
  job.at # "none" =>
    /\ job.at \in {"relaunch", "quits"} <=> k = Last + 1
    /\ At("fetch") => k = 1
    /\ job.at \in Forward => ~torn
    /\ k <= Last => PieceInv
    /\ \A i \in Pieces : (i < k => BelowInv(i)) /\ (i > k => AboveInv(i))

\* Of two instances one would have to hold the lock of the other.
LockInv == \A p \in Procs : pc[p] \in Holding <=> lock = p

\* What only the instance has goes with it.
InstanceInv ==
  /\ (job.at # "none" \/ quitting \/ handed # 0) => lock # NoProc /\ pc[lock] \in Instance
  /\ (lock # NoProc /\ pc[lock] \in {"closes", "leaves"}) => quitting
  /\ job.at # "none" => lock # NoProc /\ pc[lock] # "boots"
  /\ handed # 0 => job.at = "quits" \/ (quitting /\ job.at \in {"none", "fetch"})

\* While it serves, and until it has shut down, desktop.json names the instance: a second start shows its page
\* and --quit stops it, whichever process left before and whatever it left behind.
Findable == \A p \in Procs : pc[p] \in {"serves", "closes"} => file = p

\* Once the new version was started, the instance that started it does not touch the installation again:
\* the successor finds the version that it was started from, in all pieces.
HandedOver == handed # 0 => \A i \in Pieces : disk[i].cur = handed

\* At every moment of an update, so whenever the process is killed, the copy of a piece that was in place before,
\* or the copy set aside where there was none, still has the place or is beside it as <name>.prev.
OldVersionThere ==
  job.at # "none" => \A i \in Pieces : Best(job.was[i]) \in {disk[i].cur, disk[i].prev}

IInv == /\ TypeOK /\ LockInv /\ Findable /\ InstanceInv /\ UpdateInv /\ HandedOver

\* An update that ends while its process lives has replaced every piece, or has left every piece as it was,
\* unless undoing itself failed (which the user is told).
AllOrNothing ==
  [][job.at # "none" /\ job'.at = "none" /\ lock' = lock /\ ~torn' =>
       \/ \A i \in Pieces : disk'[i].cur = job.to
       \/ \A i \in Pieces : disk'[i].cur = job.was[i].cur]_vars

\* How far an update is from its end: at most every piece forward and every piece back, each in four steps.
Within(phase) == CASE phase = "fetch" -> -1
                   [] phase \in {"place", "relaunch", "clear"} -> 0
                   [] phase \in {"aside", "quits", "move"} -> 1
                   [] phase \in {"put", "putback"} -> 2
                   [] phase \in {"restore", "putagain", "drop"} -> 3
StepsLeft(j) == IF j.at = "none" THEN 0
                ELSE 4 * (IF j.at \in Undoing THEN j.piece ELSE 2 * Last + 2 - j.piece) - Within(j.at)

\* Every step of an update brings its end nearer, whatever fails in it and in undoing it: Leave, which waits for
\* an update of the periodic check, is not kept waiting, and a failure is not tried again and again.
UpdateEnds ==
  [][job.at # "none" /\ job' # job => StepsLeft(job') \in Nat /\ StepsLeft(job') < StepsLeft(job)]_vars

(***************************************************************************)
(* There is again and again an instance that serves, through any update    *)
(* that succeeds or fails before the new version runs: the new version     *)
(* waits for the lock and gets it, even when the old one is killed while   *)
(* it shuts down.  There are three ends: the user ends the instance; what  *)
(* is left is killed; or the new version starts and then fails to boot     *)
(* (BootFails, app.go:426-446).  In the last one CHANGELOG-desktop.md:1241 *)
(* promises that the previous version is put back, and the code does not.  *)
(***************************************************************************)
KeepsServing == []<>(wanted \in {"no", "unbooted"} \/ \E p \in Procs : pc[p] = "serves")
=============================================================================
