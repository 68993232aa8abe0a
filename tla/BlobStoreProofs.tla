-------------------------- MODULE BlobStoreProofs --------------------------
(***************************************************************************)
(* For any set of processes, file names and rows: the body of a row is     *)
(* never lost, and the store implements BlobRefs.  Each lemma preserves    *)
(* one conjunct of IInv, one step per action; the theorems combine them.   *)
(***************************************************************************)
EXTENDS BlobStore, TLAPS

\* Every action keeps the types; the ones that use the held file need it to be one.
LEMMA TypeStep == TypeOK /\ Holding /\ [Next]_vars => TypeOK'
<1> SUFFICES ASSUME TypeOK, Holding, [Next]_vars PROVE TypeOK'
  OBVIOUS
<1> USE GraceAssumption, NameAssumption DEF TypeOK, File, Ages, Missing, PlacePcs, RemovePcs, RestorePcs, Holding
<1>1. ASSUME NEW p \in Procs, BeginPlace(p) PROVE TypeOK'
  BY <1>1 DEF BeginPlace, Unused, Goto, disk
<1>2. ASSUME NEW p \in Procs, PurgeAttachments(p) PROVE TypeOK'
  BY <1>2 DEF PurgeAttachments, Goto, disk
<1>3. ASSUME NEW p \in Procs, PurgeTranscript(p) PROVE TypeOK'
  BY <1>3 DEF PurgeTranscript, disk
<1>4. ASSUME NEW p \in Procs, CheckOrphan(p) PROVE TypeOK'
  BY <1>4 DEF CheckOrphan, disk
<1>5. ASSUME NEW p \in Procs, OpenAside(p) PROVE TypeOK'
  BY <1>5 DEF OpenAside, Goto, disk
<1>6. ASSUME NEW p \in Procs, SweepMarks(p) PROVE TypeOK'
  BY <1>6 DEF SweepMarks, DropStale, local, disk
<1>7. ASSUME NEW p \in Procs, StartRemoval(p) PROVE TypeOK'
  BY <1>7 DEF StartRemoval, Goto, disk
<1>8. ASSUME NEW p \in Procs, LookForBody(p) PROVE TypeOK'
  BY <1>8 DEF LookForBody, Goto, disk
<1>9. ASSUME NEW p \in Procs, TouchBody(p) PROVE TypeOK'
  BY <1>9 DEF TouchBody, Goto, disk
<1>10. ASSUME NEW p \in Procs, RenameTemp(p) PROVE TypeOK'
  BY <1>10 DEF RenameTemp, Goto, disk
<1>11. ASSUME NEW p \in Procs, FailPlace(p) PROVE TypeOK'
  BY <1>11 DEF FailPlace, Done, disk
<1>12. ASSUME NEW p \in Procs, Commit(p) PROVE TypeOK'
  BY <1>12 DEF Commit, Goto, disk
<1>13. ASSUME NEW p \in Procs, Abort(p) PROVE TypeOK'
  BY <1>13 DEF Abort, Goto, disk
<1>34. ASSUME NEW p \in Procs, CommitCovered(p) PROVE TypeOK'
  BY <1>34 DEF CommitCovered, Goto, disk
<1>14. ASSUME NEW p \in Procs, Unmark(p) PROVE TypeOK'
  BY <1>14 DEF Unmark, disk
<1>15. ASSUME NEW p \in Procs, CountRows(p) PROVE TypeOK'
  BY <1>15 DEF CountRows, Done, disk
<1>16. ASSUME NEW p \in Procs, FindMarkBefore(p) PROVE TypeOK'
  BY <1>16 DEF FindMarkBefore, Done, DropStale, disk
<1>17. ASSUME NEW p \in Procs, FindNoMarkBefore(p) PROVE TypeOK'
  BY <1>17 DEF FindNoMarkBefore, Goto, DropStale, disk
<1>18. ASSUME NEW p \in Procs, TakeName(p) PROVE TypeOK'
  BY <1>18 DEF TakeName, Unused, Goto, disk
<1>19. ASSUME NEW p \in Procs, SetAside(p) PROVE TypeOK'
  BY <1>19 DEF SetAside, Goto, disk
<1>20. ASSUME NEW p \in Procs, SetNothingAside(p) PROVE TypeOK'
  BY <1>20 DEF SetNothingAside, Done, disk
<1>21. ASSUME NEW p \in Procs, KeepRecent(p) PROVE TypeOK'
  BY <1>21 DEF KeepRecent, Goto, disk
<1>22. ASSUME NEW p \in Procs, ListAfter(p) PROVE TypeOK'
  BY <1>22 DEF ListAfter, Goto, Marks, disk
<1>23. ASSUME NEW p \in Procs, StatAfter(p) PROVE TypeOK'
  BY <1>23 DEF StatAfter, Goto, DropStale, Fresh, disk
<1>24. ASSUME NEW p \in Procs, Recount(p) PROVE TypeOK'
  BY <1>24 DEF Recount, Goto, disk
<1>25. ASSUME NEW p \in Procs, FailAfter(p) PROVE TypeOK'
  BY <1>25 DEF FailAfter, disk
<1>26. ASSUME NEW p \in Procs, Unlink(p) PROVE TypeOK'
  BY <1>26 DEF Unlink, Done, disk
<1>27. ASSUME NEW p \in Procs, LookBeforeRestore(p) PROVE TypeOK'
  BY <1>27 DEF LookBeforeRestore, Goto, disk
<1>28. ASSUME NEW p \in Procs, PutBack(p) PROVE TypeOK'
  BY <1>28 DEF PutBack, Done, disk
<1>29. ASSUME NEW p \in Procs, DropAside(p) PROVE TypeOK'
  BY <1>29 DEF DropAside, Done, disk
<1>30. ASSUME NEW p \in Procs, RecoverAside(p) PROVE TypeOK'
  BY <1>30 DEF RecoverAside, Done, disk
<1>31. ASSUME NEW p \in Procs, Crash(p) PROVE TypeOK'
  BY <1>31 DEF Crash, disk
<1>32. CASE Tick
  BY <1>32 DEF Tick, Older, Fresh, local
<1>33. CASE UNCHANGED vars
  BY <1>33 DEF vars, disk, local
<1> QED
  BY <1>1, <1>2, <1>3, <1>4, <1>5, <1>6, <1>7, <1>8, <1>9, <1>10, <1>11, <1>12, <1>13, <1>14, <1>15, <1>16, <1>17, <1>18, <1>19, <1>20, <1>21, <1>22, <1>23, <1>24, <1>25, <1>26, <1>27, <1>28, <1>29, <1>30, <1>31, <1>32, <1>33, <1>34 DEF Next, Serve, Repair, Place, Remove, Restore, Procs

\* A mark belongs to one placer, a fresh name to one remover; only a file whose
\* name is old is taken over.
LEMMA HoldingStep == TypeOK /\ Holding /\ Filled /\ [Next]_vars => Holding'
<1> SUFFICES ASSUME TypeOK, Holding, Filled, [Next]_vars PROVE Holding'
  OBVIOUS
<1> USE GraceAssumption, NameAssumption DEF TypeOK, File, Ages, Missing, PlacePcs, RemovePcs, RestorePcs, Holding, Filled, AsidePcs
<1>1. ASSUME NEW p \in Procs, BeginPlace(p) PROVE Holding'
  BY <1>1 DEF BeginPlace, Unused, Goto, disk
<1>2. ASSUME NEW p \in Procs, PurgeAttachments(p) PROVE Holding'
  BY <1>2 DEF PurgeAttachments, Goto, disk
<1>3. ASSUME NEW p \in Procs, PurgeTranscript(p) PROVE Holding'
  BY <1>3 DEF PurgeTranscript, disk
<1>4. ASSUME NEW p \in Procs, CheckOrphan(p) PROVE Holding'
  BY <1>4 DEF CheckOrphan, disk
<1>5. ASSUME NEW p \in Procs, OpenAside(p) PROVE Holding'
  BY <1>5 DEF OpenAside, Goto, disk
<1>6. ASSUME NEW p \in Procs, SweepMarks(p) PROVE Holding'
  BY <1>6 DEF SweepMarks, DropStale, local, disk
<1>7. ASSUME NEW p \in Procs, StartRemoval(p) PROVE Holding'
  BY <1>7 DEF StartRemoval, Goto, disk
<1>8. ASSUME NEW p \in Procs, LookForBody(p) PROVE Holding'
  BY <1>8 DEF LookForBody, Goto, disk
<1>9. ASSUME NEW p \in Procs, TouchBody(p) PROVE Holding'
  BY <1>9 DEF TouchBody, Goto, disk
<1>10. ASSUME NEW p \in Procs, RenameTemp(p) PROVE Holding'
  BY <1>10 DEF RenameTemp, Goto, disk
<1>11. ASSUME NEW p \in Procs, FailPlace(p) PROVE Holding'
  BY <1>11 DEF FailPlace, Done, disk
<1>12. ASSUME NEW p \in Procs, Commit(p) PROVE Holding'
  BY <1>12 DEF Commit, Goto, disk
<1>13. ASSUME NEW p \in Procs, Abort(p) PROVE Holding'
  BY <1>13 DEF Abort, Goto, disk
<1>34. ASSUME NEW p \in Procs, CommitCovered(p) PROVE Holding'
  BY <1>34 DEF CommitCovered, Goto, disk
<1>14. ASSUME NEW p \in Procs, Unmark(p) PROVE Holding'
  BY <1>14 DEF Unmark, disk
<1>15. ASSUME NEW p \in Procs, CountRows(p) PROVE Holding'
  BY <1>15 DEF CountRows, Done, disk
<1>16. ASSUME NEW p \in Procs, FindMarkBefore(p) PROVE Holding'
  BY <1>16 DEF FindMarkBefore, Done, DropStale, disk
<1>17. ASSUME NEW p \in Procs, FindNoMarkBefore(p) PROVE Holding'
  BY <1>17 DEF FindNoMarkBefore, Goto, DropStale, disk
<1>18. ASSUME NEW p \in Procs, TakeName(p) PROVE Holding'
  BY <1>18 DEF TakeName, Unused, Goto, disk
<1>19. ASSUME NEW p \in Procs, SetAside(p) PROVE Holding'
  BY <1>19 DEF SetAside, Goto, disk
<1>20. ASSUME NEW p \in Procs, SetNothingAside(p) PROVE Holding'
  BY <1>20 DEF SetNothingAside, Done, disk
<1>21. ASSUME NEW p \in Procs, KeepRecent(p) PROVE Holding'
  BY <1>21 DEF KeepRecent, Goto, disk
<1>22. ASSUME NEW p \in Procs, ListAfter(p) PROVE Holding'
  BY <1>22 DEF ListAfter, Goto, Marks, disk
<1>23. ASSUME NEW p \in Procs, StatAfter(p) PROVE Holding'
  BY <1>23 DEF StatAfter, Goto, DropStale, Fresh, disk
<1>24. ASSUME NEW p \in Procs, Recount(p) PROVE Holding'
  BY <1>24 DEF Recount, Goto, disk
<1>25. ASSUME NEW p \in Procs, FailAfter(p) PROVE Holding'
  BY <1>25 DEF FailAfter, disk
<1>26. ASSUME NEW p \in Procs, Unlink(p) PROVE Holding'
  BY <1>26 DEF Unlink, Done, disk
<1>27. ASSUME NEW p \in Procs, LookBeforeRestore(p) PROVE Holding'
  BY <1>27 DEF LookBeforeRestore, Goto, disk
<1>28. ASSUME NEW p \in Procs, PutBack(p) PROVE Holding'
  BY <1>28 DEF PutBack, Done, disk
<1>29. ASSUME NEW p \in Procs, DropAside(p) PROVE Holding'
  BY <1>29 DEF DropAside, Done, disk
<1>30. ASSUME NEW p \in Procs, RecoverAside(p) PROVE Holding'
  BY <1>30 DEF RecoverAside, Done, disk
<1>31. ASSUME NEW p \in Procs, Crash(p) PROVE Holding'
  BY <1>31 DEF Crash, disk
<1>32. CASE Tick
  BY <1>32 DEF Tick, Older, Fresh, local
<1>33. CASE UNCHANGED vars
  BY <1>33 DEF vars, disk, local
<1> QED
  BY <1>1, <1>2, <1>3, <1>4, <1>5, <1>6, <1>7, <1>8, <1>9, <1>10, <1>11, <1>12, <1>13, <1>14, <1>15, <1>16, <1>17, <1>18, <1>19, <1>20, <1>21, <1>22, <1>23, <1>24, <1>25, <1>26, <1>27, <1>28, <1>29, <1>30, <1>31, <1>32, <1>33, <1>34 DEF Next, Serve, Repair, Place, Remove, Restore, Procs

\* An aside that is left holds the body from its rename to its end.
LEMMA FilledStep == TypeOK /\ Holding /\ Filled /\ [Next]_vars => Filled'
<1> SUFFICES ASSUME TypeOK, Holding, Filled, [Next]_vars PROVE Filled'
  OBVIOUS
<1> USE GraceAssumption, NameAssumption DEF TypeOK, File, Ages, Missing, PlacePcs, RemovePcs, RestorePcs, Holding, Filled, AsidePcs
<1>1. ASSUME NEW p \in Procs, BeginPlace(p) PROVE Filled'
  BY <1>1 DEF BeginPlace, Unused, Goto, disk
<1>2. ASSUME NEW p \in Procs, PurgeAttachments(p) PROVE Filled'
  BY <1>2 DEF PurgeAttachments, Goto, disk
<1>3. ASSUME NEW p \in Procs, PurgeTranscript(p) PROVE Filled'
  BY <1>3 DEF PurgeTranscript, disk
<1>4. ASSUME NEW p \in Procs, CheckOrphan(p) PROVE Filled'
  BY <1>4 DEF CheckOrphan, disk
<1>5. ASSUME NEW p \in Procs, OpenAside(p) PROVE Filled'
  BY <1>5 DEF OpenAside, Goto, disk
<1>6. ASSUME NEW p \in Procs, SweepMarks(p) PROVE Filled'
  BY <1>6 DEF SweepMarks, DropStale, local, disk
<1>7. ASSUME NEW p \in Procs, StartRemoval(p) PROVE Filled'
  BY <1>7 DEF StartRemoval, Goto, disk
<1>8. ASSUME NEW p \in Procs, LookForBody(p) PROVE Filled'
  BY <1>8 DEF LookForBody, Goto, disk
<1>9. ASSUME NEW p \in Procs, TouchBody(p) PROVE Filled'
  BY <1>9 DEF TouchBody, Goto, disk
<1>10. ASSUME NEW p \in Procs, RenameTemp(p) PROVE Filled'
  BY <1>10 DEF RenameTemp, Goto, disk
<1>11. ASSUME NEW p \in Procs, FailPlace(p) PROVE Filled'
  BY <1>11 DEF FailPlace, Done, disk
<1>12. ASSUME NEW p \in Procs, Commit(p) PROVE Filled'
  BY <1>12 DEF Commit, Goto, disk
<1>13. ASSUME NEW p \in Procs, Abort(p) PROVE Filled'
  BY <1>13 DEF Abort, Goto, disk
<1>34. ASSUME NEW p \in Procs, CommitCovered(p) PROVE Filled'
  BY <1>34 DEF CommitCovered, Goto, disk
<1>14. ASSUME NEW p \in Procs, Unmark(p) PROVE Filled'
  BY <1>14 DEF Unmark, disk
<1>15. ASSUME NEW p \in Procs, CountRows(p) PROVE Filled'
  BY <1>15 DEF CountRows, Done, disk
<1>16. ASSUME NEW p \in Procs, FindMarkBefore(p) PROVE Filled'
  BY <1>16 DEF FindMarkBefore, Done, DropStale, disk
<1>17. ASSUME NEW p \in Procs, FindNoMarkBefore(p) PROVE Filled'
  BY <1>17 DEF FindNoMarkBefore, Goto, DropStale, disk
<1>18. ASSUME NEW p \in Procs, TakeName(p) PROVE Filled'
  BY <1>18 DEF TakeName, Unused, Goto, disk
<1>19. ASSUME NEW p \in Procs, SetAside(p) PROVE Filled'
  BY <1>19 DEF SetAside, Goto, disk
<1>20. ASSUME NEW p \in Procs, SetNothingAside(p) PROVE Filled'
  BY <1>20 DEF SetNothingAside, Done, disk
<1>21. ASSUME NEW p \in Procs, KeepRecent(p) PROVE Filled'
  BY <1>21 DEF KeepRecent, Goto, disk
<1>22. ASSUME NEW p \in Procs, ListAfter(p) PROVE Filled'
  BY <1>22 DEF ListAfter, Goto, Marks, disk
<1>23. ASSUME NEW p \in Procs, StatAfter(p) PROVE Filled'
  BY <1>23 DEF StatAfter, Goto, DropStale, Fresh, disk
<1>24. ASSUME NEW p \in Procs, Recount(p) PROVE Filled'
  BY <1>24 DEF Recount, Goto, disk
<1>25. ASSUME NEW p \in Procs, FailAfter(p) PROVE Filled'
  BY <1>25 DEF FailAfter, disk
<1>26. ASSUME NEW p \in Procs, Unlink(p) PROVE Filled'
  BY <1>26 DEF Unlink, Done, disk
<1>27. ASSUME NEW p \in Procs, LookBeforeRestore(p) PROVE Filled'
  BY <1>27 DEF LookBeforeRestore, Goto, disk
<1>28. ASSUME NEW p \in Procs, PutBack(p) PROVE Filled'
  BY <1>28 DEF PutBack, Done, disk
<1>29. ASSUME NEW p \in Procs, DropAside(p) PROVE Filled'
  BY <1>29 DEF DropAside, Done, disk
<1>30. ASSUME NEW p \in Procs, RecoverAside(p) PROVE Filled'
  BY <1>30 DEF RecoverAside, Done, disk
<1>31. ASSUME NEW p \in Procs, Crash(p) PROVE Filled'
  BY <1>31 DEF Crash, disk
<1>32. CASE Tick
  BY <1>32 DEF Tick, Older, Fresh, local
<1>33. CASE UNCHANGED vars
  BY <1>33 DEF vars, disk, local
<1> QED
  BY <1>1, <1>2, <1>3, <1>4, <1>5, <1>6, <1>7, <1>8, <1>9, <1>10, <1>11, <1>12, <1>13, <1>14, <1>15, <1>16, <1>17, <1>18, <1>19, <1>20, <1>21, <1>22, <1>23, <1>24, <1>25, <1>26, <1>27, <1>28, <1>29, <1>30, <1>31, <1>32, <1>33, <1>34 DEF Next, Serve, Repair, Place, Remove, Restore, Procs

\* Once a row is recorded, the recount of every remover sees it; the copy that was
\* safe for the placer who recorded it is safe for the row.
LEMMA RowsStep == TypeOK /\ Holding /\ Filled /\ RowsSafe /\ PlacersSafe /\ [Next]_vars => RowsSafe'
<1> SUFFICES ASSUME TypeOK, Holding, Filled, RowsSafe, PlacersSafe, [Next]_vars PROVE RowsSafe'
  OBVIOUS
<1> USE GraceAssumption, NameAssumption DEF TypeOK, File, Ages, Missing, PlacePcs, RemovePcs, RestorePcs, Holding, Filled, AsidePcs, SafeForRows, CanCommit, RowsSafe, PlacersSafe, SafeForPlacer
<1>1. ASSUME NEW p \in Procs, BeginPlace(p) PROVE RowsSafe'
  BY <1>1 DEF BeginPlace, Unused, Goto, disk
<1>2. ASSUME NEW p \in Procs, PurgeAttachments(p) PROVE RowsSafe'
  BY <1>2 DEF PurgeAttachments, Goto, disk
<1>3. ASSUME NEW p \in Procs, PurgeTranscript(p) PROVE RowsSafe'
  BY <1>3 DEF PurgeTranscript, disk
<1>4. ASSUME NEW p \in Procs, CheckOrphan(p) PROVE RowsSafe'
  BY <1>4 DEF CheckOrphan, disk
<1>5. ASSUME NEW p \in Procs, OpenAside(p) PROVE RowsSafe'
  BY <1>5 DEF OpenAside, Goto, disk
<1>6. ASSUME NEW p \in Procs, SweepMarks(p) PROVE RowsSafe'
  BY <1>6 DEF SweepMarks, DropStale, local, disk
<1>7. ASSUME NEW p \in Procs, StartRemoval(p) PROVE RowsSafe'
  BY <1>7 DEF StartRemoval, Goto, disk
<1>8. ASSUME NEW p \in Procs, LookForBody(p) PROVE RowsSafe'
  BY <1>8 DEF LookForBody, Goto, disk
<1>9. ASSUME NEW p \in Procs, TouchBody(p) PROVE RowsSafe'
  BY <1>9 DEF TouchBody, Goto, disk
<1>10. ASSUME NEW p \in Procs, RenameTemp(p) PROVE RowsSafe'
  BY <1>10 DEF RenameTemp, Goto, disk
<1>11. ASSUME NEW p \in Procs, FailPlace(p) PROVE RowsSafe'
  BY <1>11 DEF FailPlace, Done, disk
<1>12. ASSUME NEW p \in Procs, Commit(p) PROVE RowsSafe'
  BY <1>12 DEF Commit, Goto, disk
<1>13. ASSUME NEW p \in Procs, Abort(p) PROVE RowsSafe'
  BY <1>13 DEF Abort, Goto, disk
<1>34. ASSUME NEW p \in Procs, CommitCovered(p) PROVE RowsSafe'
  BY <1>34 DEF CommitCovered, Goto, disk
<1>14. ASSUME NEW p \in Procs, Unmark(p) PROVE RowsSafe'
  BY <1>14 DEF Unmark, disk
<1>15. ASSUME NEW p \in Procs, CountRows(p) PROVE RowsSafe'
  BY <1>15 DEF CountRows, Done, disk
<1>16. ASSUME NEW p \in Procs, FindMarkBefore(p) PROVE RowsSafe'
  BY <1>16 DEF FindMarkBefore, Done, DropStale, disk
<1>17. ASSUME NEW p \in Procs, FindNoMarkBefore(p) PROVE RowsSafe'
  BY <1>17 DEF FindNoMarkBefore, Goto, DropStale, disk
<1>18. ASSUME NEW p \in Procs, TakeName(p) PROVE RowsSafe'
  BY <1>18 DEF TakeName, Unused, Goto, disk
<1>19. ASSUME NEW p \in Procs, SetAside(p) PROVE RowsSafe'
  BY <1>19 DEF SetAside, Goto, disk
<1>20. ASSUME NEW p \in Procs, SetNothingAside(p) PROVE RowsSafe'
  BY <1>20 DEF SetNothingAside, Done, disk
<1>21. ASSUME NEW p \in Procs, KeepRecent(p) PROVE RowsSafe'
  BY <1>21 DEF KeepRecent, Goto, disk
<1>22. ASSUME NEW p \in Procs, ListAfter(p) PROVE RowsSafe'
  BY <1>22 DEF ListAfter, Goto, Marks, disk
<1>23. ASSUME NEW p \in Procs, StatAfter(p) PROVE RowsSafe'
  BY <1>23 DEF StatAfter, Goto, DropStale, Fresh, disk
<1>24. ASSUME NEW p \in Procs, Recount(p) PROVE RowsSafe'
  BY <1>24 DEF Recount, Goto, disk
<1>25. ASSUME NEW p \in Procs, FailAfter(p) PROVE RowsSafe'
  BY <1>25 DEF FailAfter, disk
<1>26. ASSUME NEW p \in Procs, Unlink(p) PROVE RowsSafe'
  BY <1>26 DEF Unlink, Done, disk
<1>27. ASSUME NEW p \in Procs, LookBeforeRestore(p) PROVE RowsSafe'
  BY <1>27 DEF LookBeforeRestore, Goto, disk
<1>28. ASSUME NEW p \in Procs, PutBack(p) PROVE RowsSafe'
  BY <1>28 DEF PutBack, Done, disk
<1>29. ASSUME NEW p \in Procs, DropAside(p) PROVE RowsSafe'
  BY <1>29 DEF DropAside, Done, disk
<1>30. ASSUME NEW p \in Procs, RecoverAside(p) PROVE RowsSafe'
  BY <1>30 DEF RecoverAside, Done, disk
<1>31. ASSUME NEW p \in Procs, Crash(p) PROVE RowsSafe'
  BY <1>31 DEF Crash, disk
<1>32. CASE Tick
  BY <1>32 DEF Tick, Older, Fresh, local
<1>33. CASE UNCHANGED vars
  BY <1>33 DEF vars, disk, local
<1> QED
  BY <1>1, <1>2, <1>3, <1>4, <1>5, <1>6, <1>7, <1>8, <1>9, <1>10, <1>11, <1>12, <1>13, <1>14, <1>15, <1>16, <1>17, <1>18, <1>19, <1>20, <1>21, <1>22, <1>23, <1>24, <1>25, <1>26, <1>27, <1>28, <1>29, <1>30, <1>31, <1>32, <1>33, <1>34 DEF Next, Serve, Repair, Place, Remove, Restore, Procs

\* A placer that found or put the body keeps a safe copy until it has committed or
\* can no longer: a listing made after the body was set aside returns its mark.
LEMMA PlacersStep == TypeOK /\ Holding /\ Filled /\ PlacersSafe /\ [Next]_vars => PlacersSafe'
<1> SUFFICES ASSUME TypeOK, Holding, Filled, PlacersSafe, [Next]_vars PROVE PlacersSafe'
  OBVIOUS
<1> USE GraceAssumption, NameAssumption DEF TypeOK, File, Ages, Missing, PlacePcs, RemovePcs, RestorePcs, Holding, Filled, AsidePcs, CanCommit, PlacersSafe, SafeForPlacer
<1>1. ASSUME NEW p \in Procs, BeginPlace(p) PROVE PlacersSafe'
  BY <1>1 DEF BeginPlace, Unused, Goto, disk
<1>2. ASSUME NEW p \in Procs, PurgeAttachments(p) PROVE PlacersSafe'
  BY <1>2 DEF PurgeAttachments, Goto, disk
<1>3. ASSUME NEW p \in Procs, PurgeTranscript(p) PROVE PlacersSafe'
  BY <1>3 DEF PurgeTranscript, disk
<1>4. ASSUME NEW p \in Procs, CheckOrphan(p) PROVE PlacersSafe'
  BY <1>4 DEF CheckOrphan, disk
<1>5. ASSUME NEW p \in Procs, OpenAside(p) PROVE PlacersSafe'
  BY <1>5 DEF OpenAside, Goto, disk
<1>6. ASSUME NEW p \in Procs, SweepMarks(p) PROVE PlacersSafe'
  BY <1>6 DEF SweepMarks, DropStale, local, disk
<1>7. ASSUME NEW p \in Procs, StartRemoval(p) PROVE PlacersSafe'
  BY <1>7 DEF StartRemoval, Goto, disk
<1>8. ASSUME NEW p \in Procs, LookForBody(p) PROVE PlacersSafe'
  BY <1>8 DEF LookForBody, Goto, disk
<1>9. ASSUME NEW p \in Procs, TouchBody(p) PROVE PlacersSafe'
  BY <1>9 DEF TouchBody, Goto, disk
<1>10. ASSUME NEW p \in Procs, RenameTemp(p) PROVE PlacersSafe'
  BY <1>10 DEF RenameTemp, Goto, disk
<1>11. ASSUME NEW p \in Procs, FailPlace(p) PROVE PlacersSafe'
  BY <1>11 DEF FailPlace, Done, disk
<1>12. ASSUME NEW p \in Procs, Commit(p) PROVE PlacersSafe'
  BY <1>12 DEF Commit, Goto, disk
<1>13. ASSUME NEW p \in Procs, Abort(p) PROVE PlacersSafe'
  BY <1>13 DEF Abort, Goto, disk
<1>34. ASSUME NEW p \in Procs, CommitCovered(p) PROVE PlacersSafe'
  BY <1>34 DEF CommitCovered, Goto, disk
<1>14. ASSUME NEW p \in Procs, Unmark(p) PROVE PlacersSafe'
  BY <1>14 DEF Unmark, disk
<1>15. ASSUME NEW p \in Procs, CountRows(p) PROVE PlacersSafe'
  BY <1>15 DEF CountRows, Done, disk
<1>16. ASSUME NEW p \in Procs, FindMarkBefore(p) PROVE PlacersSafe'
  BY <1>16 DEF FindMarkBefore, Done, DropStale, disk
<1>17. ASSUME NEW p \in Procs, FindNoMarkBefore(p) PROVE PlacersSafe'
  BY <1>17 DEF FindNoMarkBefore, Goto, DropStale, disk
<1>18. ASSUME NEW p \in Procs, TakeName(p) PROVE PlacersSafe'
  BY <1>18 DEF TakeName, Unused, Goto, disk
<1>19. ASSUME NEW p \in Procs, SetAside(p) PROVE PlacersSafe'
  BY <1>19 DEF SetAside, Goto, disk
<1>20. ASSUME NEW p \in Procs, SetNothingAside(p) PROVE PlacersSafe'
  BY <1>20 DEF SetNothingAside, Done, disk
<1>21. ASSUME NEW p \in Procs, KeepRecent(p) PROVE PlacersSafe'
  BY <1>21 DEF KeepRecent, Goto, disk
<1>22. ASSUME NEW p \in Procs, ListAfter(p) PROVE PlacersSafe'
  BY <1>22 DEF ListAfter, Goto, Marks, disk
<1>23. ASSUME NEW p \in Procs, StatAfter(p) PROVE PlacersSafe'
  BY <1>23 DEF StatAfter, Goto, DropStale, Fresh, disk
<1>24. ASSUME NEW p \in Procs, Recount(p) PROVE PlacersSafe'
  BY <1>24 DEF Recount, Goto, disk
<1>25. ASSUME NEW p \in Procs, FailAfter(p) PROVE PlacersSafe'
  BY <1>25 DEF FailAfter, disk
<1>26. ASSUME NEW p \in Procs, Unlink(p) PROVE PlacersSafe'
  BY <1>26 DEF Unlink, Done, disk
<1>27. ASSUME NEW p \in Procs, LookBeforeRestore(p) PROVE PlacersSafe'
  BY <1>27 DEF LookBeforeRestore, Goto, disk
<1>28. ASSUME NEW p \in Procs, PutBack(p) PROVE PlacersSafe'
  BY <1>28 DEF PutBack, Done, disk
<1>29. ASSUME NEW p \in Procs, DropAside(p) PROVE PlacersSafe'
  BY <1>29 DEF DropAside, Done, disk
<1>30. ASSUME NEW p \in Procs, RecoverAside(p) PROVE PlacersSafe'
  BY <1>30 DEF RecoverAside, Done, disk
<1>31. ASSUME NEW p \in Procs, Crash(p) PROVE PlacersSafe'
  BY <1>31 DEF Crash, disk
<1>32. CASE Tick
  BY <1>32 DEF Tick, Older, Fresh, local
<1>33. CASE UNCHANGED vars
  BY <1>33 DEF vars, disk, local
<1> QED
  BY <1>1, <1>2, <1>3, <1>4, <1>5, <1>6, <1>7, <1>8, <1>9, <1>10, <1>11, <1>12, <1>13, <1>14, <1>15, <1>16, <1>17, <1>18, <1>19, <1>20, <1>21, <1>22, <1>23, <1>24, <1>25, <1>26, <1>27, <1>28, <1>29, <1>30, <1>31, <1>32, <1>33, <1>34 DEF Next, Serve, Repair, Place, Remove, Restore, Procs

(***************************************************************************)
(* The inductive invariant holds for any number of processes, names and    *)
(* rows: a copy is safe for the rows and for every placer that can still   *)
(* commit.                                                                 *)
(***************************************************************************)
THEOREM StoreInvariant == Spec => []IInv
<1>1. Init => IInv
  BY NameAssumption DEF Init, IInv, TypeOK, Holding, Filled, RowsSafe, PlacersSafe, CanCommit,
     File, Ages, Missing, PlacePcs, RemovePcs, RestorePcs, AsidePcs
<1>2. IInv /\ [Next]_vars => IInv'
  BY TypeStep, HoldingStep, FilledStep, RowsStep, PlacersStep DEF IInv
<1> QED
  BY <1>1, <1>2, PTL DEF Spec

(***************************************************************************)
(* Every variable keeps its type.                                          *)
(***************************************************************************)
THEOREM TypeCorrect == Spec => []TypeOK
<1>1. IInv => TypeOK
  BY DEF IInv
<1> QED
  BY <1>1, StoreInvariant, PTL

(***************************************************************************)
(* The content of a body that a row points at is never deleted: the claim  *)
(* of the comment above beginBlobPlace, for any number of processes.       *)
(***************************************************************************)
THEOREM BodyNeverLost == Spec => []NoLostBody
<1>1. IInv => NoLostBody
  BY DEF IInv, RowsSafe, SafeForRows, NoLostBody, Stored
<1> QED
  BY <1>1, StoreInvariant, PTL

LEMMA AbstractStep == IInv /\ IInv' /\ [Next]_vars => [Abstract!Next]_(Abstract!vars)
<1> SUFFICES ASSUME IInv, IInv', [Next]_vars
             PROVE  [Abstract!Next]_(Abstract!vars)
  OBVIOUS
<1> USE DEF Abstract!Next, Abstract!vars
\* A step that leaves the rows alone stores the content, stutters, or discards it;
\* it discards it only when no row is left, or RowsSafe would keep a copy.
<1>1. ASSUME live' = live PROVE [Abstract!Next]_(Abstract!vars)
  <2>1. CASE Stored' = Stored
    BY <1>1, <2>1
  <2>2. CASE Stored' /\ ~Stored
    BY <1>1, <2>2 DEF Abstract!Store
  <2>3. CASE ~Stored' /\ Stored
    <3>1. live = {}
      BY <1>1, <2>3 DEF IInv, RowsSafe, SafeForRows, Stored
    <3>2. Stored' = FALSE
      BY <2>3 DEF Stored
    <3> QED
      BY <1>1, <3>1, <3>2 DEF Abstract!Discard
  <2> QED
    BY <2>1, <2>2, <2>3 DEF Stored
<1>2. ASSUME NEW p \in Procs, Commit(p) PROVE [Abstract!Next]_(Abstract!vars)
  <2>1. Stored
    BY <1>2 DEF Commit, CanCommit, IInv, PlacersSafe, SafeForPlacer, Stored
  <2>2. Stored' = Stored
    BY <1>2 DEF Commit, Stored, disk
  <2> QED
    BY <1>2, <2>1, <2>2 DEF Commit, Abstract!Record
<1>3. ASSUME NEW p \in Procs, PurgeAttachments(p) PROVE [Abstract!Next]_(Abstract!vars)
  <2>1. PICK gone \in SUBSET live : live' = live \ gone
    BY <1>3 DEF PurgeAttachments
  <2>2. Stored' = Stored /\ gone \in SUBSET Refs
    BY <1>3 DEF PurgeAttachments, Stored, disk, IInv, TypeOK
  <2> QED
    BY <2>1, <2>2 DEF Abstract!Purge
<1>4. ASSUME NEW p \in Procs, PurgeTranscript(p) PROVE [Abstract!Next]_(Abstract!vars)
  <2>1. PICK r \in live : live' = live \ {r}
    BY <1>4 DEF PurgeTranscript
  <2>2. Stored' = Stored /\ {r} \in SUBSET Refs
    BY <1>4 DEF PurgeTranscript, Stored, disk, IInv, TypeOK
  <2> QED
    BY <2>1, <2>2 DEF Abstract!Purge
<1>5. \/ live' = live
      \/ \E p \in Procs : Commit(p) \/ PurgeAttachments(p) \/ PurgeTranscript(p)
  BY DEF Next, Serve, Repair, Place, Remove, Restore, Procs, vars, Tick, Crash,
     BeginPlace, CheckOrphan, OpenAside, SweepMarks, StartRemoval, LookForBody, TouchBody,
     RenameTemp, FailPlace, CommitCovered, Abort, Unmark, CountRows, FindMarkBefore, FindNoMarkBefore,
     TakeName, SetAside, SetNothingAside, KeepRecent, ListAfter, StatAfter, Recount,
     FailAfter, Unlink, LookBeforeRestore, PutBack, DropAside, RecoverAside
<1> QED
  BY <1>1, <1>2, <1>3, <1>4, <1>5

(***************************************************************************)
(* The files, marks and renames implement the reference counting of        *)
(* BlobRefs, for any number of processes.                                  *)
(***************************************************************************)
THEOREM StoreImplementsRefs == Spec => ImplementsRefs
<1>1. Init => Abstract!Init
  BY DEF Init, Abstract!Init, Stored, Missing
<1>2. IInv /\ IInv' /\ [Next]_vars => [Abstract!Next]_(Abstract!vars)
  BY AbstractStep
<1> QED
  BY <1>1, <1>2, StoreInvariant, PTL DEF Spec, ImplementsRefs, Abstract!Spec
============================================================================
