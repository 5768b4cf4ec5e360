--------------------------- MODULE Ingest_proofs ---------------------------
(***************************************************************************)
(* Machine-checked proofs about Ingest, for every value of its constants:  *)
(* first the invariants, then what a run promises about rows, vectors,     *)
(* cursors and its report.  Each theorem of the second part names what a   *)
(* history must be free of for it to hold.                                 *)
(***************************************************************************)
EXTENDS IngestInv, TLAPS

\* What a run leaves of its own state when it ends is typed.
LEMMA EndRunType ==
  ASSUME EndRun
  PROVE  /\ pc' = "idle" /\ cur' = NoPath /\ bytes' = Absent
         /\ scan' \in [Paths -> Contents \cup {Absent}]
         /\ todo' = {} /\ doomed' = {} /\ failed' = {}
         /\ force' \in BOOLEAN /\ changed' \in BOOLEAN /\ cancelled' \in BOOLEAN
  BY DEF EndRun, Goto

\* A typed state keeps TypeOK and Located over any step.
LEMMA TypeStep ==
  ASSUME TypeOK, Located, [Next]_vars
  PROVE  TypeOK' /\ Located'
<1> USE ConstantsAssumption DEF TypeOK, Located, AssetSteps, RunSteps, store, run, env
<1>1. CASE UNCHANGED vars
  BY <1>1 DEF vars
<1>2. ASSUME NEW p \in Paths, SweepKeeps(p) PROVE TypeOK' /\ Located'
  BY <1>2 DEF SweepKeeps
<1>3. ASSUME NEW p \in Paths, SweepRecords(p) PROVE TypeOK' /\ Located'
  BY <1>3 DEF SweepRecords, DropRecords, Goto
<1>4. CASE SweepDocument
  BY <1>4 DEF SweepDocument, DropDocuments, ChunksAt, Stored, Goto
<1>5. CASE FlushDoomed
  BY <1>5 DEF FlushDoomed, LanceWithout, Goto
<1>6. CASE SweepEnds
  BY <1>6 DEF SweepEnds, Goto
<1>7. ASSUME NEW p \in Paths, NextAsset(p) PROVE TypeOK' /\ Located'
  BY <1>7 DEF NextAsset, Goto
<1>8. CASE SkipUnchanged
  BY <1>8 DEF SkipUnchanged, Goto
<1>9. CASE Reprocess
  BY <1>9 DEF Reprocess, Goto
<1>10. CASE BumpVectors
  BY <1>10 DEF BumpVectors, LanceWithout, Goto
<1>11. CASE BumpRecords
  BY <1>11 DEF BumpRecords, DropRecords, Goto
<1>12. CASE BumpDocument
  BY <1>12 DEF BumpDocument, DropDocuments, ChunksAt, Goto
<1>13. CASE ReadBytes
  BY <1>13 DEF ReadBytes, Goto
<1>14. CASE ReadFails
  BY <1>14 DEF ReadFails, ItemError, Goto
<1>15. CASE PurgeVectors
  BY <1>15 DEF PurgeVectors, LanceWithout, AfterStore, Goto, Victims, Stored
<1>16. CASE ChecksumConflict
  BY <1>16 DEF ChecksumConflict, ItemError, Goto
<1>17. CASE OrphanRecords
  BY <1>17 DEF OrphanRecords, DropRecords, Victims, Stored, Goto
<1>18. CASE OrphanDocuments
  BY <1>18 DEF OrphanDocuments, DropDocuments, ChunksAt, Goto
<1>19. CASE PutAsset
  BY <1>19 DEF PutAsset, Goto
<1>20. CASE PutDocument
  BY <1>20 DEF PutDocument, NewRow, Goto, DocRow, Config, Versions
<1>21. CASE DocumentConflict
  BY <1>21 DEF DocumentConflict, ItemError, Goto
<1>22. CASE PutChunks
  BY <1>22 DEF PutChunks, NewChunk, NewRow, ChunkOf, Config, DropRecords, ChunksAt, AfterStore, Goto, DocRow, Chunk
<1>23. CASE StagePending
  BY <1>23 DEF StagePending, NewRow, NewRecord, NewChunk, ChunkOf, Goto, Config, Record, Chunk
<1>24. CASE MergeVectors
  BY <1>24 DEF MergeVectors, NewRow, NewVector, NewChunk, ChunkOf, Goto, Config, Vector, Models, Chunk
<1>25. CASE MarkCommitted
  BY <1>25 DEF MarkCommitted, Goto
<1>26. CASE ReportIndexed
  BY <1>26 DEF ReportIndexed, Goto
<1>27. CASE LastAsset
  BY <1>27 DEF LastAsset, Goto
<1>28. CASE Finish
  BY <1>28, EndRunType DEF Finish, Goto
<1>29. CASE ItemFails
  BY <1>29 DEF ItemFails, ItemError, Spend, Goto
<1>30. CASE SweepFails
  BY <1>30 DEF SweepFails, Spend, Goto
<1>31. CASE FlushFails
  BY <1>31 DEF FlushFails, Spend, Goto
<1>32. CASE BumpRevisionFails
  BY <1>32, EndRunType DEF BumpRevisionFails, Spend, Goto
<1>33. CASE Crash
  BY <1>33, EndRunType DEF Crash, Spend, Goto
<1>34. CASE Cancel
  BY <1>34 DEF Cancel, Spend
<1>35. ASSUME NEW f \in ForceModes, NEW scope \in Scopes, StartRun(f, scope) PROVE TypeOK' /\ Located'
  BY <1>35 DEF StartRun, Goto, Stored
<1>36. ASSUME NEW p \in Paths, NEW c \in Contents \cup {Absent}, EditFile(p, c) PROVE TypeOK' /\ Located'
  BY <1>36 DEF EditFile, Spend
<1>37. ASSUME NEW c \in Config, ChangeConfig(c) PROVE TypeOK' /\ Located'
  BY <1>37 DEF ChangeConfig, Spend
<1>38. CASE ResetVectors
  BY <1>38 DEF ResetVectors, Spend, Stored
<1>39. CASE IssueCursor
  BY <1>39 DEF IssueCursor, CurrentView, View
<1>40. CASE RejectCursor
  BY <1>40 DEF RejectCursor
<1>41. QED
  BY <1>1, <1>2, <1>3, <1>4, <1>5, <1>6, <1>7, <1>8, <1>9, <1>10, <1>11, <1>12, <1>13, <1>14, <1>15, <1>16, <1>17, <1>18, <1>19, <1>20, <1>21, <1>22, <1>23, <1>24, <1>25, <1>26, <1>27, <1>28, <1>29, <1>30, <1>31, <1>32, <1>33, <1>34, <1>35, <1>36, <1>37, <1>38, <1>39, <1>40 DEF Next, RunStep, Sweep, Asset, Mishap, User


\* References survive every step.
LEMMA ReferencesStep ==
  ASSUME TypeOK, Located, Ordered, References, Written, [Next]_vars
  PROVE  References'
<1> USE ConstantsAssumption DEF TypeOK, Located, Ordered, References, Written, AssetSteps, AssetPathsUnique, DocumentsHaveAssets, RecordsHaveChunks, Stored, store, run, env
<1>1. CASE UNCHANGED vars
  BY <1>1 DEF vars
<1>2. ASSUME NEW p \in Paths, SweepKeeps(p) PROVE References'
  BY <1>2 DEF SweepKeeps
<1>3. ASSUME NEW p \in Paths, SweepRecords(p) PROVE References'
  BY <1>3 DEF SweepRecords, DropRecords, ChunksAt, Goto
<1>4. CASE SweepDocument
  BY <1>4 DEF SweepDocument, DropDocuments, ChunksAt, Stored, Goto, DocRow
<1>5. CASE FlushDoomed
  BY <1>5 DEF FlushDoomed, LanceWithout, Goto
<1>6. CASE SweepEnds
  BY <1>6 DEF SweepEnds, Goto
<1>7. ASSUME NEW p \in Paths, NextAsset(p) PROVE References'
  BY <1>7 DEF NextAsset, Goto
<1>8. CASE SkipUnchanged
  BY <1>8 DEF SkipUnchanged, Goto
<1>9. CASE Reprocess
  BY <1>9 DEF Reprocess, Goto
<1>10. CASE BumpVectors
  BY <1>10 DEF BumpVectors, Goto
<1>11. CASE BumpRecords
  BY <1>11 DEF BumpRecords, DropRecords, ChunksAt, Goto
<1>12. CASE BumpDocument
  BY <1>12 DEF BumpDocument, DropDocuments, ChunksAt, Goto
<1>13. CASE ReadBytes
  BY <1>13 DEF ReadBytes, Goto
<1>14. CASE ReadFails
  BY <1>14 DEF ReadFails, ItemError, Goto
<1>15. CASE PurgeVectors
  BY <1>15 DEF PurgeVectors, AfterStore, Goto
<1>16. CASE ChecksumConflict
  BY <1>16 DEF ChecksumConflict, ItemError, Goto
<1>17. CASE OrphanRecords
  BY <1>17 DEF OrphanRecords, DropRecords, ChunksAt, Goto
<1>18. CASE OrphanDocuments
  BY <1>18 DEF OrphanDocuments, DropDocuments, ChunksAt, Goto
<1>19. CASE PutAsset
  <2>1. AssetPathsUnique'
    BY <1>19 DEF PutAsset, StaleAssets
  <2>2. DocumentsHaveAssets'
    <3>1. \A p \in Stored : docs[p].content \notin StaleAssets(cur)
      BY <1>19 DEF PutAsset, Victims
    <3>2. \A p \in Stored : docs[p].content \in Contents
      BY DEF DocRow
    <3> QED
      BY <1>19, <3>1, <3>2 DEF PutAsset
  <2>3. RecordsHaveChunks'
    BY <1>19 DEF PutAsset
  <2> QED
    BY <2>1, <2>2, <2>3
<1>20. CASE PutDocument
  BY <1>20 DEF PutDocument, Goto, NewRow
<1>21. CASE DocumentConflict
  BY <1>21 DEF DocumentConflict, ItemError, Goto
<1>22. CASE PutChunks
  BY <1>22 DEF PutChunks, DropRecords, ChunksAt, AfterStore, Goto
<1>23. CASE StagePending
  BY <1>23 DEF StagePending, Goto, NewRecord
<1>24. CASE MergeVectors
  BY <1>24 DEF MergeVectors, Goto
<1>25. CASE MarkCommitted
  BY <1>25 DEF MarkCommitted, Goto
<1>26. CASE ReportIndexed
  BY <1>26 DEF ReportIndexed, Goto
<1>27. CASE LastAsset
  BY <1>27 DEF LastAsset, Goto
<1>28. CASE Finish
  BY <1>28 DEF Finish, EndRun, Goto
<1>29. CASE ItemFails
  BY <1>29 DEF ItemFails, ItemError, Goto
<1>30. CASE SweepFails
  BY <1>30 DEF SweepFails, Goto
<1>31. CASE FlushFails
  BY <1>31 DEF FlushFails, Goto
<1>32. CASE BumpRevisionFails
  BY <1>32 DEF BumpRevisionFails, EndRun, Goto
<1>33. CASE Crash
  BY <1>33 DEF Crash, EndRun, Goto
<1>34. CASE Cancel
  BY <1>34 DEF Cancel
<1>35. ASSUME NEW f \in ForceModes, NEW scope \in Scopes, StartRun(f, scope) PROVE References'
  BY <1>35 DEF StartRun, Goto
<1>36. ASSUME NEW p \in Paths, NEW c \in Contents \cup {Absent}, EditFile(p, c) PROVE References'
  BY <1>36 DEF EditFile
<1>37. ASSUME NEW c \in Config, ChangeConfig(c) PROVE References'
  BY <1>37 DEF ChangeConfig
<1>38. CASE ResetVectors
  BY <1>38 DEF ResetVectors
<1>39. CASE IssueCursor
  BY <1>39 DEF IssueCursor
<1>40. CASE RejectCursor
  BY <1>40 DEF RejectCursor
<1>41. QED
  BY <1>1, <1>2, <1>3, <1>4, <1>5, <1>6, <1>7, <1>8, <1>9, <1>10, <1>11, <1>12, <1>13, <1>14, <1>15, <1>16, <1>17, <1>18, <1>19, <1>20, <1>21, <1>22, <1>23, <1>24, <1>25, <1>26, <1>27, <1>28, <1>29, <1>30, <1>31, <1>32, <1>33, <1>34, <1>35, <1>36, <1>37, <1>38, <1>39, <1>40 DEF Next, RunStep, Sweep, Asset, Mishap, User


\* The order of deletions is kept by every step.
LEMMA OrderedStep ==
  ASSUME TypeOK, Located, Ordered, References, [Next]_vars
  PROVE  Ordered'
<1> USE ConstantsAssumption DEF TypeOK, Located, Ordered, References, AssetSteps, RecordsHaveChunks, store, run, env
<1>1. CASE UNCHANGED vars
  BY <1>1 DEF vars, Victims, Stored, StaleAssets
<1>2. ASSUME NEW p \in Paths, SweepKeeps(p) PROVE Ordered'
  BY <1>2 DEF SweepKeeps
<1>3. ASSUME NEW p \in Paths, SweepRecords(p) PROVE Ordered'
  BY <1>3 DEF SweepRecords, DropRecords, ChunksAt, Goto
<1>4. CASE SweepDocument
  BY <1>4 DEF SweepDocument, DropDocuments, ChunksAt, Stored, Goto
<1>5. CASE FlushDoomed
  BY <1>5 DEF FlushDoomed, LanceWithout, Goto
<1>6. CASE SweepEnds
  BY <1>6 DEF SweepEnds, Goto
<1>7. ASSUME NEW p \in Paths, NextAsset(p) PROVE Ordered'
  BY <1>7 DEF NextAsset, Goto
<1>8. CASE SkipUnchanged
  BY <1>8 DEF SkipUnchanged, Goto
<1>9. CASE Reprocess
  BY <1>9 DEF Reprocess, Goto
<1>10. CASE BumpVectors
  BY <1>10 DEF BumpVectors, Goto
<1>11. CASE BumpRecords
  BY <1>11 DEF BumpRecords, DropRecords, ChunksAt, Goto
<1>12. CASE BumpDocument
  BY <1>12 DEF BumpDocument, DropDocuments, ChunksAt, Goto
<1>13. CASE ReadBytes
  BY <1>13 DEF ReadBytes, Goto
<1>14. CASE ReadFails
  BY <1>14 DEF ReadFails, ItemError, Goto
<1>15. CASE PurgeVectors
  BY <1>15 DEF PurgeVectors, AfterStore, Goto
<1>16. CASE ChecksumConflict
  BY <1>16 DEF ChecksumConflict, ItemError, Goto
<1>17. CASE OrphanRecords
  <2>1. Victims(cur)' = Victims(cur)
    BY <1>17 DEF OrphanRecords, Victims, Stored, StaleAssets
  <2> QED
    BY <1>17, <2>1 DEF OrphanRecords, DropRecords, ChunksAt, Goto
<1>18. CASE OrphanDocuments
  BY <1>18 DEF OrphanDocuments, DropDocuments, ChunksAt, Goto, Victims, Stored, StaleAssets
<1>19. CASE PutAsset
  BY <1>19 DEF PutAsset, Goto, StaleAssets
<1>20. CASE PutDocument
  BY <1>20 DEF PutDocument, Goto
<1>21. CASE DocumentConflict
  BY <1>21 DEF DocumentConflict, ItemError, Goto
<1>22. CASE PutChunks
  BY <1>22 DEF PutChunks, DropRecords, ChunksAt, AfterStore, Goto
<1>23. CASE StagePending
  BY <1>23 DEF StagePending, Goto
<1>24. CASE MergeVectors
  BY <1>24 DEF MergeVectors, Goto
<1>25. CASE MarkCommitted
  BY <1>25 DEF MarkCommitted, Goto
<1>26. CASE ReportIndexed
  BY <1>26 DEF ReportIndexed, Goto
<1>27. CASE LastAsset
  BY <1>27 DEF LastAsset, Goto
<1>28. CASE Finish
  BY <1>28 DEF Finish, EndRun, Goto
<1>29. CASE ItemFails
  BY <1>29 DEF ItemFails, ItemError, Goto
<1>30. CASE SweepFails
  BY <1>30 DEF SweepFails, Goto
<1>31. CASE FlushFails
  BY <1>31 DEF FlushFails, Goto
<1>32. CASE BumpRevisionFails
  BY <1>32 DEF BumpRevisionFails, EndRun, Goto
<1>33. CASE Crash
  BY <1>33 DEF Crash, EndRun, Goto
<1>34. CASE Cancel
  BY <1>34 DEF Cancel, Victims, Stored, StaleAssets
<1>35. ASSUME NEW f \in ForceModes, NEW scope \in Scopes, StartRun(f, scope) PROVE Ordered'
  BY <1>35 DEF StartRun, Goto
<1>36. ASSUME NEW p \in Paths, NEW c \in Contents \cup {Absent}, EditFile(p, c) PROVE Ordered'
  BY <1>36 DEF EditFile, Victims, Stored, StaleAssets
<1>37. ASSUME NEW c \in Config, ChangeConfig(c) PROVE Ordered'
  BY <1>37 DEF ChangeConfig
<1>38. CASE ResetVectors
  BY <1>38 DEF ResetVectors
<1>39. CASE IssueCursor
  BY <1>39 DEF IssueCursor, Victims, Stored, StaleAssets
<1>40. CASE RejectCursor
  BY <1>40 DEF RejectCursor, Victims, Stored, StaleAssets
<1>41. QED
  BY <1>1, <1>2, <1>3, <1>4, <1>5, <1>6, <1>7, <1>8, <1>9, <1>10, <1>11, <1>12, <1>13, <1>14, <1>15, <1>16, <1>17, <1>18, <1>19, <1>20, <1>21, <1>22, <1>23, <1>24, <1>25, <1>26, <1>27, <1>28, <1>29, <1>30, <1>31, <1>32, <1>33, <1>34, <1>35, <1>36, <1>37, <1>38, <1>39, <1>40 DEF Next, RunStep, Sweep, Asset, Mishap, User


\* What is written of a document stays until its item is done.
LEMMA WrittenStep ==
  ASSUME TypeOK, Located, Written, [Next]_vars
  PROVE  Written'
<1> USE ConstantsAssumption DEF TypeOK, Located, Written, AssetSteps, NewRecord, NewVector, NewChunk, ChunkOf, NewRow, VectorsOff, store, run, env
<1>1. CASE UNCHANGED vars
  BY <1>1 DEF vars
<1>2. ASSUME NEW p \in Paths, SweepKeeps(p) PROVE Written'
  BY <1>2 DEF SweepKeeps
<1>3. ASSUME NEW p \in Paths, SweepRecords(p) PROVE Written'
  BY <1>3 DEF SweepRecords, DropRecords, ChunksAt, Goto
<1>4. CASE SweepDocument
  BY <1>4 DEF SweepDocument, DropDocuments, ChunksAt, Stored, Goto
<1>5. CASE FlushDoomed
  BY <1>5 DEF FlushDoomed, LanceWithout, Goto
<1>6. CASE SweepEnds
  BY <1>6 DEF SweepEnds, Goto
<1>7. ASSUME NEW p \in Paths, NextAsset(p) PROVE Written'
  BY <1>7 DEF NextAsset, Goto
<1>8. CASE SkipUnchanged
  BY <1>8 DEF SkipUnchanged, Goto
<1>9. CASE Reprocess
  BY <1>9 DEF Reprocess, Goto
<1>10. CASE BumpVectors
  BY <1>10 DEF BumpVectors, Goto
<1>11. CASE BumpRecords
  BY <1>11 DEF BumpRecords, DropRecords, ChunksAt, Goto
<1>12. CASE BumpDocument
  BY <1>12 DEF BumpDocument, DropDocuments, ChunksAt, Goto
<1>13. CASE ReadBytes
  BY <1>13 DEF ReadBytes, Goto
<1>14. CASE ReadFails
  BY <1>14 DEF ReadFails, ItemError, Goto
<1>15. CASE PurgeVectors
  BY <1>15 DEF PurgeVectors, AfterStore, Goto, Victims, Stored
<1>16. CASE ChecksumConflict
  BY <1>16 DEF ChecksumConflict, ItemError, Goto
<1>17. CASE OrphanRecords
  BY <1>17 DEF OrphanRecords, DropRecords, ChunksAt, Goto
<1>18. CASE OrphanDocuments
  BY <1>18 DEF OrphanDocuments, DropDocuments, ChunksAt, Goto
<1>19. CASE PutAsset
  BY <1>19 DEF PutAsset, Goto
<1>20. CASE PutDocument
  BY <1>20 DEF PutDocument, Goto, NewRow
<1>21. CASE DocumentConflict
  BY <1>21 DEF DocumentConflict, ItemError, Goto
<1>22. CASE PutChunks
  BY <1>22 DEF PutChunks, DropRecords, ChunksAt, AfterStore, Goto
<1>23. CASE StagePending
  BY <1>23 DEF StagePending, Goto
<1>24. CASE MergeVectors
  BY <1>24 DEF MergeVectors, Goto
<1>25. CASE MarkCommitted
  BY <1>25 DEF MarkCommitted, Goto
<1>26. CASE ReportIndexed
  BY <1>26 DEF ReportIndexed, Goto
<1>27. CASE LastAsset
  BY <1>27 DEF LastAsset, Goto
<1>28. CASE Finish
  BY <1>28 DEF Finish, EndRun, Goto
<1>29. CASE ItemFails
  BY <1>29 DEF ItemFails, ItemError, Goto
<1>30. CASE SweepFails
  BY <1>30 DEF SweepFails, Goto
<1>31. CASE FlushFails
  BY <1>31 DEF FlushFails, Goto
<1>32. CASE BumpRevisionFails
  BY <1>32 DEF BumpRevisionFails, EndRun, Goto
<1>33. CASE Crash
  BY <1>33 DEF Crash, EndRun, Goto
<1>34. CASE Cancel
  BY <1>34 DEF Cancel
<1>35. ASSUME NEW f \in ForceModes, NEW scope \in Scopes, StartRun(f, scope) PROVE Written'
  BY <1>35 DEF StartRun, Goto
<1>36. ASSUME NEW p \in Paths, NEW c \in Contents \cup {Absent}, EditFile(p, c) PROVE Written'
  BY <1>36 DEF EditFile
<1>37. ASSUME NEW c \in Config, ChangeConfig(c) PROVE Written'
  BY <1>37 DEF ChangeConfig
<1>38. CASE ResetVectors
  BY <1>38 DEF ResetVectors
<1>39. CASE IssueCursor
  BY <1>39 DEF IssueCursor
<1>40. CASE RejectCursor
  BY <1>40 DEF RejectCursor
<1>41. QED
  BY <1>1, <1>2, <1>3, <1>4, <1>5, <1>6, <1>7, <1>8, <1>9, <1>10, <1>11, <1>12, <1>13, <1>14, <1>15, <1>16, <1>17, <1>18, <1>19, <1>20, <1>21, <1>22, <1>23, <1>24, <1>25, <1>26, <1>27, <1>28, <1>29, <1>30, <1>31, <1>32, <1>33, <1>34, <1>35, <1>36, <1>37, <1>38, <1>39, <1>40 DEF Next, RunStep, Sweep, Asset, Mishap, User


\* The sweep's buffer holds only chunks that are gone.
LEMMA BufferedStep ==
  ASSUME TypeOK, Located, Buffered, [Next]_vars
  PROVE  Buffered'
<1> USE ConstantsAssumption DEF TypeOK, Located, Buffered, AssetSteps, store, run, env
<1>1. CASE UNCHANGED vars
  BY <1>1 DEF vars
<1>2. ASSUME NEW p \in Paths, SweepKeeps(p) PROVE Buffered'
  BY <1>2 DEF SweepKeeps
<1>3. ASSUME NEW p \in Paths, SweepRecords(p) PROVE Buffered'
  BY <1>3 DEF SweepRecords, DropRecords, ChunksAt, Goto
<1>4. CASE SweepDocument
  BY <1>4 DEF SweepDocument, DropDocuments, ChunksAt, Stored, Goto
<1>5. CASE FlushDoomed
  BY <1>5 DEF FlushDoomed, LanceWithout, Goto
<1>6. CASE SweepEnds
  BY <1>6 DEF SweepEnds, Goto
<1>7. ASSUME NEW p \in Paths, NextAsset(p) PROVE Buffered'
  BY <1>7 DEF NextAsset, Goto
<1>8. CASE SkipUnchanged
  BY <1>8 DEF SkipUnchanged, Goto
<1>9. CASE Reprocess
  BY <1>9 DEF Reprocess, Goto
<1>10. CASE BumpVectors
  BY <1>10 DEF BumpVectors, Goto
<1>11. CASE BumpRecords
  BY <1>11 DEF BumpRecords, DropRecords, ChunksAt, Goto
<1>12. CASE BumpDocument
  BY <1>12 DEF BumpDocument, DropDocuments, ChunksAt, Goto
<1>13. CASE ReadBytes
  BY <1>13 DEF ReadBytes, Goto
<1>14. CASE ReadFails
  BY <1>14 DEF ReadFails, ItemError, Goto
<1>15. CASE PurgeVectors
  BY <1>15 DEF PurgeVectors, AfterStore, Goto, Victims, Stored
<1>16. CASE ChecksumConflict
  BY <1>16 DEF ChecksumConflict, ItemError, Goto
<1>17. CASE OrphanRecords
  BY <1>17 DEF OrphanRecords, DropRecords, ChunksAt, Goto
<1>18. CASE OrphanDocuments
  BY <1>18 DEF OrphanDocuments, DropDocuments, ChunksAt, Goto
<1>19. CASE PutAsset
  BY <1>19 DEF PutAsset, Goto
<1>20. CASE PutDocument
  BY <1>20 DEF PutDocument, Goto, NewRow
<1>21. CASE DocumentConflict
  BY <1>21 DEF DocumentConflict, ItemError, Goto
<1>22. CASE PutChunks
  BY <1>22 DEF PutChunks, DropRecords, ChunksAt, AfterStore, Goto
<1>23. CASE StagePending
  BY <1>23 DEF StagePending, Goto
<1>24. CASE MergeVectors
  BY <1>24 DEF MergeVectors, Goto
<1>25. CASE MarkCommitted
  BY <1>25 DEF MarkCommitted, Goto
<1>26. CASE ReportIndexed
  BY <1>26 DEF ReportIndexed, Goto
<1>27. CASE LastAsset
  BY <1>27 DEF LastAsset, Goto
<1>28. CASE Finish
  BY <1>28 DEF Finish, EndRun, Goto
<1>29. CASE ItemFails
  BY <1>29 DEF ItemFails, ItemError, Goto
<1>30. CASE SweepFails
  BY <1>30 DEF SweepFails, Goto
<1>31. CASE FlushFails
  BY <1>31 DEF FlushFails, Goto
<1>32. CASE BumpRevisionFails
  BY <1>32 DEF BumpRevisionFails, EndRun, Goto
<1>33. CASE Crash
  BY <1>33 DEF Crash, EndRun, Goto
<1>34. CASE Cancel
  BY <1>34 DEF Cancel
<1>35. ASSUME NEW f \in ForceModes, NEW scope \in Scopes, StartRun(f, scope) PROVE Buffered'
  BY <1>35 DEF StartRun, Goto
<1>36. ASSUME NEW p \in Paths, NEW c \in Contents \cup {Absent}, EditFile(p, c) PROVE Buffered'
  BY <1>36 DEF EditFile
<1>37. ASSUME NEW c \in Config, ChangeConfig(c) PROVE Buffered'
  BY <1>37 DEF ChangeConfig
<1>38. CASE ResetVectors
  BY <1>38 DEF ResetVectors
<1>39. CASE IssueCursor
  BY <1>39 DEF IssueCursor
<1>40. CASE RejectCursor
  BY <1>40 DEF RejectCursor
<1>41. QED
  BY <1>1, <1>2, <1>3, <1>4, <1>5, <1>6, <1>7, <1>8, <1>9, <1>10, <1>11, <1>12, <1>13, <1>14, <1>15, <1>16, <1>17, <1>18, <1>19, <1>20, <1>21, <1>22, <1>23, <1>24, <1>25, <1>26, <1>27, <1>28, <1>29, <1>30, <1>31, <1>32, <1>33, <1>34, <1>35, <1>36, <1>37, <1>38, <1>39, <1>40 DEF Next, RunStep, Sweep, Asset, Mishap, User


\* Every step keeps the rows that are not torn backed.
LEMMA StampStep ==
  ASSUME TypeOK, Located, Written, Buffered, StampSound, [Next]_vars
  PROVE  StampSound'
<1> USE ConstantsAssumption DEF TypeOK, Located, Written, Buffered, AssetSteps, StampSound, Backed, Stored, ChunkOf, store, run, env
<1>1. CASE UNCHANGED vars
  BY <1>1 DEF vars
<1>2. ASSUME NEW p \in Paths, SweepKeeps(p) PROVE StampSound'
  BY <1>2 DEF SweepKeeps
<1>3. ASSUME NEW p \in Paths, SweepRecords(p) PROVE StampSound'
  BY <1>3 DEF SweepRecords, DropRecords, ChunksAt, Goto
<1>4. CASE SweepDocument
  BY <1>4 DEF SweepDocument, DropDocuments, ChunksAt, Stored, Goto
<1>5. CASE FlushDoomed
  BY <1>5 DEF FlushDoomed, LanceWithout, Goto
<1>6. CASE SweepEnds
  BY <1>6 DEF SweepEnds, Goto
<1>7. ASSUME NEW p \in Paths, NextAsset(p) PROVE StampSound'
  BY <1>7 DEF NextAsset, Goto
<1>8. CASE SkipUnchanged
  BY <1>8 DEF SkipUnchanged, Goto
<1>9. CASE Reprocess
  BY <1>9 DEF Reprocess, Goto
<1>10. CASE BumpVectors
  BY <1>10 DEF BumpVectors, Goto, LanceWithout, ChunksAt
<1>11. CASE BumpRecords
  <2> SUFFICES ASSUME NEW p \in Stored', p \notin torn'
               PROVE  \E e \in Embedders : (e.version = docs[p].version /\ Backed(p, e))'
    BY DEF StampSound
  <2>1. p # cur /\ p \in Stored /\ p \notin torn
    BY <1>11 DEF BumpRecords
  <2> QED
    <3>1. PICK e \in Embedders : e.version = docs[p].version /\ Backed(p, e)
      BY <1>11, <2>1 DEF BumpRecords
    <3>2. ChunkOf(p, docs[p]).path = p
      BY DEF ChunkOf
    <3>3. docs'[p] = docs[p] /\ ChunkOf(p, docs[p])' = ChunkOf(p, docs[p])
      BY <1>11, <2>1 DEF BumpRecords
    <3>4. Backed(p, e)'
      BY <1>11, <2>1, <3>1, <3>2, <3>3 DEF BumpRecords, DropRecords, ChunksAt
    <3> QED
      BY <3>1, <3>3, <3>4
<1>12. CASE BumpDocument
  BY <1>12 DEF BumpDocument, DropDocuments, ChunksAt, Goto
<1>13. CASE ReadBytes
  BY <1>13 DEF ReadBytes, Goto
<1>14. CASE ReadFails
  BY <1>14 DEF ReadFails, ItemError, Goto
<1>15. CASE PurgeVectors
  BY <1>15 DEF PurgeVectors, AfterStore, Goto, LanceWithout, ChunksAt
<1>16. CASE ChecksumConflict
  BY <1>16 DEF ChecksumConflict, ItemError, Goto
<1>17. CASE OrphanRecords
  BY <1>17 DEF OrphanRecords, DropRecords, ChunksAt, Goto
<1>18. CASE OrphanDocuments
  BY <1>18 DEF OrphanDocuments, DropDocuments, ChunksAt, Goto
<1>19. CASE PutAsset
  BY <1>19 DEF PutAsset, Goto
<1>20. CASE PutDocument
  BY <1>20 DEF PutDocument, Goto
<1>21. CASE DocumentConflict
  BY <1>21 DEF DocumentConflict, ItemError, Goto
<1>22. CASE PutChunks
  <2> SUFFICES ASSUME NEW p \in Stored', p \notin torn'
               PROVE  \E e \in Embedders : (e.version = docs[p].version /\ Backed(p, e))'
    BY DEF StampSound
  <2>1. CASE p = cur
    <3>0. VectorsOff
      BY <1>22, <2>1 DEF PutChunks
    <3>1. docs'[p] = NewRow(cur) /\ ChunkOf(p, docs[p])' = NewChunk(cur)
      BY <1>22, <2>1 DEF PutChunks, NewChunk, ChunkOf, NewRow
    <3>2. PICK e \in Embedders : e = cfg.emb /\ e.version = NewRow(cur).version
      BY DEF Config, NewRow
    <3>3. Backed(p, e)'
      BY <1>22, <2>1, <3>0, <3>1, <3>2 DEF PutChunks, VectorsOff
    <3> QED
      BY <2>1, <3>0, <3>1, <3>2, <3>3
  <2>2. CASE p # cur
    <3>0. p \in Stored /\ p \notin torn
      BY <1>22, <2>2 DEF PutChunks
    <3>1. PICK e \in Embedders : e.version = docs[p].version /\ Backed(p, e)
      BY <1>22, <2>2, <3>0 DEF PutChunks
    <3>2. ChunkOf(p, docs[p]).path = p
      BY DEF ChunkOf
    <3>3. docs'[p] = docs[p] /\ ChunkOf(p, docs[p])' = ChunkOf(p, docs[p])
      BY <1>22, <2>2, <3>0 DEF PutChunks
    <3>4. Backed(p, e)'
      BY <1>22, <2>2, <3>0, <3>1, <3>2, <3>3 DEF PutChunks, DropRecords, ChunksAt
    <3> QED
      BY <3>1, <3>3, <3>4
  <2> QED
    BY <2>1, <2>2
<1>23. CASE StagePending
  <2> SUFFICES ASSUME NEW p \in Stored', p \notin torn'
               PROVE  \E e \in Embedders : (e.version = docs[p].version /\ Backed(p, e))'
    BY DEF StampSound
  <2>1. p # cur /\ p \in Stored /\ p \notin torn
    BY <1>23 DEF StagePending
  <2>2. NewRecord(cur).chunk.path = cur
    BY DEF NewRecord, NewChunk, ChunkOf
  <2> QED
    <3>1. PICK e \in Embedders : e.version = docs[p].version /\ Backed(p, e)
      BY <1>23, <2>1, <2>2 DEF StagePending
    <3>2. ChunkOf(p, docs[p]).path = p
      BY DEF ChunkOf
    <3>3. docs'[p] = docs[p] /\ ChunkOf(p, docs[p])' = ChunkOf(p, docs[p])
      BY <1>23, <2>1, <2>2 DEF StagePending
    <3>4. Backed(p, e)'
      BY <1>23, <2>1, <2>2, <3>1, <3>2, <3>3 DEF StagePending
    <3> QED
      BY <3>1, <3>3, <3>4
<1>24. CASE MergeVectors
  BY <1>24 DEF MergeVectors, Goto
<1>25. CASE MarkCommitted
  <2> SUFFICES ASSUME NEW p \in Stored', p \notin torn'
               PROVE  \E e \in Embedders : (e.version = docs[p].version /\ Backed(p, e))'
    BY DEF StampSound
  <2>1. CASE p = cur
    <3>1. docs'[p] = NewRow(cur) /\ ChunkOf(p, docs[p])' = NewChunk(cur)
      BY <1>25, <2>1 DEF MarkCommitted, NewChunk, ChunkOf, NewRow
    <3>2. PICK e \in Embedders : e = cfg.emb /\ e.version = NewRow(cur).version
      BY DEF Config, NewRow
    <3>3. Backed(p, e)'
      BY <1>25, <2>1, <3>1, <3>2 DEF MarkCommitted, NewRecord, NewVector
    <3> QED
      BY <2>1, <3>1, <3>2, <3>3
  <2>2. CASE p # cur
    <3>0. p \in Stored /\ p \notin torn
      BY <1>25, <2>2 DEF MarkCommitted
    <3>1. PICK e \in Embedders : e.version = docs[p].version /\ Backed(p, e)
      BY <1>25, <2>2, <3>0 DEF MarkCommitted
    <3>2. ChunkOf(p, docs[p]).path = p
      BY DEF ChunkOf
    <3>3. docs'[p] = docs[p] /\ ChunkOf(p, docs[p])' = ChunkOf(p, docs[p])
      BY <1>25, <2>2, <3>0 DEF MarkCommitted
    <3>4. Backed(p, e)'
      BY <1>25, <2>2, <3>0, <3>1, <3>2, <3>3 DEF MarkCommitted
    <3> QED
      BY <3>1, <3>3, <3>4
  <2> QED
    BY <2>1, <2>2
<1>26. CASE ReportIndexed
  BY <1>26 DEF ReportIndexed, Goto
<1>27. CASE LastAsset
  BY <1>27 DEF LastAsset, Goto
<1>28. CASE Finish
  BY <1>28 DEF Finish, EndRun, Goto
<1>29. CASE ItemFails
  BY <1>29 DEF ItemFails, ItemError, Goto
<1>30. CASE SweepFails
  BY <1>30 DEF SweepFails, Goto
<1>31. CASE FlushFails
  BY <1>31 DEF FlushFails, Goto
<1>32. CASE BumpRevisionFails
  BY <1>32 DEF BumpRevisionFails, EndRun, Goto
<1>33. CASE Crash
  BY <1>33 DEF Crash, EndRun, Goto
<1>34. CASE Cancel
  BY <1>34 DEF Cancel
<1>35. ASSUME NEW f \in ForceModes, NEW scope \in Scopes, StartRun(f, scope) PROVE StampSound'
  BY <1>35 DEF StartRun, Goto
<1>36. ASSUME NEW p \in Paths, NEW c \in Contents \cup {Absent}, EditFile(p, c) PROVE StampSound'
  BY <1>36 DEF EditFile
<1>37. ASSUME NEW c \in Config, ChangeConfig(c) PROVE StampSound'
  BY <1>37 DEF ChangeConfig
<1>38. CASE ResetVectors
  BY <1>38 DEF ResetVectors
<1>39. CASE IssueCursor
  BY <1>39 DEF IssueCursor
<1>40. CASE RejectCursor
  BY <1>40 DEF RejectCursor
<1>41. QED
  BY <1>1, <1>2, <1>3, <1>4, <1>5, <1>6, <1>7, <1>8, <1>9, <1>10, <1>11, <1>12, <1>13, <1>14, <1>15, <1>16, <1>17, <1>18, <1>19, <1>20, <1>21, <1>22, <1>23, <1>24, <1>25, <1>26, <1>27, <1>28, <1>29, <1>30, <1>31, <1>32, <1>33, <1>34, <1>35, <1>36, <1>37, <1>38, <1>39, <1>40 DEF Next, RunStep, Sweep, Asset, Mishap, User


-----------------------------------------------------------------------------
\* The strengthening holds initially ...
LEMMA IInvInit == Init => IInv
<1> SUFFICES ASSUME Init PROVE IInv
  OBVIOUS
<1> USE ConstantsAssumption DEF Init
<1>1. TypeOK
  BY DEF TypeOK, RunSteps
<1>2. Located /\ Ordered /\ Written /\ Buffered
  BY DEF Located, Ordered, Written, Buffered, AssetSteps
<1>3. References /\ StampSound
  BY DEF References, AssetPathsUnique, DocumentsHaveAssets, RecordsHaveChunks, StampSound, Stored
<1> QED
  BY <1>1, <1>2, <1>3 DEF IInv

\* ... and over every step.
LEMMA IInvStep == IInv /\ [Next]_vars => IInv'
  BY TypeStep, OrderedStep, ReferencesStep, WrittenStep, BufferedStep, StampStep DEF IInv

\* The strengthening holds in every reachable state of the stores and the run.
THEOREM Invariance == Spec => []IInv
  BY IInvInit, IInvStep, PTL DEF Spec

\* Every reachable state of the two stores and of the run is typed.
THEOREM TypeCorrect == Spec => []TypeOK
<1>1. IInv => TypeOK
  BY DEF IInv
<1> QED
  BY <1>1, Invariance, PTL

\* Whatever crashes, failures, races, resets and twin files do, a document row
\* outside the interrupted ones is backed by both stores in the version it is
\* stamped with.
THEOREM StampsAreSound == Spec => []StampSound
<1>1. IInv => StampSound
  BY DEF IInv
<1> QED
  BY <1>1, Invariance, PTL

\* The explicit deletions that replaced the ON DELETE CASCADE of V011 leave no
\* embedding record without its chunk, at any commit.
THEOREM RecordsFollowChunks == Spec => []RecordsHaveChunks
<1>1. IInv => RecordsHaveChunks
  BY DEF IInv, References
<1> QED
  BY <1>1, Invariance, PTL

\* No two asset rows claim one path: put_asset never meets the UNIQUE index on
\* assets.workspace_path, whatever twins, purges and crashes came before.
THEOREM AssetRowsConsistent == Spec => []AssetPathsUnique
<1>1. IInv => AssetPathsUnique
  BY DEF IInv, References
<1> QED
  BY <1>1, Invariance, PTL

\* No purge takes the asset row from under a document, so the RESTRICT of
\* documents.asset_id never refuses one.
THEOREM DocumentsKeepAssets == Spec => []DocumentsHaveAssets
<1>1. IInv => DocumentsHaveAssets
  BY DEF IInv, References
<1> QED
  BY <1>1, Invariance, PTL

-----------------------------------------------------------------------------

\* Without races the scan stays what is on disk, and so does what was read.
LEMMA ScanStep ==
  ASSUME FaultFree, IInv, ScanIsDisk, ReadIsScan, [Next]_vars
  PROVE  ScanIsDisk' /\ ReadIsScan'
<1> USE ConstantsAssumption DEF IInv, TypeOK, Located, AssetSteps, ScanIsDisk, ReadIsScan, FaultFree, Faults, store, run, env
<1>1. CASE UNCHANGED vars
  BY <1>1 DEF vars
<1>2. ASSUME NEW p \in Paths, SweepKeeps(p) PROVE ScanIsDisk' /\ ReadIsScan'
  BY <1>2 DEF SweepKeeps
<1>3. ASSUME NEW p \in Paths, SweepRecords(p) PROVE ScanIsDisk' /\ ReadIsScan'
  BY <1>3 DEF SweepRecords, DropRecords, ChunksAt, Goto
<1>4. CASE SweepDocument
  BY <1>4 DEF SweepDocument, DropDocuments, ChunksAt, Stored, Goto
<1>5. CASE FlushDoomed
  BY <1>5 DEF FlushDoomed, LanceWithout, Goto
<1>6. CASE SweepEnds
  BY <1>6 DEF SweepEnds, Goto
<1>7. ASSUME NEW p \in Paths, NextAsset(p) PROVE ScanIsDisk' /\ ReadIsScan'
  BY <1>7 DEF NextAsset, Goto
<1>8. CASE SkipUnchanged
  BY <1>8 DEF SkipUnchanged, Goto
<1>9. CASE Reprocess
  BY <1>9 DEF Reprocess, Goto
<1>10. CASE BumpVectors
  BY <1>10 DEF BumpVectors, Goto
<1>11. CASE BumpRecords
  BY <1>11 DEF BumpRecords, DropRecords, ChunksAt, Goto
<1>12. CASE BumpDocument
  BY <1>12 DEF BumpDocument, DropDocuments, ChunksAt, Goto
<1>13. CASE ReadBytes
  BY <1>13 DEF ReadBytes, Goto
<1>14. CASE ReadFails
  BY <1>14 DEF ReadFails, ItemError, Goto
<1>15. CASE PurgeVectors
  BY <1>15 DEF PurgeVectors, AfterStore, Goto
<1>16. CASE ChecksumConflict
  BY <1>16 DEF ChecksumConflict, ItemError, Goto
<1>17. CASE OrphanRecords
  BY <1>17 DEF OrphanRecords, DropRecords, ChunksAt, Goto
<1>18. CASE OrphanDocuments
  BY <1>18 DEF OrphanDocuments, DropDocuments, ChunksAt, Goto
<1>19. CASE PutAsset
  BY <1>19 DEF PutAsset, Goto
<1>20. CASE PutDocument
  BY <1>20 DEF PutDocument, Goto
<1>21. CASE DocumentConflict
  BY <1>21 DEF DocumentConflict, ItemError, Goto
<1>22. CASE PutChunks
  BY <1>22 DEF PutChunks, DropRecords, ChunksAt, AfterStore, Goto
<1>23. CASE StagePending
  BY <1>23 DEF StagePending, Goto
<1>24. CASE MergeVectors
  BY <1>24 DEF MergeVectors, Goto
<1>25. CASE MarkCommitted
  BY <1>25 DEF MarkCommitted, Goto
<1>26. CASE ReportIndexed
  BY <1>26 DEF ReportIndexed, Goto
<1>27. CASE LastAsset
  BY <1>27 DEF LastAsset, Goto
<1>28. CASE Finish
  BY <1>28 DEF Finish, EndRun, Goto
<1>29. CASE ItemFails
  BY <1>29 DEF ItemFails, ItemError, Goto, Spend
<1>30. CASE SweepFails
  BY <1>30 DEF SweepFails, Goto, Spend
<1>31. CASE FlushFails
  BY <1>31 DEF FlushFails, Goto, Spend
<1>32. CASE BumpRevisionFails
  BY <1>32 DEF BumpRevisionFails, EndRun, Goto, Spend
<1>33. CASE Crash
  BY <1>33 DEF Crash, EndRun, Goto, Spend
<1>34. CASE Cancel
  BY <1>34 DEF Cancel, Victims, Stored, StaleAssets
<1>35. ASSUME NEW f \in ForceModes, NEW scope \in Scopes, StartRun(f, scope) PROVE ScanIsDisk' /\ ReadIsScan'
  BY <1>35 DEF StartRun, Goto
<1>36. ASSUME NEW p \in Paths, NEW c \in Contents \cup {Absent}, EditFile(p, c) PROVE ScanIsDisk' /\ ReadIsScan'
  BY <1>36 DEF EditFile, Spend
<1>37. ASSUME NEW c \in Config, ChangeConfig(c) PROVE ScanIsDisk' /\ ReadIsScan'
  BY <1>37 DEF ChangeConfig
<1>38. CASE ResetVectors
  BY <1>38 DEF ResetVectors, Spend
<1>39. CASE IssueCursor
  BY <1>39 DEF IssueCursor, Victims, Stored, StaleAssets
<1>40. CASE RejectCursor
  BY <1>40 DEF RejectCursor, Victims, Stored, StaleAssets
<1>41. QED
  BY <1>1, <1>2, <1>3, <1>4, <1>5, <1>6, <1>7, <1>8, <1>9, <1>10, <1>11, <1>12, <1>13, <1>14, <1>15, <1>16, <1>17, <1>18, <1>19, <1>20, <1>21, <1>22, <1>23, <1>24, <1>25, <1>26, <1>27, <1>28, <1>29, <1>30, <1>31, <1>32, <1>33, <1>34, <1>35, <1>36, <1>37, <1>38, <1>39, <1>40 DEF Next, RunStep, Sweep, Asset, Mishap, User


\* Without faults a path is torn only while its document is in hand.
LEMMA TornStep ==
  ASSUME FaultFree, IInv, ReadIsScan, torn \subseteq InFlight, [Next]_vars
  PROVE  (torn \subseteq InFlight)'
<1> USE ConstantsAssumption DEF IInv, TypeOK, Located, Ordered, AssetSteps, ReadIsScan, FaultFree, Faults, InFlight, VectorsOff, store, run, env
<1>1. CASE UNCHANGED vars
  BY <1>1 DEF vars, Victims, Stored, StaleAssets
<1>2. ASSUME NEW p \in Paths, SweepKeeps(p) PROVE (torn \subseteq InFlight)'
  BY <1>2 DEF SweepKeeps
<1>3. ASSUME NEW p \in Paths, SweepRecords(p) PROVE (torn \subseteq InFlight)'
  BY <1>3 DEF SweepRecords, DropRecords, ChunksAt, Goto
<1>4. CASE SweepDocument
  BY <1>4 DEF SweepDocument, DropDocuments, ChunksAt, Stored, Goto
<1>5. CASE FlushDoomed
  BY <1>5 DEF FlushDoomed, LanceWithout, Goto
<1>6. CASE SweepEnds
  BY <1>6 DEF SweepEnds, Goto
<1>7. ASSUME NEW p \in Paths, NextAsset(p) PROVE (torn \subseteq InFlight)'
  BY <1>7 DEF NextAsset, Goto
<1>8. CASE SkipUnchanged
  BY <1>8 DEF SkipUnchanged, Goto
<1>9. CASE Reprocess
  BY <1>9 DEF Reprocess, Goto
<1>10. CASE BumpVectors
  BY <1>10 DEF BumpVectors, Goto
<1>11. CASE BumpRecords
  BY <1>11 DEF BumpRecords, DropRecords, ChunksAt, Goto
<1>12. CASE BumpDocument
  BY <1>12 DEF BumpDocument, DropDocuments, ChunksAt, Goto
<1>13. CASE ReadBytes
  BY <1>13 DEF ReadBytes, Goto
<1>14. CASE ReadFails
  BY <1>14 DEF ReadFails, ItemError, Goto
<1>15. CASE PurgeVectors
  <2>1. Victims(cur)' = Victims(cur)
    BY <1>15 DEF PurgeVectors, Victims, Stored, StaleAssets
  <2>2. CASE cur \in StoreFirst
    <3>1. StaleAssets(cur) = {}
      BY <1>15, <2>2 DEF PurgeVectors, StaleAssets, AssetPathsUnique, References
    <3>2. Victims(cur) = {}
      BY <3>1 DEF Victims
    <3> QED
      BY <1>15, <2>2, <3>2 DEF PurgeVectors, AfterStore, Goto
  <2>3. CASE cur \notin StoreFirst
    BY <1>15, <2>1, <2>3 DEF PurgeVectors, Goto
  <2> QED
    BY <2>2, <2>3
<1>16. CASE ChecksumConflict
  BY <1>16 DEF ChecksumConflict, ItemError, Goto
<1>17. CASE OrphanRecords
  <2>1. Victims(cur)' = Victims(cur)
    BY <1>17 DEF OrphanRecords, Victims, Stored, StaleAssets
  <2> QED
    BY <1>17, <2>1 DEF OrphanRecords, Goto
<1>18. CASE OrphanDocuments
  BY <1>18 DEF OrphanDocuments, DropDocuments, ChunksAt, Goto
<1>19. CASE PutAsset
  BY <1>19 DEF PutAsset, Goto
<1>20. CASE PutDocument
  BY <1>20 DEF PutDocument, Goto
<1>21. CASE DocumentConflict
  BY <1>21 DEF DocumentConflict, ItemError, Goto
<1>22. CASE PutChunks
  BY <1>22 DEF PutChunks, DropRecords, ChunksAt, AfterStore, Goto
<1>23. CASE StagePending
  BY <1>23 DEF StagePending, Goto
<1>24. CASE MergeVectors
  BY <1>24 DEF MergeVectors, Goto
<1>25. CASE MarkCommitted
  BY <1>25 DEF MarkCommitted, Goto
<1>26. CASE ReportIndexed
  BY <1>26 DEF ReportIndexed, Goto
<1>27. CASE LastAsset
  BY <1>27 DEF LastAsset, Goto
<1>28. CASE Finish
  BY <1>28 DEF Finish, EndRun, Goto
<1>29. CASE ItemFails
  BY <1>29 DEF ItemFails, ItemError, Goto, Spend
<1>30. CASE SweepFails
  BY <1>30 DEF SweepFails, Goto, Spend
<1>31. CASE FlushFails
  BY <1>31 DEF FlushFails, Goto, Spend
<1>32. CASE BumpRevisionFails
  BY <1>32 DEF BumpRevisionFails, EndRun, Goto, Spend
<1>33. CASE Crash
  BY <1>33 DEF Crash, EndRun, Goto, Spend
<1>34. CASE Cancel
  BY <1>34 DEF Cancel, Victims, Stored, StaleAssets
<1>35. ASSUME NEW f \in ForceModes, NEW scope \in Scopes, StartRun(f, scope) PROVE (torn \subseteq InFlight)'
  BY <1>35 DEF StartRun, Goto
<1>36. ASSUME NEW p \in Paths, NEW c \in Contents \cup {Absent}, EditFile(p, c) PROVE (torn \subseteq InFlight)'
  BY <1>36 DEF EditFile, Spend
<1>37. ASSUME NEW c \in Config, ChangeConfig(c) PROVE (torn \subseteq InFlight)'
  BY <1>37 DEF ChangeConfig
<1>38. CASE ResetVectors
  BY <1>38 DEF ResetVectors, Spend
<1>39. CASE IssueCursor
  BY <1>39 DEF IssueCursor, Victims, Stored, StaleAssets
<1>40. CASE RejectCursor
  BY <1>40 DEF RejectCursor, Victims, Stored, StaleAssets
<1>41. QED
  BY <1>1, <1>2, <1>3, <1>4, <1>5, <1>6, <1>7, <1>8, <1>9, <1>10, <1>11, <1>12, <1>13, <1>14, <1>15, <1>16, <1>17, <1>18, <1>19, <1>20, <1>21, <1>22, <1>23, <1>24, <1>25, <1>26, <1>27, <1>28, <1>29, <1>30, <1>31, <1>32, <1>33, <1>34, <1>35, <1>36, <1>37, <1>38, <1>39, <1>40 DEF Next, RunStep, Sweep, Asset, Mishap, User


\* The fault-free strengthening holds initially ...
LEMMA FaultFreeInit == Init => FaultFreeInv
  BY IInvInit DEF Init, FaultFreeInv, ScanIsDisk, ReadIsScan

\* ... and over every step, where no fault may happen.
LEMMA FaultFreeStep ==
  ASSUME FaultFree, FaultFreeInv, [Next]_vars
  PROVE  FaultFreeInv'
<1>1. IInv'
  BY IInvStep DEF FaultFreeInv
<1>2. ScanIsDisk' /\ ReadIsScan'
  BY ScanStep DEF FaultFreeInv
<1>3. (torn \subseteq InFlight)'
  BY TornStep DEF FaultFreeInv
<1> QED
  BY <1>1, <1>2, <1>3 DEF FaultFreeInv

\* At the skip check nothing is torn, so a row that matches this run's versions
\* is backed by an embedder of this run's version, and there is only one.
LEMMA SkipSoundHere ==
  ASSUME VersionNamesModel, FaultFreeInv
  PROVE  SkipIsSound
<1> SUFFICES ASSUME pc = "check", Unchanged(cur) PROVE Backed(cur, cfg.emb)
  BY DEF SkipIsSound
<1>1. cur \in Stored /\ cur \notin torn
  BY DEF FaultFreeInv, IInv, Located, AssetSteps, InFlight, Unchanged, Stored
<1>2. PICK e \in Embedders : e.version = docs[cur].version /\ Backed(cur, e)
  BY <1>1 DEF FaultFreeInv, IInv, StampSound
<1>3. cfg.emb \in Embedders
  BY DEF FaultFreeInv, IInv, TypeOK, Config
<1>4. e = cfg.emb
  BY <1>2, <1>3 DEF VersionNamesModel, Unchanged
<1> QED
  BY <1>2, <1>4

\* Where nothing crashes, fails, races or is reset, and every change of model
\* comes with a new embedding version, try_skip_unchanged never skips a file
\* that is not searchable under this run's embedder.  Twin files, forced runs,
\* cancels, edits and upgrades in any order are all allowed.
THEOREM SkipsAreSound ==
  ASSUME FaultFree, VersionNamesModel
  PROVE  Spec => []SkipIsSound
<1>1. FaultFreeInv /\ [Next]_vars => FaultFreeInv'
  BY FaultFreeStep
<1>2. FaultFreeInv => SkipIsSound
  BY SkipSoundHere
<1> QED
  BY FaultFreeInit, <1>1, <1>2, PTL DEF Spec

-----------------------------------------------------------------------------
(* Rows and the contents they are recorded with *)

LEMMA RecordedInit == Init => RecordedContents
  BY ConstantsAssumption DEF Init, RecordedContents, Stored

\* A path is recorded only with contents it may hold.
LEMMA RecordedStep ==
  ASSUME IInv, RecordedContents, [Next]_vars
  PROVE  RecordedContents'
<1> USE ConstantsAssumption DEF IInv, TypeOK, Located, RecordedContents, Stored, AssetSteps, store, run, env
<1>1. CASE UNCHANGED vars
  BY <1>1 DEF vars
<1>2. ASSUME NEW p \in Paths, SweepKeeps(p) PROVE RecordedContents'
  BY <1>2 DEF SweepKeeps
<1>3. ASSUME NEW p \in Paths, SweepRecords(p) PROVE RecordedContents'
  BY <1>3 DEF SweepRecords, DropRecords, ChunksAt, Goto
<1>4. CASE SweepDocument
  BY <1>4 DEF SweepDocument, DropDocuments, ChunksAt, Stored, Goto
<1>5. CASE FlushDoomed
  BY <1>5 DEF FlushDoomed, LanceWithout, Goto
<1>6. CASE SweepEnds
  BY <1>6 DEF SweepEnds, Goto
<1>7. ASSUME NEW p \in Paths, NextAsset(p) PROVE RecordedContents'
  BY <1>7 DEF NextAsset, Goto
<1>8. CASE SkipUnchanged
  BY <1>8 DEF SkipUnchanged, Goto
<1>9. CASE Reprocess
  BY <1>9 DEF Reprocess, Goto
<1>10. CASE BumpVectors
  BY <1>10 DEF BumpVectors, LanceWithout, Goto
<1>11. CASE BumpRecords
  BY <1>11 DEF BumpRecords, DropRecords, ChunksAt, Goto
<1>12. CASE BumpDocument
  BY <1>12 DEF BumpDocument, DropDocuments, ChunksAt, Goto
<1>13. CASE ReadBytes
  BY <1>13 DEF ReadBytes, Goto
<1>14. CASE ReadFails
  BY <1>14 DEF ReadFails, ItemError, Goto
<1>15. CASE PurgeVectors
  BY <1>15 DEF PurgeVectors, LanceWithout, AfterStore, Goto
<1>16. CASE ChecksumConflict
  BY <1>16 DEF ChecksumConflict, ItemError, Goto
<1>17. CASE OrphanRecords
  BY <1>17 DEF OrphanRecords, DropRecords, ChunksAt, Goto
<1>18. CASE OrphanDocuments
  BY <1>18 DEF OrphanDocuments, DropDocuments, ChunksAt, Goto
<1>19. CASE PutAsset
  BY <1>19 DEF PutAsset, Goto
<1>20. CASE PutDocument
  BY <1>20 DEF PutDocument, Goto, NewRow
<1>21. CASE DocumentConflict
  BY <1>21 DEF DocumentConflict, ItemError, Goto
<1>22. CASE PutChunks
  BY <1>22 DEF PutChunks, DropRecords, ChunksAt, AfterStore, Goto
<1>23. CASE StagePending
  BY <1>23 DEF StagePending, Goto
<1>24. CASE MergeVectors
  BY <1>24 DEF MergeVectors, Goto
<1>25. CASE MarkCommitted
  BY <1>25 DEF MarkCommitted, Goto
<1>26. CASE ReportIndexed
  BY <1>26 DEF ReportIndexed, Goto
<1>27. CASE LastAsset
  BY <1>27 DEF LastAsset, Goto
<1>28. CASE Finish
  BY <1>28 DEF Finish, EndRun, Goto
<1>29. CASE ItemFails
  BY <1>29 DEF ItemFails, ItemError, Goto, Spend
<1>30. CASE SweepFails
  BY <1>30 DEF SweepFails, Goto, Spend
<1>31. CASE FlushFails
  BY <1>31 DEF FlushFails, Goto, Spend
<1>32. CASE BumpRevisionFails
  BY <1>32 DEF BumpRevisionFails, EndRun, Goto, Spend
<1>33. CASE Crash
  BY <1>33 DEF Crash, EndRun, Goto, Spend
<1>34. CASE Cancel
  BY <1>34 DEF Cancel
<1>35. ASSUME NEW f \in ForceModes, NEW scope \in Scopes, StartRun(f, scope) PROVE RecordedContents'
  BY <1>35 DEF StartRun, Goto
<1>36. ASSUME NEW p \in Paths, NEW c \in Contents \cup {Absent}, EditFile(p, c) PROVE RecordedContents'
  BY <1>36 DEF EditFile, Spend
<1>37. ASSUME NEW c \in Config, ChangeConfig(c) PROVE RecordedContents'
  BY <1>37 DEF ChangeConfig
<1>38. CASE ResetVectors
  BY <1>38 DEF ResetVectors, Spend
<1>39. CASE IssueCursor
  BY <1>39 DEF IssueCursor
<1>40. CASE RejectCursor
  BY <1>40 DEF RejectCursor
<1>41. QED
  BY <1>1, <1>2, <1>3, <1>4, <1>5, <1>6, <1>7, <1>8, <1>9, <1>10, <1>11, <1>12, <1>13, <1>14, <1>15, <1>16, <1>17, <1>18, <1>19, <1>20, <1>21, <1>22, <1>23, <1>24, <1>25, <1>26, <1>27, <1>28, <1>29, <1>30, <1>31, <1>32, <1>33, <1>34, <1>35, <1>36, <1>37, <1>38, <1>39, <1>40 DEF Next, RunStep, Sweep, Asset, Mishap, User

\* Where no two paths share contents, a stale asset row of a path is its own
\* document's, and a document of another content than the scanned one is a victim.
LEMMA OwnVictims ==
  ASSUME NoTwins, IInv, RecordedContents, NEW p \in Paths
  PROVE  /\ Victims(p) \subseteq {p}
         /\ docs[p] # NoDoc /\ docs[p].content # scan[p] => p \in Victims(p)
<1> USE DEF IInv, TypeOK, RecordedContents, NoTwins
<1>1. \A q \in Stored : docs[q].content \in Contents
  BY DEF Stored, DocRow
<1>2. ASSUME NEW q \in Victims(p) PROVE q = p
  <2>1. q \in Stored /\ assets[docs[q].content] = p
    BY DEF Victims, StaleAssets
  <2>2. <<p, docs[q].content>> \in Files /\ <<q, docs[q].content>> \in Files
    BY <1>1, <2>1, ConstantsAssumption
  <2> QED
    BY <2>2
<1>3. ASSUME p \in Stored, docs[p].content # scan[p] PROVE p \in Victims(p)
  <2> DEFINE a == docs[p].content
  <2>1. a \in Contents /\ assets[a] # NoPath
    BY <1>1, <1>3 DEF References, DocumentsHaveAssets
  <2>2. <<assets[a], a>> \in Files /\ <<p, a>> \in Files
    BY <1>3, <2>1
  <2>3. assets[a] = p
    BY <2>2
  <2> QED
    BY <1>3, <2>1, <2>3 DEF Victims, StaleAssets
<1> QED
  BY <1>2, <1>3 DEF Stored

\* Only these four commits touch the documents table.
LEMMA DocumentCommits ==
  ASSUME [Next]_vars
  PROVE  docs' = docs \/ SweepDocument \/ BumpDocument \/ OrphanDocuments \/ PutDocument
  BY DEF Next, RunStep, Sweep, Asset, Mishap, User, vars, store, run, env,
         SweepKeeps, SweepRecords, FlushDoomed, SweepEnds, NextAsset, SkipUnchanged,
         Reprocess, BumpVectors, BumpRecords, ReadBytes, ReadFails, PurgeVectors,
         ChecksumConflict, OrphanRecords, PutAsset, DocumentConflict, PutChunks,
         StagePending, MergeVectors, MarkCommitted, ReportIndexed, LastAsset, Finish,
         ItemFails, SweepFails, FlushFails, BumpRevisionFails, Crash, Cancel, StartRun,
         EditFile, ChangeConfig, ResetVectors, IssueCursor, RejectCursor

LEMMA RowsOfOthersStay ==
  ASSUME NoTwins, IInv, RecordedContents, [Next]_vars, NEW p \in Paths,
         docs[p] # NoDoc, docs'[p] = NoDoc
  PROVE  p = cur
<1> USE ConstantsAssumption DEF IInv, TypeOK, Located, AssetSteps, DropDocuments
<1>1. CASE docs' = docs
  BY <1>1
<1>2. CASE SweepDocument
  BY <1>2 DEF SweepDocument
<1>3. CASE BumpDocument
  BY <1>3 DEF BumpDocument
<1>4. CASE OrphanDocuments
  <2>1. p \in Victims(cur) /\ cur \in Paths
    BY <1>4 DEF OrphanDocuments
  <2> QED
    BY <2>1, OwnVictims
<1>5. CASE PutDocument
  BY <1>5 DEF PutDocument
<1> QED
  BY <1>1, <1>2, <1>3, <1>4, <1>5, DocumentCommits

\* Where no two paths ever hold the same content, no commit of any run, crashed,
\* failing, raced or forced, removes the document row of a path that is not the
\* one in hand.
THEOREM RowsAreStable ==
  ASSUME NoTwins
  PROVE  Spec => RowStable
<1> DEFINE Inv == IInv /\ RecordedContents
<1>1. Init => Inv
  BY IInvInit, RecordedInit
<1>2. Inv /\ [Next]_vars => Inv'
  BY IInvStep, RecordedStep
<1>3. Inv /\ [Next]_vars
        => [\A p \in Paths : docs[p] # NoDoc /\ docs'[p] = NoDoc => p = cur]_vars
  BY RowsOfOthersStay
<1> QED
  BY <1>1, <1>2, <1>3, PTL DEF Spec, RowStable

-----------------------------------------------------------------------------
(* The upsert and the path it claims *)

\* Without forced runs, a row of the scanned content that reaches the upsert is
\* in this run's parser version.
LEMMA RowFitsStep ==
  ASSUME NoForcing, UnforcedInv, [Next]_vars
  PROVE  ~force' /\ RowFits'
<1> USE ConstantsAssumption DEF NoForcing, UnforcedInv, IInv, TypeOK, Located, Written, RowFits, SameParser, AssetSteps, store, run, env
<1>1. CASE UNCHANGED vars
  BY <1>1 DEF vars
<1>2. ASSUME NEW p \in Paths, SweepKeeps(p) PROVE ~force' /\ RowFits'
  BY <1>2 DEF SweepKeeps
<1>3. ASSUME NEW p \in Paths, SweepRecords(p) PROVE ~force' /\ RowFits'
  BY <1>3 DEF SweepRecords, DropRecords, ChunksAt, Goto
<1>4. CASE SweepDocument
  BY <1>4 DEF SweepDocument, DropDocuments, ChunksAt, Stored, Goto
<1>5. CASE FlushDoomed
  BY <1>5 DEF FlushDoomed, LanceWithout, Goto
<1>6. CASE SweepEnds
  BY <1>6 DEF SweepEnds, Goto
<1>7. ASSUME NEW p \in Paths, NextAsset(p) PROVE ~force' /\ RowFits'
  BY <1>7 DEF NextAsset, Goto
<1>8. CASE SkipUnchanged
  BY <1>8 DEF SkipUnchanged, Goto
<1>9. CASE Reprocess
  BY <1>9 DEF Reprocess, Goto, Unchanged, ParserBumped
<1>10. CASE BumpVectors
  BY <1>10 DEF BumpVectors, LanceWithout, Goto
<1>11. CASE BumpRecords
  BY <1>11 DEF BumpRecords, DropRecords, ChunksAt, Goto
<1>12. CASE BumpDocument
  BY <1>12 DEF BumpDocument, DropDocuments, ChunksAt, Goto
<1>13. CASE ReadBytes
  BY <1>13 DEF ReadBytes, Goto, NewRow
<1>14. CASE ReadFails
  BY <1>14 DEF ReadFails, ItemError, Goto
<1>15. CASE PurgeVectors
  BY <1>15 DEF PurgeVectors, LanceWithout, AfterStore, Goto, NewRow
<1>16. CASE ChecksumConflict
  BY <1>16 DEF ChecksumConflict, ItemError, Goto
<1>17. CASE OrphanRecords
  BY <1>17 DEF OrphanRecords, DropRecords, ChunksAt, Goto
<1>18. CASE OrphanDocuments
  BY <1>18 DEF OrphanDocuments, DropDocuments, ChunksAt, Goto
<1>19. CASE PutAsset
  BY <1>19 DEF PutAsset, Goto
<1>20. CASE PutDocument
  BY <1>20 DEF PutDocument, Goto, NewRow
<1>21. CASE DocumentConflict
  BY <1>21 DEF DocumentConflict, ItemError, Goto
<1>22. CASE PutChunks
  BY <1>22 DEF PutChunks, DropRecords, ChunksAt, AfterStore, Goto, NewRow
<1>23. CASE StagePending
  BY <1>23 DEF StagePending, Goto
<1>24. CASE MergeVectors
  BY <1>24 DEF MergeVectors, Goto
<1>25. CASE MarkCommitted
  BY <1>25 DEF MarkCommitted, Goto
<1>26. CASE ReportIndexed
  BY <1>26 DEF ReportIndexed, Goto
<1>27. CASE LastAsset
  BY <1>27 DEF LastAsset, Goto
<1>28. CASE Finish
  BY <1>28 DEF Finish, EndRun, Goto
<1>29. CASE ItemFails
  BY <1>29 DEF ItemFails, ItemError, Goto, Spend
<1>30. CASE SweepFails
  BY <1>30 DEF SweepFails, Goto, Spend
<1>31. CASE FlushFails
  BY <1>31 DEF FlushFails, Goto, Spend
<1>32. CASE BumpRevisionFails
  BY <1>32 DEF BumpRevisionFails, EndRun, Goto, Spend
<1>33. CASE Crash
  BY <1>33 DEF Crash, EndRun, Goto, Spend
<1>34. CASE Cancel
  BY <1>34 DEF Cancel
<1>35. ASSUME NEW f \in ForceModes, NEW scope \in Scopes, StartRun(f, scope) PROVE ~force' /\ RowFits'
  BY <1>35 DEF StartRun, Goto
<1>36. ASSUME NEW p \in Paths, NEW c \in Contents \cup {Absent}, EditFile(p, c) PROVE ~force' /\ RowFits'
  BY <1>36 DEF EditFile, Spend
<1>37. ASSUME NEW c \in Config, ChangeConfig(c) PROVE ~force' /\ RowFits'
  BY <1>37 DEF ChangeConfig
<1>38. CASE ResetVectors
  BY <1>38 DEF ResetVectors, Spend
<1>39. CASE IssueCursor
  BY <1>39 DEF IssueCursor
<1>40. CASE RejectCursor
  BY <1>40 DEF RejectCursor
<1>41. QED
  BY <1>1, <1>2, <1>3, <1>4, <1>5, <1>6, <1>7, <1>8, <1>9, <1>10, <1>11, <1>12, <1>13, <1>14, <1>15, <1>16, <1>17, <1>18, <1>19, <1>20, <1>21, <1>22, <1>23, <1>24, <1>25, <1>26, <1>27, <1>28, <1>29, <1>30, <1>31, <1>32, <1>33, <1>34, <1>35, <1>36, <1>37, <1>38, <1>39, <1>40 DEF Next, RunStep, Sweep, Asset, Mishap, User

\* The orphan purge leaves no other document at the path.
LEMMA UpsertStep ==
  ASSUME NoTwins, PathFreeInv, [Next]_vars
  PROVE  (pc \in {"put_asset", "put_document"} => ~PathTaken(cur))'
<1> USE ConstantsAssumption DEF PathFreeInv, UnforcedInv, IInv, TypeOK, Located, RowFits, SameParser, AssetSteps, PathTaken, store, run, env
<1>1. CASE UNCHANGED vars
  BY <1>1 DEF vars, NewRow, SameDocId
<1>2. ASSUME NEW p \in Paths, SweepKeeps(p) PROVE (pc \in {"put_asset", "put_document"} => ~PathTaken(cur))'
  BY <1>2 DEF SweepKeeps, NewRow, SameDocId
<1>3. ASSUME NEW p \in Paths, SweepRecords(p) PROVE (pc \in {"put_asset", "put_document"} => ~PathTaken(cur))'
  BY <1>3 DEF SweepRecords, DropRecords, ChunksAt, Goto
<1>4. CASE SweepDocument
  BY <1>4 DEF SweepDocument, DropDocuments, ChunksAt, Stored, Goto
<1>5. CASE FlushDoomed
  BY <1>5 DEF FlushDoomed, LanceWithout, Goto
<1>6. CASE SweepEnds
  BY <1>6 DEF SweepEnds, Goto
<1>7. ASSUME NEW p \in Paths, NextAsset(p) PROVE (pc \in {"put_asset", "put_document"} => ~PathTaken(cur))'
  BY <1>7 DEF NextAsset, Goto
<1>8. CASE SkipUnchanged
  BY <1>8 DEF SkipUnchanged, Goto
<1>9. CASE Reprocess
  BY <1>9 DEF Reprocess, Goto
<1>10. CASE BumpVectors
  BY <1>10 DEF BumpVectors, LanceWithout, Goto
<1>11. CASE BumpRecords
  BY <1>11 DEF BumpRecords, DropRecords, ChunksAt, Goto
<1>12. CASE BumpDocument
  BY <1>12 DEF BumpDocument, DropDocuments, ChunksAt, Goto
<1>13. CASE ReadBytes
  BY <1>13 DEF ReadBytes, Goto
<1>14. CASE ReadFails
  BY <1>14 DEF ReadFails, ItemError, Goto
<1>15. CASE PurgeVectors
  BY <1>15 DEF PurgeVectors, LanceWithout, AfterStore, Goto
<1>16. CASE ChecksumConflict
  BY <1>16 DEF ChecksumConflict, ItemError, Goto
<1>17. CASE OrphanRecords
  BY <1>17 DEF OrphanRecords, DropRecords, ChunksAt, Goto
<1>18. CASE OrphanDocuments
  <2>1. docs'[cur] # NoDoc => docs'[cur] = docs[cur] /\ cur \notin Victims(cur)
    BY <1>18 DEF OrphanDocuments, DropDocuments
  <2>2. docs'[cur] # NoDoc => docs[cur].content = scan[cur] /\ docs[cur].base = cfg.base
    BY <1>18, <2>1, OwnVictims DEF OrphanDocuments
  <2>3. NewRow(cur)' = NewRow(cur) /\ cur' = cur
    BY <1>18 DEF OrphanDocuments, NewRow
  <2> QED
    BY <1>18, <2>1, <2>2, <2>3 DEF OrphanDocuments, NewRow, SameDocId
<1>19. CASE PutAsset
  BY <1>19 DEF PutAsset, Goto, NewRow, SameDocId
<1>20. CASE PutDocument
  BY <1>20 DEF PutDocument, Goto
<1>21. CASE DocumentConflict
  BY <1>21 DEF DocumentConflict, ItemError, Goto
<1>22. CASE PutChunks
  BY <1>22 DEF PutChunks, DropRecords, ChunksAt, AfterStore, Goto
<1>23. CASE StagePending
  BY <1>23 DEF StagePending, Goto
<1>24. CASE MergeVectors
  BY <1>24 DEF MergeVectors, Goto
<1>25. CASE MarkCommitted
  BY <1>25 DEF MarkCommitted, Goto
<1>26. CASE ReportIndexed
  BY <1>26 DEF ReportIndexed, Goto
<1>27. CASE LastAsset
  BY <1>27 DEF LastAsset, Goto
<1>28. CASE Finish
  BY <1>28 DEF Finish, EndRun, Goto
<1>29. CASE ItemFails
  BY <1>29 DEF ItemFails, ItemError, Goto, Spend
<1>30. CASE SweepFails
  BY <1>30 DEF SweepFails, Goto, Spend
<1>31. CASE FlushFails
  BY <1>31 DEF FlushFails, Goto, Spend
<1>32. CASE BumpRevisionFails
  BY <1>32 DEF BumpRevisionFails, EndRun, Goto, Spend
<1>33. CASE Crash
  BY <1>33 DEF Crash, EndRun, Goto, Spend
<1>34. CASE Cancel
  BY <1>34 DEF Cancel, NewRow, SameDocId
<1>35. ASSUME NEW f \in ForceModes, NEW scope \in Scopes, StartRun(f, scope) PROVE (pc \in {"put_asset", "put_document"} => ~PathTaken(cur))'
  BY <1>35 DEF StartRun, Goto
<1>36. ASSUME NEW p \in Paths, NEW c \in Contents \cup {Absent}, EditFile(p, c) PROVE (pc \in {"put_asset", "put_document"} => ~PathTaken(cur))'
  BY <1>36 DEF EditFile, Spend, NewRow, SameDocId
<1>37. ASSUME NEW c \in Config, ChangeConfig(c) PROVE (pc \in {"put_asset", "put_document"} => ~PathTaken(cur))'
  BY <1>37 DEF ChangeConfig
<1>38. CASE ResetVectors
  BY <1>38 DEF ResetVectors, Spend
<1>39. CASE IssueCursor
  BY <1>39 DEF IssueCursor, NewRow, SameDocId
<1>40. CASE RejectCursor
  BY <1>40 DEF RejectCursor, NewRow, SameDocId
<1>41. QED
  BY <1>1, <1>2, <1>3, <1>4, <1>5, <1>6, <1>7, <1>8, <1>9, <1>10, <1>11, <1>12, <1>13, <1>14, <1>15, <1>16, <1>17, <1>18, <1>19, <1>20, <1>21, <1>22, <1>23, <1>24, <1>25, <1>26, <1>27, <1>28, <1>29, <1>30, <1>31, <1>32, <1>33, <1>34, <1>35, <1>36, <1>37, <1>38, <1>39, <1>40 DEF Next, RunStep, Sweep, Asset, Mishap, User

LEMMA PathFreeInit == Init => PathFreeInv
  BY IInvInit, RecordedInit DEF Init, PathFreeInv, UnforcedInv, RowFits

LEMMA UnforcedStep ==
  ASSUME NoForcing, UnforcedInv, [Next]_vars
  PROVE  UnforcedInv'
  BY IInvStep, RowFitsStep DEF UnforcedInv

LEMMA PathFreeStep ==
  ASSUME NoTwins, NoForcing, PathFreeInv, [Next]_vars
  PROVE  PathFreeInv'
<1>1. UnforcedInv'
  BY UnforcedStep DEF PathFreeInv
<1>2. RecordedContents'
  BY RecordedStep DEF PathFreeInv, UnforcedInv
<1>3. (pc \in {"put_asset", "put_document"} => ~PathTaken(cur))'
  BY UpsertStep
<1> QED
  BY <1>1, <1>2, <1>3 DEF PathFreeInv

\* Where no two paths ever hold the same content and nobody forces a run, the
\* purges before put_document always leave its path free: the UNIQUE index on
\* documents.workspace_path is never hit, through crashes, failing items, races,
\* upgrades of the parser and of the settings.
THEOREM PathsAreFree ==
  ASSUME NoTwins, NoForcing
  PROVE  Spec => []PathIsFree
<1>1. PathFreeInv /\ [Next]_vars => PathFreeInv'
  BY PathFreeStep
<1>2. PathFreeInv => PathIsFree
  BY DEF PathFreeInv, PathIsFree
<1> QED
  BY PathFreeInit, <1>1, <1>2, PTL DEF Spec

-----------------------------------------------------------------------------
(* The corpus revision and the cursors issued under it *)

\* A run that writes either counts it before it ends or moves no revision.
LEMMA CursorStep ==
  ASSUME FaultFree, FaultFreeInv, PathFreeInv, CursorInv, [Next]_vars
  PROVE  CursorInv'
<1> USE ConstantsAssumption DEF FaultFree, Faults, FaultFreeInv, ScanIsDisk, ReadIsScan, PathFreeInv, IInv, TypeOK, Located, CursorInv, Uncounted, AssetSteps, RunSteps, store, run, env
<1>1. CASE UNCHANGED vars
  BY <1>1 DEF vars, CurrentView, Visible
<1>2. ASSUME NEW p \in Paths, SweepKeeps(p) PROVE CursorInv'
  BY <1>2 DEF SweepKeeps, CurrentView, Visible
<1>3. ASSUME NEW p \in Paths, SweepRecords(p) PROVE CursorInv'
  BY <1>3 DEF SweepRecords, DropRecords, ChunksAt, Goto, CurrentView, Visible
<1>4. CASE SweepDocument
  BY <1>4 DEF SweepDocument, DropDocuments, ChunksAt, Stored, Goto
<1>5. CASE FlushDoomed
  <2>1. \A v \in lance : Visible(v) => v \in LanceWithout(doomed)
    BY DEF Buffered, LanceWithout, Visible
  <2>2. LanceWithout(doomed) \subseteq lance
    BY DEF LanceWithout
  <2>3. chunks' = chunks /\ committed' = committed /\ lance' = LanceWithout(doomed)
    BY <1>5 DEF FlushDoomed
  <2>4. {v \in lance' : Visible(v)'} = {v \in lance : Visible(v)}
    BY <2>1, <2>2, <2>3 DEF Visible
  <2>5. CurrentView' = CurrentView
    BY <2>3, <2>4 DEF CurrentView
  <2> QED
    BY <1>5, <2>5 DEF FlushDoomed, Goto
<1>6. CASE SweepEnds
  BY <1>6 DEF SweepEnds, Goto, CurrentView, Visible
<1>7. ASSUME NEW p \in Paths, NextAsset(p) PROVE CursorInv'
  BY <1>7 DEF NextAsset, Goto, CurrentView, Visible
<1>8. CASE SkipUnchanged
  BY <1>8 DEF SkipUnchanged, Goto, CurrentView, Visible
<1>9. CASE Reprocess
  BY <1>9 DEF Reprocess, Goto, CurrentView, Visible
<1>10. CASE BumpVectors
  BY <1>10 DEF BumpVectors, LanceWithout, Goto
<1>11. CASE BumpRecords
  BY <1>11 DEF BumpRecords, DropRecords, ChunksAt, Goto
<1>12. CASE BumpDocument
  BY <1>12 DEF BumpDocument, DropDocuments, ChunksAt, Goto
<1>13. CASE ReadBytes
  BY <1>13 DEF ReadBytes, Goto
<1>14. CASE ReadFails
  BY <1>14 DEF ReadFails, ItemError, Goto, CurrentView, Visible
<1>15. CASE PurgeVectors
  BY <1>15 DEF PurgeVectors, LanceWithout, AfterStore, Goto
<1>16. CASE ChecksumConflict
  BY <1>16 DEF ChecksumConflict, ItemError, Goto
<1>17. CASE OrphanRecords
  BY <1>17 DEF OrphanRecords, DropRecords, ChunksAt, Goto
<1>18. CASE OrphanDocuments
  BY <1>18 DEF OrphanDocuments, DropDocuments, ChunksAt, Goto
<1>19. CASE PutAsset
  BY <1>19 DEF PutAsset, Goto
<1>20. CASE PutDocument
  BY <1>20 DEF PutDocument, Goto
<1>21. CASE DocumentConflict
  BY <1>21 DEF DocumentConflict, ItemError, Goto
<1>22. CASE PutChunks
  BY <1>22 DEF PutChunks, DropRecords, ChunksAt, AfterStore, Goto
<1>23. CASE StagePending
  BY <1>23 DEF StagePending, Goto
<1>24. CASE MergeVectors
  BY <1>24 DEF MergeVectors, Goto
<1>25. CASE MarkCommitted
  BY <1>25 DEF MarkCommitted, Goto
<1>26. CASE ReportIndexed
  BY <1>26 DEF ReportIndexed, Goto, CurrentView, Visible
<1>27. CASE LastAsset
  BY <1>27 DEF LastAsset, Goto, CurrentView, Visible
<1>28. CASE Finish
  BY <1>28 DEF Finish, EndRun, Goto, CurrentView, Visible
<1>29. CASE ItemFails
  BY <1>29 DEF ItemFails, ItemError, Goto, Spend
<1>30. CASE SweepFails
  BY <1>30 DEF SweepFails, Goto, Spend
<1>31. CASE FlushFails
  BY <1>31 DEF FlushFails, Goto, Spend
<1>32. CASE BumpRevisionFails
  BY <1>32 DEF BumpRevisionFails, EndRun, Goto, Spend
<1>33. CASE Crash
  BY <1>33 DEF Crash, EndRun, Goto, Spend
<1>34. CASE Cancel
  BY <1>34 DEF Cancel, CurrentView, Visible
<1>35. ASSUME NEW f \in ForceModes, NEW scope \in Scopes, StartRun(f, scope) PROVE CursorInv'
  BY <1>35 DEF StartRun, Goto, CurrentView, Visible
<1>36. ASSUME NEW p \in Paths, NEW c \in Contents \cup {Absent}, EditFile(p, c) PROVE CursorInv'
  BY <1>36 DEF EditFile, Spend, CurrentView, Visible
<1>37. ASSUME NEW c \in Config, ChangeConfig(c) PROVE CursorInv'
  BY <1>37 DEF ChangeConfig, CurrentView, Visible
<1>38. CASE ResetVectors
  BY <1>38 DEF ResetVectors, Spend
<1>39. CASE IssueCursor
  BY <1>39 DEF IssueCursor, CurrentView, Visible
<1>40. CASE RejectCursor
  BY <1>40 DEF RejectCursor
<1>41. QED
  BY <1>1, <1>2, <1>3, <1>4, <1>5, <1>6, <1>7, <1>8, <1>9, <1>10, <1>11, <1>12, <1>13, <1>14, <1>15, <1>16, <1>17, <1>18, <1>19, <1>20, <1>21, <1>22, <1>23, <1>24, <1>25, <1>26, <1>27, <1>28, <1>29, <1>30, <1>31, <1>32, <1>33, <1>34, <1>35, <1>36, <1>37, <1>38, <1>39, <1>40 DEF Next, RunStep, Sweep, Asset, Mishap, User

\* Where nothing crashes, fails, races or is reset, nobody forces a run and no
\* two paths share contents, a cursor still accepted between runs was issued
\* over the corpus as it is now: whatever a run commits, it also counts, and
\* Finish moves corpus_revision.
THEOREM CursorsAreHonest ==
  ASSUME FaultFree, NoTwins, NoForcing
  PROVE  Spec => []CursorHonest
<1> DEFINE Inv == FaultFreeInv /\ PathFreeInv /\ CursorInv
<1>1. Init => Inv
  BY FaultFreeInit, PathFreeInit DEF Init, CursorInv
<1>2. Inv /\ [Next]_vars => Inv'
  BY FaultFreeStep, PathFreeStep, CursorStep
<1>3. Inv => CursorHonest
  BY DEF CursorInv, CursorHonest, Uncounted, AssetSteps
<1> QED
  BY <1>1, <1>2, <1>3, PTL DEF Spec

-----------------------------------------------------------------------------
(* Vectors and the chunks they stand for *)

\* A chunk of a path is the one its row describes, so two rows that agree on
\* content and versions name one chunk.
LEMMA ChunkOfPath == \A p, d : ChunkOf(p, d).path = p
  BY DEF ChunkOf

\* Where one chunker is in use, chunks stay the ones their rows describe.
LEMMA ChunksStep ==
  ASSUME OneChunker, NoForcing, UnforcedInv, ChunksAreRows, [Next]_vars
  PROVE  ChunksAreRows'
<1> USE ConstantsAssumption DEF OneChunker, UnforcedInv, IInv, TypeOK, Located, RowFits, SameParser, AssetSteps, ChunksAreRows, ChunkOf, Chunk, store, run, env
<1>1. CASE UNCHANGED vars
  BY <1>1 DEF vars
<1>2. ASSUME NEW p \in Paths, SweepKeeps(p) PROVE ChunksAreRows'
  BY <1>2 DEF SweepKeeps
<1>3. ASSUME NEW p \in Paths, SweepRecords(p) PROVE ChunksAreRows'
  BY <1>3 DEF SweepRecords, DropRecords, ChunksAt, Goto
<1>4. CASE SweepDocument
  BY <1>4 DEF SweepDocument, DropDocuments, ChunksAt, Stored, Goto
<1>5. CASE FlushDoomed
  BY <1>5 DEF FlushDoomed, LanceWithout, Goto
<1>6. CASE SweepEnds
  BY <1>6 DEF SweepEnds, Goto
<1>7. ASSUME NEW p \in Paths, NextAsset(p) PROVE ChunksAreRows'
  BY <1>7 DEF NextAsset, Goto
<1>8. CASE SkipUnchanged
  BY <1>8 DEF SkipUnchanged, Goto
<1>9. CASE Reprocess
  BY <1>9 DEF Reprocess, Goto
<1>10. CASE BumpVectors
  BY <1>10 DEF BumpVectors, LanceWithout, Goto
<1>11. CASE BumpRecords
  BY <1>11 DEF BumpRecords, DropRecords, ChunksAt, Goto
<1>12. CASE BumpDocument
  BY <1>12 DEF BumpDocument, DropDocuments, ChunksAt, Goto
<1>13. CASE ReadBytes
  BY <1>13 DEF ReadBytes, Goto
<1>14. CASE ReadFails
  BY <1>14 DEF ReadFails, ItemError, Goto
<1>15. CASE PurgeVectors
  BY <1>15 DEF PurgeVectors, LanceWithout, AfterStore, Goto
<1>16. CASE ChecksumConflict
  BY <1>16 DEF ChecksumConflict, ItemError, Goto
<1>17. CASE OrphanRecords
  BY <1>17 DEF OrphanRecords, DropRecords, ChunksAt, Goto
<1>18. CASE OrphanDocuments
  BY <1>18 DEF OrphanDocuments, DropDocuments, ChunksAt, Goto
<1>19. CASE PutAsset
  BY <1>19 DEF PutAsset, Goto
<1>20. CASE PutDocument
  <2>1. ASSUME docs[cur] # NoDoc PROVE ChunkOf(cur, NewRow(cur)) = ChunkOf(cur, docs[cur])
    <3>1. docs[cur].content = scan[cur] /\ docs[cur].base = cfg.base
      BY <1>20, <2>1 DEF PutDocument, PathTaken, SameDocId, NewRow
    <3>2. docs[cur].sig = cfg.sig
      BY <1>20, <2>1, <3>1 DEF PutDocument
    <3>3. docs[cur].chunker = cfg.chunker
      BY <1>20, <2>1 DEF PutDocument, DocRow, Config
    <3> QED
      BY <3>1, <3>2, <3>3 DEF NewRow
  <2>2. docs' = [docs EXCEPT ![cur] = NewRow(cur)] /\ chunks' = chunks /\ cur \in Paths
    BY <1>20 DEF PutDocument
  <2>3. NewRow(cur) # NoDoc
    BY <1>20 DEF PutDocument, NewRow, DocRow, Config, Versions
  <2>4. ASSUME NEW ch \in chunks
        PROVE  docs'[ch.path] # NoDoc /\ ch = ChunkOf(ch.path, docs'[ch.path])
    BY <2>1, <2>2, <2>3, <2>4
  <2> QED
    BY <2>2, <2>4
<1>21. CASE DocumentConflict
  BY <1>21 DEF DocumentConflict, ItemError, Goto
<1>22. CASE PutChunks
  <2>1. docs[cur] = NewRow(cur) /\ docs' = docs /\ cur \in Paths
    BY <1>22 DEF PutChunks, Written
  <2>2. NewRow(cur) # NoDoc
    BY <1>22 DEF PutChunks, NewRow, DocRow, Config, Versions
  <2>3. chunks' \subseteq chunks \cup {NewChunk(cur)}
    BY <1>22 DEF PutChunks, ChunksAt
  <2>4. NewChunk(cur).path = cur /\ NewChunk(cur) = ChunkOf(cur, docs[cur])
    BY <2>1 DEF NewChunk
  <2> QED
    BY <2>1, <2>2, <2>3, <2>4
<1>23. CASE StagePending
  BY <1>23 DEF StagePending, Goto
<1>24. CASE MergeVectors
  BY <1>24 DEF MergeVectors, Goto
<1>25. CASE MarkCommitted
  BY <1>25 DEF MarkCommitted, Goto
<1>26. CASE ReportIndexed
  BY <1>26 DEF ReportIndexed, Goto
<1>27. CASE LastAsset
  BY <1>27 DEF LastAsset, Goto
<1>28. CASE Finish
  BY <1>28 DEF Finish, EndRun, Goto
<1>29. CASE ItemFails
  BY <1>29 DEF ItemFails, ItemError, Goto, Spend
<1>30. CASE SweepFails
  BY <1>30 DEF SweepFails, Goto, Spend
<1>31. CASE FlushFails
  BY <1>31 DEF FlushFails, Goto, Spend
<1>32. CASE BumpRevisionFails
  BY <1>32 DEF BumpRevisionFails, EndRun, Goto, Spend
<1>33. CASE Crash
  BY <1>33 DEF Crash, EndRun, Goto, Spend
<1>34. CASE Cancel
  BY <1>34 DEF Cancel
<1>35. ASSUME NEW f \in ForceModes, NEW scope \in Scopes, StartRun(f, scope) PROVE ChunksAreRows'
  BY <1>35 DEF StartRun, Goto
<1>36. ASSUME NEW p \in Paths, NEW c \in Contents \cup {Absent}, EditFile(p, c) PROVE ChunksAreRows'
  BY <1>36 DEF EditFile, Spend
<1>37. ASSUME NEW c \in Config, ChangeConfig(c) PROVE ChunksAreRows'
  BY <1>37 DEF ChangeConfig
<1>38. CASE ResetVectors
  BY <1>38 DEF ResetVectors, Spend
<1>39. CASE IssueCursor
  BY <1>39 DEF IssueCursor
<1>40. CASE RejectCursor
  BY <1>40 DEF RejectCursor
<1>41. QED
  BY <1>1, <1>2, <1>3, <1>4, <1>5, <1>6, <1>7, <1>8, <1>9, <1>10, <1>11, <1>12, <1>13, <1>14, <1>15, <1>16, <1>17, <1>18, <1>19, <1>20, <1>21, <1>22, <1>23, <1>24, <1>25, <1>26, <1>27, <1>28, <1>29, <1>30, <1>31, <1>32, <1>33, <1>34, <1>35, <1>36, <1>37, <1>38, <1>39, <1>40 DEF Next, RunStep, Sweep, Asset, Mishap, User

\* Where no medium stores first and embeddings stay on, a vector leaves LanceDB
\* before its chunk leaves SQLite, or waits in the buffer of the sweep.
LEMMA VectorsStep ==
  ASSUME OneChunker, NoForcing, Unfailing, StoreFirst = {}, LexicalOnly = {},
         UnforcedInv, ChunksAreRows, VectorsFollow, [Next]_vars
  PROVE  VectorsFollow'
<1> USE ConstantsAssumption DEF Unfailing, UnforcedInv, IInv, TypeOK, Located, AssetSteps, VectorsFollow, LanceWithout, VectorsOff, Chunk, Vector, store, run, env
<1>1. CASE UNCHANGED vars
  BY <1>1 DEF vars, Victims, Stored, StaleAssets
<1>2. ASSUME NEW p \in Paths, SweepKeeps(p) PROVE VectorsFollow'
  BY <1>2 DEF SweepKeeps
<1>3. ASSUME NEW p \in Paths, SweepRecords(p) PROVE VectorsFollow'
  BY <1>3 DEF SweepRecords, DropRecords, ChunksAt, Goto
<1>4. CASE SweepDocument
  BY <1>4 DEF SweepDocument, DropDocuments, ChunksAt, Stored, Goto
<1>5. CASE FlushDoomed
  BY <1>5 DEF FlushDoomed, LanceWithout, Goto
<1>6. CASE SweepEnds
  BY <1>6 DEF SweepEnds, Goto
<1>7. ASSUME NEW p \in Paths, NextAsset(p) PROVE VectorsFollow'
  BY <1>7 DEF NextAsset, Goto
<1>8. CASE SkipUnchanged
  BY <1>8 DEF SkipUnchanged, Goto
<1>9. CASE Reprocess
  BY <1>9 DEF Reprocess, Goto
<1>10. CASE BumpVectors
  <2>1. lance' = {v \in lance : v.chunk \notin ChunksAt({cur})}
    BY <1>10 DEF BumpVectors
  <2>2. doomed = {} /\ doomed' = {} /\ chunks' = chunks /\ cur' = cur
    BY <1>10 DEF BumpVectors, Buffered
  <2>3. \A v \in lance' : v.chunk \in chunks /\ v.chunk.path # cur
    BY <2>1, <2>2 DEF ChunksAt
  <2>4. pc' = "bump_records"
    BY <1>10 DEF BumpVectors, Goto
  <2> QED
    BY <2>2, <2>3, <2>4
<1>11. CASE BumpRecords
  BY <1>11 DEF BumpRecords, DropRecords, ChunksAt, Goto
<1>12. CASE BumpDocument
  BY <1>12 DEF BumpDocument, DropDocuments, ChunksAt, Goto
<1>13. CASE ReadBytes
  BY <1>13 DEF ReadBytes, Goto
<1>14. CASE ReadFails
  BY <1>14 DEF ReadFails, ItemError, Goto
<1>15. CASE PurgeVectors
  <2>1. Victims(cur)' = Victims(cur)
    BY <1>15 DEF PurgeVectors, Victims, Stored, StaleAssets
  <2>2. lance' = {v \in lance : v.chunk \notin ChunksAt(Victims(cur))}
    BY <1>15 DEF PurgeVectors
  <2>3. doomed = {} /\ doomed' = {} /\ chunks' = chunks
    BY <1>15 DEF PurgeVectors, Buffered
  <2>4. \A v \in lance' : v.chunk \in chunks /\ v.chunk.path \notin Victims(cur)
    BY <2>2, <2>3 DEF ChunksAt
  <2>5. pc' = "orphan_records"
    BY <1>15 DEF PurgeVectors, Goto
  <2> QED
    BY <2>1, <2>3, <2>4, <2>5
<1>16. CASE ChecksumConflict
  BY <1>16 DEF ChecksumConflict, ItemError, Goto
<1>17. CASE OrphanRecords
  <2>1. Victims(cur)' = Victims(cur)
    BY <1>17 DEF OrphanRecords, Victims, Stored, StaleAssets
  <2> QED
    BY <1>17, <2>1 DEF OrphanRecords, Goto
<1>18. CASE OrphanDocuments
  BY <1>18 DEF OrphanDocuments, DropDocuments, ChunksAt, Goto
<1>19. CASE PutAsset
  BY <1>19 DEF PutAsset, Goto
<1>20. CASE PutDocument
  BY <1>20 DEF PutDocument, Goto
<1>21. CASE DocumentConflict
  BY <1>21 DEF DocumentConflict, ItemError, Goto
<1>22. CASE PutChunks
  <2>1. docs[cur] = NewRow(cur)
    BY <1>22 DEF PutChunks, Written
  <2>2. \A ch \in ChunksAt({cur}) : ch = NewChunk(cur)
    BY <2>1 DEF ChunksAreRows, ChunksAt, NewChunk
  <2>3. chunks \subseteq chunks'
    BY <1>22, <2>2 DEF PutChunks
  <2> QED
    BY <1>22, <2>3 DEF PutChunks, AfterStore, Goto
<1>23. CASE StagePending
  BY <1>23 DEF StagePending, Goto
<1>24. CASE MergeVectors
  BY <1>24 DEF MergeVectors, Goto, NewVector, Written
<1>25. CASE MarkCommitted
  BY <1>25 DEF MarkCommitted, Goto
<1>26. CASE ReportIndexed
  BY <1>26 DEF ReportIndexed, Goto
<1>27. CASE LastAsset
  BY <1>27 DEF LastAsset, Goto
<1>28. CASE Finish
  BY <1>28 DEF Finish, EndRun, Goto, Buffered
<1>29. CASE ItemFails
  BY <1>29 DEF ItemFails, ItemError, Goto, Spend
<1>30. CASE SweepFails
  BY <1>30 DEF SweepFails, Goto, Spend
<1>31. CASE FlushFails
  BY <1>31 DEF FlushFails, Goto, Spend
<1>32. CASE BumpRevisionFails
  BY <1>32 DEF BumpRevisionFails, EndRun, Goto, Spend
<1>33. CASE Crash
  BY <1>33 DEF Crash, EndRun, Goto, Spend
<1>34. CASE Cancel
  BY <1>34 DEF Cancel, Victims, Stored, StaleAssets
<1>35. ASSUME NEW f \in ForceModes, NEW scope \in Scopes, StartRun(f, scope) PROVE VectorsFollow'
  BY <1>35 DEF StartRun, Goto
<1>36. ASSUME NEW p \in Paths, NEW c \in Contents \cup {Absent}, EditFile(p, c) PROVE VectorsFollow'
  BY <1>36 DEF EditFile, Spend, Victims, Stored, StaleAssets
<1>37. ASSUME NEW c \in Config, ChangeConfig(c) PROVE VectorsFollow'
  BY <1>37 DEF ChangeConfig
<1>38. CASE ResetVectors
  BY <1>38 DEF ResetVectors, Spend
<1>39. CASE IssueCursor
  BY <1>39 DEF IssueCursor, Victims, Stored, StaleAssets
<1>40. CASE RejectCursor
  BY <1>40 DEF RejectCursor, Victims, Stored, StaleAssets
<1>41. QED
  BY <1>1, <1>2, <1>3, <1>4, <1>5, <1>6, <1>7, <1>8, <1>9, <1>10, <1>11, <1>12, <1>13, <1>14, <1>15, <1>16, <1>17, <1>18, <1>19, <1>20, <1>21, <1>22, <1>23, <1>24, <1>25, <1>26, <1>27, <1>28, <1>29, <1>30, <1>31, <1>32, <1>33, <1>34, <1>35, <1>36, <1>37, <1>38, <1>39, <1>40 DEF Next, RunStep, Sweep, Asset, Mishap, User

\* Where nothing crashes or fails, no markdown is ingested, embeddings are never
\* switched off, nobody forces a run and one chunker is in use, no vector is left
\* between runs without its chunk: edits, deletions, twins, races, cancelled
\* sweeps, parser upgrades and resets all reach it in time.
THEOREM NoVectorIsOrphaned ==
  ASSUME OneChunker, NoForcing, Unfailing, StoreFirst = {}, LexicalOnly = {}
  PROVE  Spec => []NoOrphanVectors
<1>1. Init => NoOrphanInv
  BY IInvInit DEF Init, NoOrphanInv, UnforcedInv, RowFits, ChunksAreRows, VectorsFollow
<1>2. NoOrphanInv /\ [Next]_vars => NoOrphanInv'
  BY UnforcedStep, ChunksStep, VectorsStep DEF NoOrphanInv
<1>3. NoOrphanInv => NoOrphanVectors
  BY DEF NoOrphanInv, UnforcedInv, IInv, Buffered, VectorsFollow, NoOrphanVectors
<1> QED
  BY <1>1, <1>2, <1>3, PTL DEF Spec

-----------------------------------------------------------------------------
(* What a run reports *)

\* What a path is indexed with: its row, and what both stores hold under its path.
LEMMA StaysIndexed ==
  ASSUME NEW p \in Paths, Indexed(p), cfg' = cfg, scan' = scan, docs'[p] = docs[p],
         \A ch \in chunks : ch.path = p => ch \in chunks',
         \A r \in committed : r.chunk.path = p => r \in committed',
         \A v \in lance : v.chunk.path = p => v \in lance'
  PROVE  Indexed(p)'
<1>1. NewRow(p)' = NewRow(p) /\ ChunkOf(p, docs[p])' = ChunkOf(p, docs[p])
  BY DEF NewRow, ChunkOf
<1>2. ChunkOf(p, docs[p]).path = p
  BY DEF ChunkOf
<1> QED
  BY <1>1, <1>2 DEF Indexed, Backed

\* The steps of one asset leave every other path as it is indexed.
LEMMA OthersStayIndexed ==
  ASSUME NoTwins, IInv, RecordedContents, NEW q \in Paths, Indexed(q),
         pc \in AssetSteps \cup {"next", "finish"}, q # cur, pc' # "idle", [Next]_vars
  PROVE  Indexed(q)'
<1> USE ConstantsAssumption DEF IInv, TypeOK, Located, AssetSteps, store, run, env
<1>1. CASE UNCHANGED vars
  BY <1>1, StaysIndexed DEF vars
<1>2. ASSUME NEW p \in Paths, SweepKeeps(p) PROVE Indexed(q)'
  BY <1>2, StaysIndexed DEF SweepKeeps
<1>3. ASSUME NEW p \in Paths, SweepRecords(p) PROVE Indexed(q)'
  BY <1>3, StaysIndexed DEF SweepRecords, DropRecords, ChunksAt, Goto
<1>4. CASE SweepDocument
  BY <1>4, StaysIndexed DEF SweepDocument, DropDocuments, ChunksAt, Stored, Goto
<1>5. CASE FlushDoomed
  BY <1>5, StaysIndexed DEF FlushDoomed, LanceWithout, Goto
<1>6. CASE SweepEnds
  BY <1>6, StaysIndexed DEF SweepEnds, Goto
<1>7. ASSUME NEW p \in Paths, NextAsset(p) PROVE Indexed(q)'
  BY <1>7, StaysIndexed DEF NextAsset, Goto
<1>8. CASE SkipUnchanged
  BY <1>8, StaysIndexed DEF SkipUnchanged, Goto
<1>9. CASE Reprocess
  BY <1>9, StaysIndexed DEF Reprocess, Goto
<1>10. CASE BumpVectors
  <2>1. \A v \in lance : v.chunk.path = q => v \in lance'
    BY <1>10 DEF BumpVectors, LanceWithout, ChunksAt
  <2> QED
    BY <1>10, <2>1, StaysIndexed DEF BumpVectors
<1>11. CASE BumpRecords
  BY <1>11, StaysIndexed DEF BumpRecords, DropRecords, ChunksAt, Goto
<1>12. CASE BumpDocument
  BY <1>12, StaysIndexed DEF BumpDocument, DropDocuments, ChunksAt, Goto
<1>13. CASE ReadBytes
  BY <1>13, StaysIndexed DEF ReadBytes, Goto
<1>14. CASE ReadFails
  BY <1>14, StaysIndexed DEF ReadFails, ItemError, Goto
<1>15. CASE PurgeVectors
  <2>1. \A v \in lance : v.chunk.path = q => v \in lance'
    BY <1>15, OwnVictims DEF PurgeVectors, LanceWithout, ChunksAt
  <2> QED
    BY <1>15, <2>1, StaysIndexed DEF PurgeVectors
<1>16. CASE ChecksumConflict
  BY <1>16, StaysIndexed DEF ChecksumConflict, ItemError, Goto
<1>17. CASE OrphanRecords
  <2>1. \A r \in committed : r.chunk.path = q => r \in committed'
    BY <1>17, OwnVictims DEF OrphanRecords, DropRecords, ChunksAt
  <2> QED
    BY <1>17, <2>1, StaysIndexed DEF OrphanRecords
<1>18. CASE OrphanDocuments
  <2>1. q \notin Victims(cur)
    BY <1>18, OwnVictims DEF OrphanDocuments
  <2>2. docs'[q] = docs[q] /\ \A ch \in chunks : ch.path = q => ch \in chunks'
    BY <1>18, <2>1 DEF OrphanDocuments, DropDocuments, ChunksAt
  <2> QED
    BY <1>18, <2>2, StaysIndexed DEF OrphanDocuments
<1>19. CASE PutAsset
  BY <1>19, StaysIndexed DEF PutAsset, Goto
<1>20. CASE PutDocument
  BY <1>20, StaysIndexed DEF PutDocument, Goto, NewRow
<1>21. CASE DocumentConflict
  BY <1>21, StaysIndexed DEF DocumentConflict, ItemError, Goto
<1>22. CASE PutChunks
  BY <1>22, StaysIndexed DEF PutChunks, DropRecords, ChunksAt, AfterStore, Goto, NewChunk, ChunkOf
<1>23. CASE StagePending
  BY <1>23, StaysIndexed DEF StagePending, Goto, NewRecord, NewChunk, ChunkOf
<1>24. CASE MergeVectors
  BY <1>24, StaysIndexed DEF MergeVectors, Goto
<1>25. CASE MarkCommitted
  BY <1>25, StaysIndexed DEF MarkCommitted, Goto
<1>26. CASE ReportIndexed
  BY <1>26, StaysIndexed DEF ReportIndexed, Goto
<1>27. CASE LastAsset
  BY <1>27, StaysIndexed DEF LastAsset, Goto
<1>28. CASE Finish
  BY <1>28, StaysIndexed DEF Finish, EndRun, Goto
<1>29. CASE ItemFails
  BY <1>29, StaysIndexed DEF ItemFails, ItemError, Goto, Spend
<1>30. CASE SweepFails
  BY <1>30, StaysIndexed DEF SweepFails, Goto, Spend
<1>31. CASE FlushFails
  BY <1>31, StaysIndexed DEF FlushFails, Goto, Spend
<1>32. CASE BumpRevisionFails
  BY <1>32, StaysIndexed DEF BumpRevisionFails, EndRun, Goto, Spend
<1>33. CASE Crash
  BY <1>33, StaysIndexed DEF Crash, EndRun, Goto, Spend
<1>34. CASE Cancel
  BY <1>34, StaysIndexed DEF Cancel
<1>35. ASSUME NEW f \in ForceModes, NEW scope \in Scopes, StartRun(f, scope) PROVE Indexed(q)'
  BY <1>35, StaysIndexed DEF StartRun, Goto
<1>36. ASSUME NEW p \in Paths, NEW c \in Contents \cup {Absent}, EditFile(p, c) PROVE Indexed(q)'
  BY <1>36, StaysIndexed DEF EditFile, Spend
<1>37. ASSUME NEW c \in Config, ChangeConfig(c) PROVE Indexed(q)'
  BY <1>37, StaysIndexed DEF ChangeConfig
<1>38. CASE ResetVectors
  BY <1>38, StaysIndexed DEF ResetVectors, Spend
<1>39. CASE IssueCursor
  BY <1>39, StaysIndexed DEF IssueCursor
<1>40. CASE RejectCursor
  BY <1>40, StaysIndexed DEF RejectCursor
<1>41. QED
  BY <1>1, <1>2, <1>3, <1>4, <1>5, <1>6, <1>7, <1>8, <1>9, <1>10, <1>11, <1>12, <1>13, <1>14, <1>15, <1>16, <1>17, <1>18, <1>19, <1>20, <1>21, <1>22, <1>23, <1>24, <1>25, <1>26, <1>27, <1>28, <1>29, <1>30, <1>31, <1>32, <1>33, <1>34, <1>35, <1>36, <1>37, <1>38, <1>39, <1>40 DEF Next, RunStep, Sweep, Asset, Mishap, User

\* The row a skip check lets pass is the one this run would write.
LEMMA UnchangedIsNew ==
  ASSUME TypeOK, NEW p \in Paths, Unchanged(p)
  PROVE  docs[p] = NewRow(p)
<1>1. docs[p] \in DocRow
  BY DEF TypeOK, Unchanged
<1>2. docs[p] = [content |-> docs[p].content, base |-> docs[p].base, sig |-> docs[p].sig,
                 chunker |-> docs[p].chunker, version |-> docs[p].version]
  BY <1>1 DEF DocRow
<1> QED
  BY <1>2 DEF NewRow, Unchanged, SameParser

\* The loop leaves each path behind it indexed, skipped soundly or in error.
LEMMA ReportStep ==
  ASSUME FaultFree, VersionNamesModel, NoTwins,
         FaultFreeInv, RecordedContents, ReportInv, [Next]_vars
  PROVE  ReportInv'
<1> USE ConstantsAssumption DEF FaultFree, Faults, FaultFreeInv, IInv, TypeOK, Located, ReportInv, AssetSteps, RunSteps, store, run, env
<1>1. CASE UNCHANGED vars
  <2>1. \A q \in Paths : Indexed(q) => Indexed(q)'
    BY <1>1, StaysIndexed DEF vars
  <2> QED
    BY <1>1, <2>1 DEF vars
<1>2. ASSUME NEW p \in Paths, SweepKeeps(p) PROVE ReportInv'
  BY <1>2, OthersStayIndexed DEF SweepKeeps
<1>3. ASSUME NEW p \in Paths, SweepRecords(p) PROVE ReportInv'
  BY <1>3, OthersStayIndexed DEF SweepRecords, DropRecords, ChunksAt, Goto
<1>4. CASE SweepDocument
  BY <1>4, OthersStayIndexed DEF SweepDocument, DropDocuments, ChunksAt, Stored, Goto
<1>5. CASE FlushDoomed
  BY <1>5, OthersStayIndexed DEF FlushDoomed, LanceWithout, Goto
<1>6. CASE SweepEnds
  BY <1>6, OthersStayIndexed DEF SweepEnds, Goto, VectorsOff
<1>7. ASSUME NEW p \in Paths, NextAsset(p) PROVE ReportInv'
  BY <1>7, OthersStayIndexed DEF NextAsset, Goto
<1>8. CASE SkipUnchanged
  <2>1. Indexed(cur)
    BY <1>8, SkipSoundHere, UnchangedIsNew DEF SkipUnchanged, SkipIsSound, Indexed
  <2>2. \A q \in Paths : Indexed(q) => Indexed(q)'
    BY <1>8, StaysIndexed DEF SkipUnchanged
  <2> QED
    BY <1>8, <2>1, <2>2 DEF SkipUnchanged, Goto
<1>9. CASE Reprocess
  BY <1>9, OthersStayIndexed DEF Reprocess, Goto
<1>10. CASE BumpVectors
  BY <1>10, OthersStayIndexed DEF BumpVectors, LanceWithout, Goto
<1>11. CASE BumpRecords
  BY <1>11, OthersStayIndexed DEF BumpRecords, DropRecords, ChunksAt, Goto
<1>12. CASE BumpDocument
  BY <1>12, OthersStayIndexed DEF BumpDocument, DropDocuments, ChunksAt, Goto
<1>13. CASE ReadBytes
  BY <1>13, OthersStayIndexed DEF ReadBytes, Goto
<1>14. CASE ReadFails
  BY <1>14, OthersStayIndexed DEF ReadFails, ItemError, Goto
<1>15. CASE PurgeVectors
  <2>1. ASSUME pc' = "report" PROVE Indexed(cur)'
    <3>1. cur \in StoreFirst /\ VectorsOff
      BY <1>15, <2>1 DEF PurgeVectors, AfterStore, Goto
    <3>2. docs[cur] = NewRow(cur) /\ NewChunk(cur) \in chunks
      BY <1>15, <3>1 DEF PurgeVectors, Written
    <3>3. Indexed(cur)
      BY <3>1, <3>2 DEF Indexed, Backed, NewChunk, VectorsOff
    <3> QED
      BY <1>15, <3>1, <3>3, StaysIndexed DEF PurgeVectors, LanceWithout
  <2> QED
    BY <1>15, <2>1, OthersStayIndexed DEF PurgeVectors, AfterStore, Goto
<1>16. CASE ChecksumConflict
  BY <1>16, OthersStayIndexed DEF ChecksumConflict, ItemError, Goto
<1>17. CASE OrphanRecords
  BY <1>17, OthersStayIndexed DEF OrphanRecords, DropRecords, ChunksAt, Goto
<1>18. CASE OrphanDocuments
  BY <1>18, OthersStayIndexed DEF OrphanDocuments, DropDocuments, ChunksAt, Goto
<1>19. CASE PutAsset
  BY <1>19, OthersStayIndexed DEF PutAsset, Goto
<1>20. CASE PutDocument
  BY <1>20, OthersStayIndexed DEF PutDocument, Goto
<1>21. CASE DocumentConflict
  BY <1>21, OthersStayIndexed DEF DocumentConflict, ItemError, Goto
<1>22. CASE PutChunks
  <2>1. ASSUME pc' = "report" PROVE Indexed(cur)'
    <3>1. VectorsOff /\ cfg' = cfg
      BY <1>22, <2>1 DEF PutChunks, AfterStore, Goto
    <3>2. docs' = docs /\ docs[cur] = NewRow(cur) /\ NewChunk(cur) \in chunks'
      BY <1>22 DEF PutChunks, Written
    <3>3. NewRow(cur)' = NewRow(cur) /\ ChunkOf(cur, docs[cur])' = NewChunk(cur)
      BY <1>22, <3>2 DEF PutChunks, NewRow, NewChunk, ChunkOf
    <3> QED
      BY <1>22, <3>1, <3>2, <3>3 DEF PutChunks, Indexed, Backed, VectorsOff
  <2> QED
    BY <1>22, <2>1, OthersStayIndexed DEF PutChunks, AfterStore, Goto
<1>23. CASE StagePending
  BY <1>23, OthersStayIndexed DEF StagePending, Goto
<1>24. CASE MergeVectors
  BY <1>24, OthersStayIndexed DEF MergeVectors, Goto
<1>25. CASE MarkCommitted
  <2>1. Indexed(cur)'
    <3>1. docs' = docs /\ docs[cur] = NewRow(cur) /\ NewChunk(cur) \in chunks'
      BY <1>25 DEF MarkCommitted, Written
    <3>2. NewRow(cur)' = NewRow(cur) /\ ChunkOf(cur, docs[cur])' = NewChunk(cur)
      BY <1>25, <3>1 DEF MarkCommitted, NewRow, NewChunk, ChunkOf
    <3>3. NewRecord(cur) \in committed' /\ NewVector(cur) \in lance' /\ cfg' = cfg
      BY <1>25 DEF MarkCommitted, Written
    <3> QED
      BY <1>25, <3>1, <3>2, <3>3 DEF MarkCommitted, Indexed, Backed, NewRecord, NewVector
  <2> QED
    BY <1>25, <2>1, OthersStayIndexed DEF MarkCommitted, Goto
<1>26. CASE ReportIndexed
  <2>1. \A q \in Paths : Indexed(q) => Indexed(q)'
    BY <1>26, StaysIndexed DEF ReportIndexed
  <2> QED
    BY <1>26, <2>1 DEF ReportIndexed, Goto
<1>27. CASE LastAsset
  BY <1>27, OthersStayIndexed DEF LastAsset, Goto
<1>28. CASE Finish
  BY <1>28, OthersStayIndexed DEF Finish, EndRun, Goto
<1>29. CASE ItemFails
  BY <1>29, OthersStayIndexed DEF ItemFails, ItemError, Goto, Spend
<1>30. CASE SweepFails
  BY <1>30, OthersStayIndexed DEF SweepFails, Goto, Spend
<1>31. CASE FlushFails
  BY <1>31, OthersStayIndexed DEF FlushFails, Goto, Spend
<1>32. CASE BumpRevisionFails
  BY <1>32, OthersStayIndexed DEF BumpRevisionFails, EndRun, Goto, Spend
<1>33. CASE Crash
  BY <1>33, OthersStayIndexed DEF Crash, EndRun, Goto, Spend
<1>34. CASE Cancel
  <2>1. \A q \in Paths : Indexed(q) => Indexed(q)'
    BY <1>34, StaysIndexed DEF Cancel
  <2> QED
    BY <1>34, <2>1 DEF Cancel
<1>35. ASSUME NEW f \in ForceModes, NEW scope \in Scopes, StartRun(f, scope) PROVE ReportInv'
  BY <1>35, OthersStayIndexed DEF StartRun, Goto
<1>36. ASSUME NEW p \in Paths, NEW c \in Contents \cup {Absent}, EditFile(p, c) PROVE ReportInv'
  BY <1>36, OthersStayIndexed DEF EditFile, Spend
<1>37. ASSUME NEW c \in Config, ChangeConfig(c) PROVE ReportInv'
  BY <1>37, OthersStayIndexed DEF ChangeConfig
<1>38. CASE ResetVectors
  BY <1>38, OthersStayIndexed DEF ResetVectors, Spend
<1>39. CASE IssueCursor
  <2>1. \A q \in Paths : Indexed(q) => Indexed(q)'
    BY <1>39, StaysIndexed DEF IssueCursor
  <2> QED
    BY <1>39, <2>1 DEF IssueCursor
<1>40. CASE RejectCursor
  <2>1. \A q \in Paths : Indexed(q) => Indexed(q)'
    BY <1>40, StaysIndexed DEF RejectCursor
  <2> QED
    BY <1>40, <2>1 DEF RejectCursor
<1>41. QED
  BY <1>1, <1>2, <1>3, <1>4, <1>5, <1>6, <1>7, <1>8, <1>9, <1>10, <1>11, <1>12, <1>13, <1>14, <1>15, <1>16, <1>17, <1>18, <1>19, <1>20, <1>21, <1>22, <1>23, <1>24, <1>25, <1>26, <1>27, <1>28, <1>29, <1>30, <1>31, <1>32, <1>33, <1>34, <1>35, <1>36, <1>37, <1>38, <1>39, <1>40 DEF Next, RunStep, Sweep, Asset, Mishap, User

\* Where nothing crashes, fails, races or is reset, every change of model comes
\* with a new embedding version and no two paths share contents, the report of a
\* run is true: at its end each scanned file it neither listed as an Error nor
\* left behind by a cancel is stored as scanned, in this run's versions, and is
\* searchable.
THEOREM ReportsAreTrue ==
  ASSUME FaultFree, VersionNamesModel, NoTwins
  PROVE  Spec => []ReportedAreIndexed
<1> DEFINE Inv == FaultFreeInv /\ RecordedContents /\ ReportInv
<1>1. Init => Inv
  BY FaultFreeInit, RecordedInit DEF Init, ReportInv, AssetSteps
<1>2. Inv /\ [Next]_vars => Inv'
  BY FaultFreeStep, RecordedStep, ReportStep DEF FaultFreeInv
<1>3. Inv => ReportedAreIndexed
  BY ConstantsAssumption DEF ReportInv, ReportedAreIndexed, Indexed, AssetSteps
<1> QED
  BY <1>1, <1>2, <1>3, PTL DEF Spec

=============================================================================
