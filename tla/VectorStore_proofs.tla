------------------------- MODULE VectorStore_proofs -------------------------
(* Machine-checked proofs about VectorStore, for every value of its constants. *)
EXTENDS VectorStore, TLAPS

\* A typed state stays typed.
LEMMA TypeStep ==
  ASSUME TypeOK, Working, [Next]_vars
  PROVE  TypeOK'
<1> USE VectorAssumption DEF TypeOK, Working, Steps, Offering, Versions, Pair, PairsOf, NoBase, records, lance, call, ghost, bound
<1>1. CASE UNCHANGED vars
  BY <1>1 DEF vars
<1>2. ASSUME NEW p \in Procs, EmptyCall(p) PROVE TypeOK'
  BY <1>2 DEF EmptyCall, vars, records, lance, call, ghost, bound
<1>3. ASSUME NEW p \in Procs, Upsert(p) PROVE TypeOK'
  BY <1>3 DEF Upsert, Begin, DropRecords, Goto
<1>4. ASSUME NEW p \in Procs, OpenTable(p) PROVE TypeOK'
  BY <1>4 DEF OpenTable, Goto
<1>5. ASSUME NEW p \in Procs, CreateTable(p) PROVE TypeOK'
  BY <1>5 DEF CreateTable, Goto
<1>6. ASSUME NEW p \in Procs, CreateRaced(p) PROVE TypeOK'
  BY <1>6 DEF CreateRaced, Return, Goto
<1>7. ASSUME NEW p \in Procs, StagePending(p) PROVE TypeOK'
  BY <1>7 DEF StagePending, Goto, BatchOf
<1>8. ASSUME NEW p \in Procs, BeginMerge(p) PROVE TypeOK'
  BY <1>8 DEF BeginMerge, Goto
<1>9. ASSUME NEW p \in Procs, CommitMerge(p) PROVE TypeOK'
  BY <1>9 DEF CommitMerge, Goto, Written, MergedRows
<1>10. ASSUME NEW p \in Procs, Conflict(p) PROVE TypeOK'
  BY <1>10 DEF Conflict, Fault, Return, Goto
<1>11. ASSUME NEW p \in Procs, MarkCommitted(p) PROVE TypeOK'
  BY <1>11 DEF MarkCommitted, Goto, BatchOf
<1>12. ASSUME NEW p \in Procs, PurgeRecordsFirst(p) PROVE TypeOK'
  BY <1>12 DEF PurgeRecordsFirst, Begin, DropRecords, Goto
<1>13. ASSUME NEW p \in Procs, PurgeVectorsFirst(p) PROVE TypeOK'
  BY <1>13 DEF PurgeVectorsFirst, Begin, Goto
<1>14. ASSUME NEW p \in Procs, VisitTable(p) PROVE TypeOK'
  BY <1>14 DEF VisitTable, Goto
<1>15. ASSUME NEW p \in Procs, DeleteRows(p) PROVE TypeOK'
  BY <1>15 DEF DeleteRows, Goto, Written, MergedRows
<1>16. ASSUME NEW p \in Procs, VisitedAll(p) PROVE TypeOK'
  BY <1>16 DEF VisitedAll, Goto
<1>17. ASSUME NEW p \in Procs, PurgeRecordsLast(p) PROVE TypeOK'
  BY <1>17 DEF PurgeRecordsLast, DropRecords, Return, Goto
<1>18. ASSUME NEW p \in Procs, NotDue(p) PROVE TypeOK'
  BY <1>18 DEF NotDue, Pending
<1>19. ASSUME NEW p \in Procs, Compact(p) PROVE TypeOK'
  BY <1>19 DEF Compact, Pending, Goto
<1>20. ASSUME NEW p \in Procs, Prune(p) PROVE TypeOK'
  BY <1>20 DEF Prune, Goto
<1>21. ASSUME NEW p \in Procs, CompactFails(p) PROVE TypeOK'
  BY <1>21 DEF CompactFails, Fault, Pending
<1>22. ASSUME NEW p \in Procs, PruneFails(p) PROVE TypeOK'
  BY <1>22 DEF PruneFails, Fault, Goto
<1>23. ASSUME NEW p \in Procs, Finish(p) PROVE TypeOK'
  BY <1>23 DEF Finish, Return, Goto
<1>24. ASSUME NEW p \in Procs, PurgeGoesOn(p) PROVE TypeOK'
  BY <1>24 DEF PurgeGoesOn, Goto
<1>25. ASSUME NEW p \in Procs, Crash(p) PROVE TypeOK'
  BY <1>25 DEF Crash, Fault, Return, Goto
<1>26. QED
  BY <1>1, <1>2, <1>3, <1>4, <1>5, <1>6, <1>7, <1>8, <1>9, <1>10, <1>11, <1>12, <1>13, <1>14, <1>15, <1>16, <1>17, <1>18, <1>19, <1>20, <1>21, <1>22, <1>23, <1>24, <1>25 DEF Next

\* A process stays within what it owns, and in an upsert it has an embedder.
LEMMA WorkingStep ==
  ASSUME TypeOK, Working, [Next]_vars
  PROVE  Working'
<1> USE VectorAssumption DEF TypeOK, Working, Steps, Offering, Versions, Pair, PairsOf, NoBase, records, lance, call, ghost, bound
<1>1. CASE UNCHANGED vars
  BY <1>1 DEF vars
<1>2. ASSUME NEW p \in Procs, EmptyCall(p) PROVE Working'
  BY <1>2 DEF EmptyCall, vars, records, lance, call, ghost, bound
<1>3. ASSUME NEW p \in Procs, Upsert(p) PROVE Working'
  <2>1. PICK cs \in SUBSET Own[p], e \in Embedders :
          batch' = [batch EXCEPT ![p] = cs] /\ emb' = [emb EXCEPT ![p] = e]
    BY <1>3 DEF Upsert
  <2>2. pc[p] = "idle" /\ pc' = [pc EXCEPT ![p] = "open"] /\ UNCHANGED <<left, at, pruned>>
    BY <1>3 DEF Upsert, Begin, Goto
  <2>. QED
    BY <2>1, <2>2
<1>4. ASSUME NEW p \in Procs, OpenTable(p) PROVE Working'
  BY <1>4 DEF OpenTable, Goto
<1>5. ASSUME NEW p \in Procs, CreateTable(p) PROVE Working'
  BY <1>5 DEF CreateTable, Goto
<1>6. ASSUME NEW p \in Procs, CreateRaced(p) PROVE Working'
  BY <1>6 DEF CreateRaced, Return, Goto
<1>7. ASSUME NEW p \in Procs, StagePending(p) PROVE Working'
  BY <1>7 DEF StagePending, Goto, BatchOf
<1>8. ASSUME NEW p \in Procs, BeginMerge(p) PROVE Working'
  BY <1>8 DEF BeginMerge, Goto
<1>9. ASSUME NEW p \in Procs, CommitMerge(p) PROVE Working'
  BY <1>9 DEF CommitMerge, Goto, Written, MergedRows
<1>10. ASSUME NEW p \in Procs, Conflict(p) PROVE Working'
  BY <1>10 DEF Conflict, Fault, Return, Goto
<1>11. ASSUME NEW p \in Procs, MarkCommitted(p) PROVE Working'
  BY <1>11 DEF MarkCommitted, Goto, BatchOf
<1>12. ASSUME NEW p \in Procs, PurgeRecordsFirst(p) PROVE Working'
  BY <1>12 DEF PurgeRecordsFirst, Begin, DropRecords, Goto
<1>13. ASSUME NEW p \in Procs, PurgeVectorsFirst(p) PROVE Working'
  BY <1>13 DEF PurgeVectorsFirst, Begin, Goto
<1>14. ASSUME NEW p \in Procs, VisitTable(p) PROVE Working'
  BY <1>14 DEF VisitTable, Goto
<1>15. ASSUME NEW p \in Procs, DeleteRows(p) PROVE Working'
  BY <1>15 DEF DeleteRows, Goto, Written, MergedRows
<1>16. ASSUME NEW p \in Procs, VisitedAll(p) PROVE Working'
  BY <1>16 DEF VisitedAll, Goto
<1>17. ASSUME NEW p \in Procs, PurgeRecordsLast(p) PROVE Working'
  BY <1>17 DEF PurgeRecordsLast, DropRecords, Return, Goto
<1>18. ASSUME NEW p \in Procs, NotDue(p) PROVE Working'
  BY <1>18 DEF NotDue, Pending
<1>19. ASSUME NEW p \in Procs, Compact(p) PROVE Working'
  BY <1>19 DEF Compact, Pending, Goto
<1>20. ASSUME NEW p \in Procs, Prune(p) PROVE Working'
  BY <1>20 DEF Prune, Goto
<1>21. ASSUME NEW p \in Procs, CompactFails(p) PROVE Working'
  BY <1>21 DEF CompactFails, Fault, Pending
<1>22. ASSUME NEW p \in Procs, PruneFails(p) PROVE Working'
  BY <1>22 DEF PruneFails, Fault, Goto
<1>23. ASSUME NEW p \in Procs, Finish(p) PROVE Working'
  BY <1>23 DEF Finish, Return, Goto
<1>24. ASSUME NEW p \in Procs, PurgeGoesOn(p) PROVE Working'
  BY <1>24 DEF PurgeGoesOn, Goto
<1>25. ASSUME NEW p \in Procs, Crash(p) PROVE Working'
  BY <1>25 DEF Crash, Fault, Return, Goto
<1>26. QED
  BY <1>1, <1>2, <1>3, <1>4, <1>5, <1>6, <1>7, <1>8, <1>9, <1>10, <1>11, <1>12, <1>13, <1>14, <1>15, <1>16, <1>17, <1>18, <1>19, <1>20, <1>21, <1>22, <1>23, <1>24, <1>25 DEF Next

\* An upsert's batch stays its own: nobody else touches its records or its rows.
LEMMA ProgressStep ==
  ASSUME TypeOK, Working, Progressing, [Next]_vars
  PROVE  Progressing'
<1> USE VectorAssumption DEF TypeOK, Working, Steps, Offering, Versions, Pair, PairsOf, NoBase, records, lance, call, ghost, bound, BatchOf, Progressing
<1>1. CASE UNCHANGED vars
  BY <1>1 DEF vars
<1>2. ASSUME NEW p \in Procs, EmptyCall(p) PROVE Progressing'
  BY <1>2 DEF EmptyCall, vars, records, lance, call, ghost, bound
<1>3. ASSUME NEW p \in Procs, Upsert(p) PROVE Progressing'
  BY <1>3 DEF Upsert, Begin, DropRecords, Goto
<1>4. ASSUME NEW p \in Procs, OpenTable(p) PROVE Progressing'
  BY <1>4 DEF OpenTable, Goto
<1>5. ASSUME NEW p \in Procs, CreateTable(p) PROVE Progressing'
  BY <1>5 DEF CreateTable, Goto
<1>6. ASSUME NEW p \in Procs, CreateRaced(p) PROVE Progressing'
  BY <1>6 DEF CreateRaced, Return, Goto
<1>7. ASSUME NEW p \in Procs, StagePending(p) PROVE Progressing'
  BY <1>7 DEF StagePending, Goto, BatchOf
<1>8. ASSUME NEW p \in Procs, BeginMerge(p) PROVE Progressing'
  BY <1>8 DEF BeginMerge, Goto
<1>9. ASSUME NEW p \in Procs, CommitMerge(p) PROVE Progressing'
  BY <1>9 DEF CommitMerge, Goto, Written, MergedRows
<1>10. ASSUME NEW p \in Procs, Conflict(p) PROVE Progressing'
  BY <1>10 DEF Conflict, Fault, Return, Goto
<1>11. ASSUME NEW p \in Procs, MarkCommitted(p) PROVE Progressing'
  BY <1>11 DEF MarkCommitted, Goto, BatchOf
<1>12. ASSUME NEW p \in Procs, PurgeRecordsFirst(p) PROVE Progressing'
  BY <1>12 DEF PurgeRecordsFirst, Begin, DropRecords, Goto
<1>13. ASSUME NEW p \in Procs, PurgeVectorsFirst(p) PROVE Progressing'
  BY <1>13 DEF PurgeVectorsFirst, Begin, Goto
<1>14. ASSUME NEW p \in Procs, VisitTable(p) PROVE Progressing'
  BY <1>14 DEF VisitTable, Goto
<1>15. ASSUME NEW p \in Procs, DeleteRows(p) PROVE Progressing'
  BY <1>15 DEF DeleteRows, Goto, Written, MergedRows
<1>16. ASSUME NEW p \in Procs, VisitedAll(p) PROVE Progressing'
  BY <1>16 DEF VisitedAll, Goto
<1>17. ASSUME NEW p \in Procs, PurgeRecordsLast(p) PROVE Progressing'
  BY <1>17 DEF PurgeRecordsLast, DropRecords, Return, Goto
<1>18. ASSUME NEW p \in Procs, NotDue(p) PROVE Progressing'
  BY <1>18 DEF NotDue, Pending
<1>19. ASSUME NEW p \in Procs, Compact(p) PROVE Progressing'
  BY <1>19 DEF Compact, Pending, Goto
<1>20. ASSUME NEW p \in Procs, Prune(p) PROVE Progressing'
  BY <1>20 DEF Prune, Goto
<1>21. ASSUME NEW p \in Procs, CompactFails(p) PROVE Progressing'
  BY <1>21 DEF CompactFails, Fault, Pending
<1>22. ASSUME NEW p \in Procs, PruneFails(p) PROVE Progressing'
  BY <1>22 DEF PruneFails, Fault, Goto
<1>23. ASSUME NEW p \in Procs, Finish(p) PROVE Progressing'
  BY <1>23 DEF Finish, Return, Goto
<1>24. ASSUME NEW p \in Procs, PurgeGoesOn(p) PROVE Progressing'
  BY <1>24 DEF PurgeGoesOn, Goto
<1>25. ASSUME NEW p \in Procs, Crash(p) PROVE Progressing'
  BY <1>25 DEF Crash, Fault, Return, Goto
<1>26. QED
  BY <1>1, <1>2, <1>3, <1>4, <1>5, <1>6, <1>7, <1>8, <1>9, <1>10, <1>11, <1>12, <1>13, <1>14, <1>15, <1>16, <1>17, <1>18, <1>19, <1>20, <1>21, <1>22, <1>23, <1>24, <1>25 DEF Next

\* A purge keeps account of the chunks it takes vectors from.
LEMMA WithdrawStep ==
  ASSUME TypeOK, Working, Progressing, Withdrawing, [Next]_vars
  PROVE  Withdrawing'
<1> USE VectorAssumption DEF TypeOK, Working, Steps, Offering, Versions, Pair, PairsOf, NoBase, records, lance, call, ghost, bound, BatchOf, Withdrawing, Progressing
<1>1. CASE UNCHANGED vars
  BY <1>1 DEF vars
<1>2. ASSUME NEW p \in Procs, EmptyCall(p) PROVE Withdrawing'
  BY <1>2 DEF EmptyCall, vars, records, lance, call, ghost, bound
<1>3. ASSUME NEW p \in Procs, Upsert(p) PROVE Withdrawing'
  BY <1>3 DEF Upsert, Begin, DropRecords, Goto
<1>4. ASSUME NEW p \in Procs, OpenTable(p) PROVE Withdrawing'
  BY <1>4 DEF OpenTable, Goto
<1>5. ASSUME NEW p \in Procs, CreateTable(p) PROVE Withdrawing'
  BY <1>5 DEF CreateTable, Goto
<1>6. ASSUME NEW p \in Procs, CreateRaced(p) PROVE Withdrawing'
  BY <1>6 DEF CreateRaced, Return, Goto
<1>7. ASSUME NEW p \in Procs, StagePending(p) PROVE Withdrawing'
  BY <1>7 DEF StagePending, Goto, BatchOf
<1>8. ASSUME NEW p \in Procs, BeginMerge(p) PROVE Withdrawing'
  BY <1>8 DEF BeginMerge, Goto
<1>9. ASSUME NEW p \in Procs, CommitMerge(p) PROVE Withdrawing'
  BY <1>9 DEF CommitMerge, Goto, Written, MergedRows
<1>10. ASSUME NEW p \in Procs, Conflict(p) PROVE Withdrawing'
  BY <1>10 DEF Conflict, Fault, Return, Goto
<1>11. ASSUME NEW p \in Procs, MarkCommitted(p) PROVE Withdrawing'
  BY <1>11 DEF MarkCommitted, Goto, BatchOf
<1>12. ASSUME NEW p \in Procs, PurgeRecordsFirst(p) PROVE Withdrawing'
  BY <1>12 DEF PurgeRecordsFirst, Begin, DropRecords, Goto
<1>13. ASSUME NEW p \in Procs, PurgeVectorsFirst(p) PROVE Withdrawing'
  BY <1>13 DEF PurgeVectorsFirst, Begin, Goto
<1>14. ASSUME NEW p \in Procs, VisitTable(p) PROVE Withdrawing'
  BY <1>14 DEF VisitTable, Goto
<1>15. ASSUME NEW p \in Procs, DeleteRows(p) PROVE Withdrawing'
  BY <1>15 DEF DeleteRows, Goto, Written, MergedRows
<1>16. ASSUME NEW p \in Procs, VisitedAll(p) PROVE Withdrawing'
  BY <1>16 DEF VisitedAll, Goto
<1>17. ASSUME NEW p \in Procs, PurgeRecordsLast(p) PROVE Withdrawing'
  BY <1>17 DEF PurgeRecordsLast, DropRecords, Return, Goto
<1>18. ASSUME NEW p \in Procs, NotDue(p) PROVE Withdrawing'
  BY <1>18 DEF NotDue, Pending
<1>19. ASSUME NEW p \in Procs, Compact(p) PROVE Withdrawing'
  BY <1>19 DEF Compact, Pending, Goto
<1>20. ASSUME NEW p \in Procs, Prune(p) PROVE Withdrawing'
  BY <1>20 DEF Prune, Goto
<1>21. ASSUME NEW p \in Procs, CompactFails(p) PROVE Withdrawing'
  BY <1>21 DEF CompactFails, Fault, Pending
<1>22. ASSUME NEW p \in Procs, PruneFails(p) PROVE Withdrawing'
  BY <1>22 DEF PruneFails, Fault, Goto
<1>23. ASSUME NEW p \in Procs, Finish(p) PROVE Withdrawing'
  BY <1>23 DEF Finish, Return, Goto
<1>24. ASSUME NEW p \in Procs, PurgeGoesOn(p) PROVE Withdrawing'
  BY <1>24 DEF PurgeGoesOn, Goto
<1>25. ASSUME NEW p \in Procs, Crash(p) PROVE Withdrawing'
  BY <1>25 DEF Crash, Fault, Return, Goto
<1>26. QED
  BY <1>1, <1>2, <1>3, <1>4, <1>5, <1>6, <1>7, <1>8, <1>9, <1>10, <1>11, <1>12, <1>13, <1>14, <1>15, <1>16, <1>17, <1>18, <1>19, <1>20, <1>21, <1>22, <1>23, <1>24, <1>25 DEF Next

\* No step separates a committed record from its row without saying so.
LEMMA IndexedStep ==
  ASSUME TypeOK, Working, Progressing, Withdrawing, CommittedAreIndexed, [Next]_vars
  PROVE  CommittedAreIndexed'
<1> USE VectorAssumption DEF TypeOK, Working, Steps, Offering, Versions, Pair, PairsOf, NoBase, records, lance, call, ghost, bound, BatchOf, Withdrawing, Progressing, CommittedAreIndexed, HasRow
<1>1. CASE UNCHANGED vars
  BY <1>1 DEF vars
<1>2. ASSUME NEW p \in Procs, EmptyCall(p) PROVE CommittedAreIndexed'
  BY <1>2 DEF EmptyCall, vars, records, lance, call, ghost, bound
<1>3. ASSUME NEW p \in Procs, Upsert(p) PROVE CommittedAreIndexed'
  BY <1>3 DEF Upsert, Begin, DropRecords, Goto
<1>4. ASSUME NEW p \in Procs, OpenTable(p) PROVE CommittedAreIndexed'
  BY <1>4 DEF OpenTable, Goto
<1>5. ASSUME NEW p \in Procs, CreateTable(p) PROVE CommittedAreIndexed'
  BY <1>5 DEF CreateTable, Goto
<1>6. ASSUME NEW p \in Procs, CreateRaced(p) PROVE CommittedAreIndexed'
  BY <1>6 DEF CreateRaced, Return, Goto
<1>7. ASSUME NEW p \in Procs, StagePending(p) PROVE CommittedAreIndexed'
  BY <1>7 DEF StagePending, Goto, BatchOf
<1>8. ASSUME NEW p \in Procs, BeginMerge(p) PROVE CommittedAreIndexed'
  BY <1>8 DEF BeginMerge, Goto
<1>9. ASSUME NEW p \in Procs, CommitMerge(p) PROVE CommittedAreIndexed'
  BY <1>9 DEF CommitMerge, Goto, Written, MergedRows
<1>10. ASSUME NEW p \in Procs, Conflict(p) PROVE CommittedAreIndexed'
  BY <1>10 DEF Conflict, Fault, Return, Goto
<1>11. ASSUME NEW p \in Procs, MarkCommitted(p) PROVE CommittedAreIndexed'
  BY <1>11 DEF MarkCommitted, Goto, BatchOf
<1>12. ASSUME NEW p \in Procs, PurgeRecordsFirst(p) PROVE CommittedAreIndexed'
  BY <1>12 DEF PurgeRecordsFirst, Begin, DropRecords, Goto
<1>13. ASSUME NEW p \in Procs, PurgeVectorsFirst(p) PROVE CommittedAreIndexed'
  BY <1>13 DEF PurgeVectorsFirst, Begin, Goto
<1>14. ASSUME NEW p \in Procs, VisitTable(p) PROVE CommittedAreIndexed'
  BY <1>14 DEF VisitTable, Goto
<1>15. ASSUME NEW p \in Procs, DeleteRows(p) PROVE CommittedAreIndexed'
  BY <1>15 DEF DeleteRows, Goto, Written, MergedRows
<1>16. ASSUME NEW p \in Procs, VisitedAll(p) PROVE CommittedAreIndexed'
  BY <1>16 DEF VisitedAll, Goto
<1>17. ASSUME NEW p \in Procs, PurgeRecordsLast(p) PROVE CommittedAreIndexed'
  BY <1>17 DEF PurgeRecordsLast, DropRecords, Return, Goto
<1>18. ASSUME NEW p \in Procs, NotDue(p) PROVE CommittedAreIndexed'
  BY <1>18 DEF NotDue, Pending
<1>19. ASSUME NEW p \in Procs, Compact(p) PROVE CommittedAreIndexed'
  BY <1>19 DEF Compact, Pending, Goto
<1>20. ASSUME NEW p \in Procs, Prune(p) PROVE CommittedAreIndexed'
  BY <1>20 DEF Prune, Goto
<1>21. ASSUME NEW p \in Procs, CompactFails(p) PROVE CommittedAreIndexed'
  BY <1>21 DEF CompactFails, Fault, Pending
<1>22. ASSUME NEW p \in Procs, PruneFails(p) PROVE CommittedAreIndexed'
  BY <1>22 DEF PruneFails, Fault, Goto
<1>23. ASSUME NEW p \in Procs, Finish(p) PROVE CommittedAreIndexed'
  BY <1>23 DEF Finish, Return, Goto
<1>24. ASSUME NEW p \in Procs, PurgeGoesOn(p) PROVE CommittedAreIndexed'
  BY <1>24 DEF PurgeGoesOn, Goto
<1>25. ASSUME NEW p \in Procs, Crash(p) PROVE CommittedAreIndexed'
  BY <1>25 DEF Crash, Fault, Return, Goto
<1>26. QED
  BY <1>1, <1>2, <1>3, <1>4, <1>5, <1>6, <1>7, <1>8, <1>9, <1>10, <1>11, <1>12, <1>13, <1>14, <1>15, <1>16, <1>17, <1>18, <1>19, <1>20, <1>21, <1>22, <1>23, <1>24, <1>25 DEF Next

LEMMA IInvInit == Init => IInv
<1> SUFFICES ASSUME Init PROVE IInv
  OBVIOUS
<1>1. TypeOK
  BY VectorAssumption DEF Init, TypeOK, Steps, NoBase
<1>2. Working /\ Progressing /\ Withdrawing /\ CommittedAreIndexed
  BY DEF Init, Working, Progressing, Withdrawing, CommittedAreIndexed, Offering
<1>3. QED
  BY <1>1, <1>2 DEF IInv

LEMMA IInvStep == IInv /\ [Next]_vars => IInv'
  BY TypeStep, WorkingStep, ProgressStep, WithdrawStep, IndexedStep DEF IInv

\* The inductive invariant holds throughout.
THEOREM VectorInvariance == Spec => []IInv
  BY IInvInit, IInvStep, PTL DEF Spec

\* Every variable of the vector store stays of its kind.
THEOREM VectorTypeCorrect == Spec => []TypeOK
<1>1. IInv => TypeOK
  BY DEF IInv
<1>2. QED
  BY <1>1, VectorInvariance, PTL

\* Committed records have their vectors, for any number of processes, tables, model
\* versions and chunks, and through any number of crashes and conflicts.
THEOREM CommittedStayIndexed == Spec => []CommittedAreIndexed
<1>1. IInv => CommittedAreIndexed
  BY DEF IInv
<1>2. QED
  BY <1>1, VectorInvariance, PTL

-----------------------------------------------------------------------------
(* The refinement *)

\* The store begins as an empty index with nothing on offer.
LEMMA RefinesInit == Init => Index!Init
  BY DEF Init, Index!Init, Indexed, OnOffer, Offering

\* A call that returns gives up what it had on offer, if anything.
LEMMA ReturnAbandons ==
  ASSUME TypeOK, NEW p \in Procs, Return(p), UNCHANGED <<records, lance>>
  PROVE  Index!Abandon(p)
<1> USE DEF TypeOK, Return, Goto, records, lance
<1>1. Indexed' = Indexed
  BY DEF Indexed, HasRow
<1>2. pc'[p] \notin Offering
  BY DEF Offering
<1>3. \A q \in Procs \ {p} : pc'[q] = pc[q] /\ batch'[q] = batch[q] /\ emb'[q] = emb[q]
  OBVIOUS
<1>4. OnOffer' = [OnOffer EXCEPT ![p] = None]
  BY <1>2, <1>3 DEF OnOffer
<1>5. QED
  BY <1>1, <1>4 DEF Index!Abandon

\* Every step is an operation of the index, or changes nothing of it.
LEMMA RefinesStep ==
  ASSUME IInv, [Next]_vars
  PROVE  [Index!Next]_(Index!vars)
<1> USE VectorAssumption DEF IInv, TypeOK, Working, Steps, Offering, Versions, Pair, PairsOf, BatchOf, NoBase, records, lance, call, ghost, bound, Progressing, Withdrawing, HasRow, Indexed, OnOffer, Index!vars
<1>1. CASE UNCHANGED vars
  BY <1>1 DEF vars
<1>2. ASSUME NEW p \in Procs, EmptyCall(p) PROVE [Index!Next]_(Index!vars)
  <2>1. UNCHANGED Index!vars
    BY <1>2 DEF EmptyCall, vars, records, lance, call, ghost, bound
  <2>. QED
    BY <2>1
<1>3. ASSUME NEW p \in Procs, Upsert(p) PROVE [Index!Next]_(Index!vars)
  <2>1. PICK cs \in SUBSET Own[p] \ {{}}, e \in Embedders :
          /\ DropRecords(cs)
          /\ batch' = [batch EXCEPT ![p] = cs] /\ emb' = [emb EXCEPT ![p] = e]
    BY <1>3 DEF Upsert
  <2>2. pc[p] = "idle" /\ pc' = [pc EXCEPT ![p] = "open"] /\ UNCHANGED <<lance, pruned>>
    BY <1>3 DEF Upsert, Begin, Goto
  <2>3. OnOffer' = [OnOffer EXCEPT ![p] = [batch |-> cs, emb |-> e]]
    BY <2>1, <2>2
  <2>4. OnOffer[p] = None /\ OnOffer'[p] = [batch |-> cs, emb |-> e]
    BY <2>1, <2>2
  <2>5. Indexed' = Indexed \ PairsOf(cs)
    BY <2>1, <2>2 DEF DropRecords
  <2>6. Index!Offer(p)
    BY <2>1, <2>2, <2>3, <2>4, <2>5 DEF Index!Offer, Index!Offers, Index!PairsOf, Index!Pair
  <2>. QED
    BY <2>6 DEF Index!Next
<1>4. ASSUME NEW p \in Procs, OpenTable(p) PROVE [Index!Next]_(Index!vars)
  <2>1. UNCHANGED Index!vars
    BY <1>4 DEF OpenTable, Goto
  <2>. QED
    BY <2>1
<1>5. ASSUME NEW p \in Procs, CreateTable(p) PROVE [Index!Next]_(Index!vars)
  <2>1. UNCHANGED Index!vars
    BY <1>5 DEF CreateTable, Goto
  <2>. QED
    BY <2>1
<1>6. ASSUME NEW p \in Procs, CreateRaced(p) PROVE [Index!Next]_(Index!vars)
  <2>1. Return(p) /\ UNCHANGED <<records, lance>>
    BY <1>6 DEF CreateRaced
  <2>. QED
    BY <2>1, ReturnAbandons DEF Index!Next
<1>7. ASSUME NEW p \in Procs, StagePending(p) PROVE [Index!Next]_(Index!vars)
  <2>1. UNCHANGED Index!vars
    BY <1>7 DEF StagePending, Goto, BatchOf
  <2>. QED
    BY <2>1
<1>8. ASSUME NEW p \in Procs, BeginMerge(p) PROVE [Index!Next]_(Index!vars)
  <2>1. UNCHANGED Index!vars
    BY <1>8 DEF BeginMerge, Goto
  <2>. QED
    BY <2>1
<1>9. ASSUME NEW p \in Procs, CommitMerge(p) PROVE [Index!Next]_(Index!vars)
  <2>1. UNCHANGED Index!vars
    BY <1>9 DEF CommitMerge, Goto, Written, MergedRows
  <2>. QED
    BY <2>1
<1>10. ASSUME NEW p \in Procs, Conflict(p) PROVE [Index!Next]_(Index!vars)
  <2>1. Return(p) /\ UNCHANGED <<records, lance>>
    BY <1>10 DEF Conflict
  <2>. QED
    BY <2>1, ReturnAbandons DEF Index!Next
<1>11. ASSUME NEW p \in Procs, MarkCommitted(p) PROVE [Index!Next]_(Index!vars)
  <2>1. /\ pc[p] = "mark" /\ pc' = [pc EXCEPT ![p] = "compact"]
        /\ committed' = committed \cup BatchOf(p)
        /\ pruned' = pruned \ {p} /\ UNCHANGED <<lance, batch, emb>>
    BY <1>11 DEF MarkCommitted, Goto
  <2>2. OnOffer' = [OnOffer EXCEPT ![p] = None]
    BY <2>1
  <2>3. OnOffer[p] = [batch |-> batch[p], emb |-> emb[p]] /\ OnOffer[p] # None
    BY <2>1
  <2>4. Index!Offered(OnOffer[p]) = BatchOf(p)
    BY <2>3 DEF Index!Offered, Index!Pair
  <2>5. Indexed \subseteq Indexed' /\ Indexed' \subseteq Indexed \cup BatchOf(p)
    BY <2>1
  <2>6. p \notin pruned => BatchOf(p) \subseteq Indexed'
    BY <2>1
  <2>7. Index!Publish(p)
    BY <2>1, <2>2, <2>3, <2>4, <2>5, <2>6 DEF Index!Publish
  <2>. QED
    BY <2>7 DEF Index!Next
<1>12. ASSUME NEW p \in Procs, PurgeRecordsFirst(p) PROVE [Index!Next]_(Index!vars)
  <2>1. Index!Withdraw(p)
    BY <1>12 DEF PurgeRecordsFirst, Begin, DropRecords, Goto, Index!Withdraw, Index!PairsOf, Index!Pair
  <2>. QED
    BY <2>1 DEF Index!Next
<1>13. ASSUME NEW p \in Procs, PurgeVectorsFirst(p) PROVE [Index!Next]_(Index!vars)
  <2>1. UNCHANGED Index!vars
    BY <1>13 DEF PurgeVectorsFirst, Begin, Goto
  <2>. QED
    BY <2>1
<1>14. ASSUME NEW p \in Procs, VisitTable(p) PROVE [Index!Next]_(Index!vars)
  <2>1. UNCHANGED Index!vars
    BY <1>14 DEF VisitTable, Goto
  <2>. QED
    BY <2>1
<1>15. ASSUME NEW p \in Procs, DeleteRows(p) PROVE [Index!Next]_(Index!vars)
  <2>1. Index!Withdraw(p)
    BY <1>15 DEF DeleteRows, Goto, Written, MergedRows, Index!Withdraw, Index!PairsOf, Index!Pair
  <2>. QED
    BY <2>1 DEF Index!Next
<1>16. ASSUME NEW p \in Procs, VisitedAll(p) PROVE [Index!Next]_(Index!vars)
  <2>1. UNCHANGED Index!vars
    BY <1>16 DEF VisitedAll, Goto
  <2>. QED
    BY <2>1
<1>17. ASSUME NEW p \in Procs, PurgeRecordsLast(p) PROVE [Index!Next]_(Index!vars)
  <2>1. /\ pc[p] = "drop" /\ Return(p) /\ UNCHANGED lance
        /\ committed' = committed \ PairsOf(batch[p])
    BY <1>17 DEF PurgeRecordsLast, DropRecords
  <2>2. UNCHANGED OnOffer
    BY <2>1 DEF Return, Goto
  <2>3. Indexed' = Indexed \ PairsOf(batch[p])
    BY <2>1
  <2>4. pruned' = pruned
    BY <2>1 DEF Return
  <2>5. Index!Withdraw(p)
    BY <2>1, <2>2, <2>3, <2>4 DEF Index!Withdraw, Index!PairsOf, Index!Pair
  <2>. QED
    BY <2>5 DEF Index!Next
<1>18. ASSUME NEW p \in Procs, NotDue(p) PROVE [Index!Next]_(Index!vars)
  <2>1. UNCHANGED Index!vars
    BY <1>18 DEF NotDue, Pending
  <2>. QED
    BY <2>1
<1>19. ASSUME NEW p \in Procs, Compact(p) PROVE [Index!Next]_(Index!vars)
  <2>1. UNCHANGED Index!vars
    BY <1>19 DEF Compact, Pending, Goto
  <2>. QED
    BY <2>1
<1>20. ASSUME NEW p \in Procs, Prune(p) PROVE [Index!Next]_(Index!vars)
  <2>1. Index!Reclaim(p)
    BY <1>20 DEF Prune, Goto, Index!Reclaim
  <2>. QED
    BY <2>1 DEF Index!Next
<1>21. ASSUME NEW p \in Procs, CompactFails(p) PROVE [Index!Next]_(Index!vars)
  <2>1. UNCHANGED Index!vars
    BY <1>21 DEF CompactFails, Fault, Pending
  <2>. QED
    BY <2>1
<1>22. ASSUME NEW p \in Procs, PruneFails(p) PROVE [Index!Next]_(Index!vars)
  <2>1. UNCHANGED Index!vars
    BY <1>22 DEF PruneFails, Fault, Goto
  <2>. QED
    BY <2>1
<1>23. ASSUME NEW p \in Procs, Finish(p) PROVE [Index!Next]_(Index!vars)
  <2>1. Return(p) /\ UNCHANGED <<records, lance>>
    BY <1>23 DEF Finish
  <2>. QED
    BY <2>1, ReturnAbandons DEF Index!Next
<1>24. ASSUME NEW p \in Procs, PurgeGoesOn(p) PROVE [Index!Next]_(Index!vars)
  <2>1. UNCHANGED Index!vars
    BY <1>24 DEF PurgeGoesOn, Goto
  <2>. QED
    BY <2>1
<1>25. ASSUME NEW p \in Procs, Crash(p) PROVE [Index!Next]_(Index!vars)
  <2>1. Return(p) /\ UNCHANGED <<records, lance>>
    BY <1>25 DEF Crash
  <2>. QED
    BY <2>1, ReturnAbandons DEF Index!Next
<1>26. QED
  BY <1>1, <1>2, <1>3, <1>4, <1>5, <1>6, <1>7, <1>8, <1>9, <1>10, <1>11, <1>12, <1>13, <1>14, <1>15, <1>16, <1>17, <1>18, <1>19, <1>20, <1>21, <1>22, <1>23, <1>24, <1>25 DEF Next

\* LanceVectorStore implements VectorIndex.
THEOREM StoreImplementsIndex == Spec => ImplementsIndex
<1>1. IInv /\ [Next]_vars => [Index!Next]_(Index!vars)
  BY RefinesStep
<1>2. QED
  BY <1>1, RefinesInit, VectorInvariance, PTL DEF Spec, ImplementsIndex, Index!Spec

-----------------------------------------------------------------------------
(* Searches: a row is in a table that exists. *)

RowsInTables == \A t \in Tables, c \in Chunks : vec[t][c] # None => Exists(t)

LEMMA RowsStep ==
  ASSUME TypeOK, Working, RowsInTables, [Next]_vars
  PROVE  RowsInTables'
<1> USE DEF TypeOK, Working, Offering, RowsInTables, Exists, records, lance, call, ghost, bound
<1>1. CASE UNCHANGED vars
  BY <1>1 DEF vars
<1>2. ASSUME NEW p \in Procs, EmptyCall(p) PROVE RowsInTables'
  BY <1>2 DEF EmptyCall, vars, records, lance, call, ghost, bound
<1>3. ASSUME NEW p \in Procs, Upsert(p) PROVE RowsInTables'
  BY <1>3 DEF Upsert, Begin, DropRecords, Goto
<1>4. ASSUME NEW p \in Procs, OpenTable(p) PROVE RowsInTables'
  BY <1>4 DEF OpenTable, Goto
<1>5. ASSUME NEW p \in Procs, CreateTable(p) PROVE RowsInTables'
  BY <1>5 DEF CreateTable, Goto
<1>6. ASSUME NEW p \in Procs, CreateRaced(p) PROVE RowsInTables'
  BY <1>6 DEF CreateRaced, Return, Goto
<1>7. ASSUME NEW p \in Procs, StagePending(p) PROVE RowsInTables'
  BY <1>7 DEF StagePending, Goto
<1>8. ASSUME NEW p \in Procs, BeginMerge(p) PROVE RowsInTables'
  BY <1>8 DEF BeginMerge, Goto
<1>9. ASSUME NEW p \in Procs, CommitMerge(p) PROVE RowsInTables'
  BY <1>9 DEF CommitMerge, Goto, Written, MergedRows
<1>10. ASSUME NEW p \in Procs, Conflict(p) PROVE RowsInTables'
  BY <1>10 DEF Conflict, Fault, Return, Goto
<1>11. ASSUME NEW p \in Procs, MarkCommitted(p) PROVE RowsInTables'
  BY <1>11 DEF MarkCommitted, Goto
<1>12. ASSUME NEW p \in Procs, PurgeRecordsFirst(p) PROVE RowsInTables'
  BY <1>12 DEF PurgeRecordsFirst, Begin, DropRecords, Goto
<1>13. ASSUME NEW p \in Procs, PurgeVectorsFirst(p) PROVE RowsInTables'
  BY <1>13 DEF PurgeVectorsFirst, Begin, Goto
<1>14. ASSUME NEW p \in Procs, VisitTable(p) PROVE RowsInTables'
  BY <1>14 DEF VisitTable, Goto
<1>15. ASSUME NEW p \in Procs, DeleteRows(p) PROVE RowsInTables'
  BY <1>15 DEF DeleteRows, Goto, Written, MergedRows
<1>16. ASSUME NEW p \in Procs, VisitedAll(p) PROVE RowsInTables'
  BY <1>16 DEF VisitedAll, Goto
<1>17. ASSUME NEW p \in Procs, PurgeRecordsLast(p) PROVE RowsInTables'
  BY <1>17 DEF PurgeRecordsLast, DropRecords, Return, Goto
<1>18. ASSUME NEW p \in Procs, NotDue(p) PROVE RowsInTables'
  BY <1>18 DEF NotDue, Pending
<1>19. ASSUME NEW p \in Procs, Compact(p) PROVE RowsInTables'
  BY <1>19 DEF Compact, Pending, Goto
<1>20. ASSUME NEW p \in Procs, Prune(p) PROVE RowsInTables'
  BY <1>20 DEF Prune, Goto
<1>21. ASSUME NEW p \in Procs, CompactFails(p) PROVE RowsInTables'
  BY <1>21 DEF CompactFails, Fault, Pending
<1>22. ASSUME NEW p \in Procs, PruneFails(p) PROVE RowsInTables'
  BY <1>22 DEF PruneFails, Fault, Goto
<1>23. ASSUME NEW p \in Procs, Finish(p) PROVE RowsInTables'
  BY <1>23 DEF Finish, Return, Goto
<1>24. ASSUME NEW p \in Procs, PurgeGoesOn(p) PROVE RowsInTables'
  BY <1>24 DEF PurgeGoesOn, Goto
<1>25. ASSUME NEW p \in Procs, Crash(p) PROVE RowsInTables'
  BY <1>25 DEF Crash, Fault, Return, Goto
<1>26. QED
  BY <1>1, <1>2, <1>3, <1>4, <1>5, <1>6, <1>7, <1>8, <1>9, <1>10, <1>11, <1>12, <1>13, <1>14, <1>15, <1>16, <1>17, <1>18, <1>19, <1>20, <1>21, <1>22, <1>23, <1>24, <1>25 DEF Next

\* A search finds what its own table holds, whatever other tables and processes there are.
THEOREM IndexedStayFound == Spec => []IndexedAreFound
<1>1. TypeOK /\ RowsInTables => IndexedAreFound
  BY VectorAssumption
     DEF TypeOK, RowsInTables, IndexedAreFound, SearchHits, FindMatchingTable, HasRow, Pair, Versions
<1>2. Init => RowsInTables
  BY DEF Init, RowsInTables
<1>3. IInv /\ RowsInTables /\ [Next]_vars => RowsInTables'
  BY RowsStep DEF IInv
<1>4. IInv => TypeOK
  BY DEF IInv
<1>5. QED
  BY <1>1, <1>2, <1>3, <1>4, VectorInvariance, PTL DEF Spec

-----------------------------------------------------------------------------
(* Compaction: division, and who is to compact a table. *)

LEMMA QuotientRemainder ==
  ASSUME NEW v \in Nat, NEW n \in Nat \ {0}
  PROVE  v \div n \in Nat /\ v % n \in Nat /\ v % n \in 0 .. n - 1 /\ v = (n * (v \div n)) + (v % n)
OBVIOUS

LEMMA QuotientIsUnique ==
  ASSUME NEW n \in Nat \ {0}, NEW q \in Nat, NEW r \in 0 .. n - 1, NEW k \in Nat, NEW s \in 0 .. n - 1,
         (n * q) + r = (n * k) + s
  PROVE  q = k /\ r = s
<1>1. ASSUME q < k PROVE FALSE
  <2>1. n * k >= n * (q + 1)
    BY <1>1
  <2>2. n * (q + 1) = (n * q) + n
    OBVIOUS
  <2>3. QED
    BY <2>1, <2>2
<1>2. ASSUME k < q PROVE FALSE
  <2>1. n * q >= n * (k + 1)
    BY <1>2
  <2>2. n * (k + 1) = (n * k) + n
    OBVIOUS
  <2>3. QED
    BY <2>1, <2>2
<1>3. QED
  BY <1>1, <1>2

LEMMA QuotientGrows ==
  ASSUME NEW v \in Nat, NEW b \in Nat, b <= v, NEW n \in Nat \ {0}
  PROVE  b \div n <= v \div n
<1> DEFINE q == b \div n
<1> DEFINE k == v \div n
<1>1. /\ q \in Nat /\ b % n \in 0 .. n - 1 /\ b = (n * q) + (b % n)
      /\ k \in Nat /\ v % n \in 0 .. n - 1 /\ v = (n * k) + (v % n)
  BY QuotientRemainder
<1> HIDE DEF q, k
<1>2. ASSUME k < q PROVE FALSE
  <2>1. n * q >= n * (k + 1)
    BY <1>1, <1>2
  <2>2. n * (k + 1) = (n * k) + n
    BY <1>1
  <2>3. QED
    BY <1>1, <2>1, <2>2
<1>3. q <= k
  BY <1>1, <1>2
<1>4. QED
  BY <1>3 DEF q, k

\* One more commit adds to the remainder, or crosses a multiple.
LEMMA OneMore ==
  ASSUME NEW v \in Nat, NEW n \in Nat \ {0}
  PROVE  (v + 1) \div n > v \div n \/ (v + 1) % n = (v % n) + 1
<1> DEFINE q == v \div n
<1> DEFINE r == v % n
<1> DEFINE k == (v + 1) \div n
<1> DEFINE s == (v + 1) % n
<1>1. q \in Nat /\ r \in 0 .. n - 1 /\ v = (n * q) + r
  BY QuotientRemainder
<1>2. k \in Nat /\ s \in 0 .. n - 1 /\ v + 1 = (n * k) + s
  <2>1. v + 1 \in Nat
    OBVIOUS
  <2>2. QED
    BY <2>1, QuotientRemainder
<1> HIDE DEF q, r, k, s
<1>3. CASE r + 1 < n
  <2>1. (n * q) + (r + 1) = (n * k) + s /\ r + 1 \in 0 .. n - 1
    BY <1>1, <1>2, <1>3
  <2>2. r + 1 = s
    BY <2>1, <1>1, <1>2, QuotientIsUnique
  <2>3. QED
    BY <2>2 DEF r, s
<1>4. CASE r + 1 = n
  <2>1. n * (q + 1) = (n * q) + n
    BY <1>1
  <2>2. (n * (q + 1)) + 0 = (n * k) + s
    BY <1>1, <1>2, <1>4, <2>1
  <2>3. q + 1 = k
    BY <2>2, <1>1, <1>2, QuotientIsUnique
  <2>4. k > q
    BY <2>3, <1>1
  <2>5. QED
    BY <2>4 DEF q, k
<1>5. QED
  BY <1>1, <1>3, <1>4

\* A version a call has read of a table it is at: what was read is not newer than the
\* table, only calls that go on to compact keep it, and no table is visited twice.
BasesRead ==
  /\ \A p \in Procs, t \in Tables :
       /\ base[p][t] <= version[t]
       /\ t \in todo[p] => base[p][t] = 0 /\ version[t] > 0 /\ pc[p] \in {"visit", "delete"}
       /\ base[p][t] > 0 => pc[p] \in {"merge", "mark", "visit", "delete", "compact", "prune"}
  /\ \A p \in Procs :
       /\ pc[p] \in {"stage", "begin", "merge"} => Exists(emb[p].table)
       /\ pc[p] = "merge" => base[p][emb[p].table] > 0
       /\ pc[p] = "delete" => base[p][at[p]] > 0
  /\ \A t \in Tables : version[t] = 0 => frags[t] = 0

\* p has made commits to t, or met those of others, that it will compact.
Compacts(p, t) ==
  /\ pc[p] \in {"mark", "visit", "delete", "compact", "prune"}
  /\ base[p][t] > 0 /\ CrossedMultiple(base[p][t], version[t])

\* Commits not compacted are within the remainder of the version, or some process that
\* crossed the multiple has still to compact them.
FragmentsTracked ==
  ~disturbed =>
    \A t \in Tables : frags[t] <= version[t] % CompactEvery \/ \E p \in Procs : Compacts(p, t)

LEMMA BasesStep ==
  ASSUME TypeOK, Working, BasesRead, [Next]_vars
  PROVE  BasesRead'
<1> USE DEF TypeOK, Working, Offering, BasesRead, Exists, NoBase, records, lance, call, ghost, bound
<1>1. CASE UNCHANGED vars
  BY <1>1 DEF vars
<1>2. ASSUME NEW p \in Procs, EmptyCall(p) PROVE BasesRead'
  BY <1>2 DEF EmptyCall, vars, records, lance, call, ghost, bound
<1>3. ASSUME NEW p \in Procs, Upsert(p) PROVE BasesRead'
  BY <1>3 DEF Upsert, Begin, DropRecords, Goto
<1>4. ASSUME NEW p \in Procs, OpenTable(p) PROVE BasesRead'
  BY <1>4 DEF OpenTable, Goto
<1>5. ASSUME NEW p \in Procs, CreateTable(p) PROVE BasesRead'
  <2>1. emb[p] \in Embedders /\ emb[p].table \in Tables
    BY <1>5, VectorAssumption DEF CreateTable
  <2>2. QED
    BY <1>5, <2>1 DEF CreateTable, Goto
<1>6. ASSUME NEW p \in Procs, CreateRaced(p) PROVE BasesRead'
  BY <1>6 DEF CreateRaced, Return, Goto
<1>7. ASSUME NEW p \in Procs, StagePending(p) PROVE BasesRead'
  BY <1>7 DEF StagePending, Goto
<1>8. ASSUME NEW p \in Procs, BeginMerge(p) PROVE BasesRead'
  <2>1. emb[p] \in Embedders /\ emb[p].table \in Tables
    BY <1>8, VectorAssumption DEF BeginMerge
  <2>2. QED
    BY <1>8, <2>1 DEF BeginMerge, Goto
<1>9. ASSUME NEW p \in Procs, CommitMerge(p) PROVE BasesRead'
  BY <1>9 DEF CommitMerge, Goto, Written, MergedRows
<1>10. ASSUME NEW p \in Procs, Conflict(p) PROVE BasesRead'
  BY <1>10 DEF Conflict, Fault, Return, Goto
<1>11. ASSUME NEW p \in Procs, MarkCommitted(p) PROVE BasesRead'
  BY <1>11 DEF MarkCommitted, Goto
<1>12. ASSUME NEW p \in Procs, PurgeRecordsFirst(p) PROVE BasesRead'
  BY <1>12 DEF PurgeRecordsFirst, Begin, DropRecords, Goto
<1>13. ASSUME NEW p \in Procs, PurgeVectorsFirst(p) PROVE BasesRead'
  BY <1>13 DEF PurgeVectorsFirst, Begin, Goto
<1>14. ASSUME NEW p \in Procs, VisitTable(p) PROVE BasesRead'
  BY <1>14 DEF VisitTable, Goto
<1>15. ASSUME NEW p \in Procs, DeleteRows(p) PROVE BasesRead'
  BY <1>15 DEF DeleteRows, Goto, Written, MergedRows
<1>16. ASSUME NEW p \in Procs, VisitedAll(p) PROVE BasesRead'
  BY <1>16 DEF VisitedAll, Goto
<1>17. ASSUME NEW p \in Procs, PurgeRecordsLast(p) PROVE BasesRead'
  BY <1>17 DEF PurgeRecordsLast, DropRecords, Return, Goto
<1>18. ASSUME NEW p \in Procs, NotDue(p) PROVE BasesRead'
  BY <1>18 DEF NotDue, Pending
<1>19. ASSUME NEW p \in Procs, Compact(p) PROVE BasesRead'
  BY <1>19 DEF Compact, Pending, Goto
<1>20. ASSUME NEW p \in Procs, Prune(p) PROVE BasesRead'
  BY <1>20 DEF Prune, Goto
<1>21. ASSUME NEW p \in Procs, CompactFails(p) PROVE BasesRead'
  BY <1>21 DEF CompactFails, Fault, Pending
<1>22. ASSUME NEW p \in Procs, PruneFails(p) PROVE BasesRead'
  BY <1>22 DEF PruneFails, Fault, Goto
<1>23. ASSUME NEW p \in Procs, Finish(p) PROVE BasesRead'
  BY <1>23 DEF Finish, Return, Goto
<1>24. ASSUME NEW p \in Procs, PurgeGoesOn(p) PROVE BasesRead'
  BY <1>24 DEF PurgeGoesOn, Goto
<1>25. ASSUME NEW p \in Procs, Crash(p) PROVE BasesRead'
  BY <1>25 DEF Crash, Fault, Return, Goto
<1>26. QED
  BY <1>1, <1>2, <1>3, <1>4, <1>5, <1>6, <1>7, <1>8, <1>9, <1>10, <1>11, <1>12, <1>13, <1>14, <1>15, <1>16, <1>17, <1>18, <1>19, <1>20, <1>21, <1>22, <1>23, <1>24, <1>25 DEF Next

\* A process that is to compact a table stays so while the table only gets newer.
LEMMA StillCompacts ==
  ASSUME TypeOK, TypeOK', NEW p \in Procs, NEW t \in Tables, Compacts(p, t),
         pc'[p] \in {"mark", "visit", "delete", "compact", "prune"},
         base'[p][t] = base[p][t], version[t] <= version'[t]
  PROVE  Compacts(p, t)'
<1>1. version[t] \in Nat /\ version'[t] \in Nat /\ CompactEvery \in Nat \ {0} /\ base[p][t] \in Nat
  BY VectorAssumption DEF TypeOK
<1>2. version[t] \div CompactEvery <= version'[t] \div CompactEvery
  BY <1>1, QuotientGrows
<1>3. /\ version[t] \div CompactEvery \in Nat /\ version'[t] \div CompactEvery \in Nat
      /\ base[p][t] \div CompactEvery \in Nat
  BY <1>1, QuotientRemainder
<1>4. QED
  BY <1>2, <1>3 DEF Compacts, CrossedMultiple

LEMMA FragmentsStep ==
  ASSUME TypeOK, Working, BasesRead, FragmentsTracked, [Next]_vars
  PROVE  FragmentsTracked'
<1> USE VectorAssumption DEF TypeOK, Working, Offering, BasesRead, FragmentsTracked, Compacts, CrossedMultiple, Exists, NoBase,
        records, lance, call, ghost, bound
<1> DEFINE Tracked(t) == frags[t] <= version[t] % CompactEvery \/ \E q \in Procs : Compacts(q, t)
<1>0. TypeOK'
  BY TypeStep
<1>1. CASE UNCHANGED vars
  BY <1>1 DEF vars
<1>2. ASSUME NEW p \in Procs, EmptyCall(p) PROVE FragmentsTracked'
  BY <1>2 DEF EmptyCall, vars, records, lance, call, ghost, bound
<1>3. ASSUME NEW p \in Procs, Upsert(p) PROVE FragmentsTracked'
  BY <1>3 DEF Upsert, Begin, DropRecords, Goto
<1>4. ASSUME NEW p \in Procs, OpenTable(p) PROVE FragmentsTracked'
  BY <1>4 DEF OpenTable, Goto
<1>5. ASSUME NEW p \in Procs, CreateTable(p) PROVE FragmentsTracked'
  <2> SUFFICES ASSUME ~disturbed', NEW t \in Tables PROVE Tracked(t)'
    OBVIOUS
  <2>1. ~disturbed /\ Tracked(t)
    BY <1>5 DEF CreateTable
  <2>2. emb[p] \in Embedders /\ emb[p].table \in Tables
    BY <1>5 DEF CreateTable
  <2>3. CASE t = emb[p].table
    <3>1. version'[t] = 1 /\ frags'[t] = 0
      BY <1>5, <2>2, <2>3 DEF CreateTable
    <3>2. version'[t] % CompactEvery \in Nat
      BY <3>1, QuotientRemainder
    <3>. QED
      BY <3>1, <3>2
  <2>4. CASE t # emb[p].table
    <3>1. version'[t] = version[t] /\ frags'[t] = frags[t] /\ base' = base
      BY <1>5, <2>2, <2>4 DEF CreateTable
    <3>2. \A q \in Procs : Compacts(q, t) => Compacts(q, t)'
      BY <1>5, <3>1 DEF CreateTable, Goto
    <3>. QED
      BY <2>1, <3>1, <3>2
  <2>5. QED
    BY <2>3, <2>4
<1>6. ASSUME NEW p \in Procs, CreateRaced(p) PROVE FragmentsTracked'
  BY <1>6 DEF CreateRaced, Return, Goto
<1>7. ASSUME NEW p \in Procs, StagePending(p) PROVE FragmentsTracked'
  BY <1>7 DEF StagePending, Goto
<1>8. ASSUME NEW p \in Procs, BeginMerge(p) PROVE FragmentsTracked'
  BY <1>8 DEF BeginMerge, Goto
<1>9. ASSUME NEW p \in Procs, CommitMerge(p) PROVE FragmentsTracked'
  <2> SUFFICES ASSUME ~disturbed', NEW t \in Tables PROVE Tracked(t)'
    OBVIOUS
  <2>1. ~disturbed /\ Tracked(t)
    BY <1>9 DEF CommitMerge
  <2>2. emb[p].table \in Tables /\ base[p][emb[p].table] > 0
    BY <1>9 DEF CommitMerge
  <2>3. CASE t = emb[p].table
    <3>1. version'[t] = version[t] + 1 /\ frags'[t] = frags[t] + 1 /\ base' = base
      BY <1>9, <2>2, <2>3 DEF CommitMerge, Written
    <3>2. version[t] \in Nat /\ base[p][t] \in Nat /\ base[p][t] <= version[t] /\ CompactEvery \in Nat \ {0}
      OBVIOUS
    <3>3. base[p][t] \div CompactEvery <= version[t] \div CompactEvery
      BY <3>2, QuotientGrows
    <3>4. /\ version[t] \div CompactEvery \in Nat /\ version'[t] \div CompactEvery \in Nat
          /\ base[p][t] \div CompactEvery \in Nat
          /\ version[t] % CompactEvery \in Nat /\ version'[t] % CompactEvery \in Nat
      <4>1. version'[t] \in Nat
        BY <3>1, <3>2
      <4>. QED
        BY <3>2, <4>1, QuotientRemainder
    <3>5. pc'[p] \in {"mark", "visit", "delete"}
      BY <1>9 DEF CommitMerge, Goto
    <3>6. CASE version'[t] \div CompactEvery > version[t] \div CompactEvery
      <4>1. version'[t] \div CompactEvery > base[p][t] \div CompactEvery
        BY <3>3, <3>4, <3>6
      <4>2. Compacts(p, t)'
        BY <2>2, <2>3, <3>1, <3>5, <4>1
      <4>. QED
        BY <4>2
    <3>7. CASE version'[t] % CompactEvery = (version[t] % CompactEvery) + 1
      <4>1. CASE frags[t] <= version[t] % CompactEvery
        <5>1. frags'[t] <= version'[t] % CompactEvery
          BY <3>1, <3>4, <3>7, <4>1
        <5>. QED
          BY <5>1
      <4>2. ASSUME NEW q \in Procs, Compacts(q, t) PROVE Compacts(q, t)'
        <5>1. pc'[q] \in {"mark", "visit", "delete", "compact", "prune"}
          BY <1>9, <4>2 DEF CommitMerge, Goto
        <5>2. version[t] <= version'[t] /\ base'[q][t] = base[q][t]
          BY <3>1, <3>2
        <5>. QED
          BY <1>0, <4>2, <5>1, <5>2, StillCompacts
      <4>. QED
        BY <2>1, <4>1, <4>2
    <3>. QED
      BY <3>1, <3>2, <3>6, <3>7, OneMore
  <2>4. CASE t # emb[p].table
    <3>1. version'[t] = version[t] /\ frags'[t] = frags[t] /\ base' = base
      BY <1>9, <2>2, <2>4 DEF CommitMerge, Written
    <3>2. ASSUME NEW q \in Procs, Compacts(q, t) PROVE Compacts(q, t)'
      BY <1>9, <3>1, <3>2 DEF CommitMerge, Goto
    <3>. QED
      BY <2>1, <3>1, <3>2
  <2>5. QED
    BY <2>3, <2>4
<1>10. ASSUME NEW p \in Procs, Conflict(p) PROVE FragmentsTracked'
  BY <1>10 DEF Conflict, Fault, Return, Goto
<1>11. ASSUME NEW p \in Procs, MarkCommitted(p) PROVE FragmentsTracked'
  BY <1>11 DEF MarkCommitted, Goto
<1>12. ASSUME NEW p \in Procs, PurgeRecordsFirst(p) PROVE FragmentsTracked'
  BY <1>12 DEF PurgeRecordsFirst, Begin, DropRecords, Goto
<1>13. ASSUME NEW p \in Procs, PurgeVectorsFirst(p) PROVE FragmentsTracked'
  BY <1>13 DEF PurgeVectorsFirst, Begin, Goto
<1>14. ASSUME NEW p \in Procs, VisitTable(p) PROVE FragmentsTracked'
  <2> SUFFICES ASSUME ~disturbed', NEW t \in Tables PROVE Tracked(t)'
    OBVIOUS
  <2>1. ~disturbed /\ Tracked(t)
    BY <1>14 DEF VisitTable
  <2>2. PICK u \in todo[p] : base' = [base EXCEPT ![p][u] = version[u]]
    BY <1>14 DEF VisitTable
  <2>3. version' = version /\ frags' = frags /\ pc' = [pc EXCEPT ![p] = "delete"] /\ pc[p] = "visit"
    BY <1>14 DEF VisitTable, Goto
  <2>4. base[p][u] = 0 /\ u \in Tables
    BY <2>2
  <2>5. ASSUME NEW q \in Procs, Compacts(q, t) PROVE Compacts(q, t)'
    <3>1. ~(q = p /\ t = u)
      BY <2>4, <2>5
    <3>2. base'[q][t] = base[q][t]
      BY <2>2, <2>4, <3>1
    <3>. QED
      BY <2>3, <2>5, <3>2
  <2>6. QED
    BY <2>1, <2>3, <2>5
<1>15. ASSUME NEW p \in Procs, DeleteRows(p) PROVE FragmentsTracked'
  <2> SUFFICES ASSUME ~disturbed', NEW t \in Tables PROVE Tracked(t)'
    OBVIOUS
  <2>1. ~disturbed /\ Tracked(t)
    BY <1>15 DEF DeleteRows
  <2>2. at[p] \in Tables /\ base[p][at[p]] > 0
    BY <1>15 DEF DeleteRows
  <2>3. CASE t = at[p]
    <3>1. version'[t] = version[t] + 1 /\ frags'[t] = frags[t] + 1 /\ base' = base
      BY <1>15, <2>2, <2>3 DEF DeleteRows, Written
    <3>2. version[t] \in Nat /\ base[p][t] \in Nat /\ base[p][t] <= version[t] /\ CompactEvery \in Nat \ {0}
      OBVIOUS
    <3>3. base[p][t] \div CompactEvery <= version[t] \div CompactEvery
      BY <3>2, QuotientGrows
    <3>4. /\ version[t] \div CompactEvery \in Nat /\ version'[t] \div CompactEvery \in Nat
          /\ base[p][t] \div CompactEvery \in Nat
          /\ version[t] % CompactEvery \in Nat /\ version'[t] % CompactEvery \in Nat
      <4>1. version'[t] \in Nat
        BY <3>1, <3>2
      <4>. QED
        BY <3>2, <4>1, QuotientRemainder
    <3>5. pc'[p] \in {"mark", "visit", "delete"}
      BY <1>15 DEF DeleteRows, Goto
    <3>6. CASE version'[t] \div CompactEvery > version[t] \div CompactEvery
      <4>1. version'[t] \div CompactEvery > base[p][t] \div CompactEvery
        BY <3>3, <3>4, <3>6
      <4>2. Compacts(p, t)'
        BY <2>2, <2>3, <3>1, <3>5, <4>1
      <4>. QED
        BY <4>2
    <3>7. CASE version'[t] % CompactEvery = (version[t] % CompactEvery) + 1
      <4>1. CASE frags[t] <= version[t] % CompactEvery
        <5>1. frags'[t] <= version'[t] % CompactEvery
          BY <3>1, <3>4, <3>7, <4>1
        <5>. QED
          BY <5>1
      <4>2. ASSUME NEW q \in Procs, Compacts(q, t) PROVE Compacts(q, t)'
        <5>1. pc'[q] \in {"mark", "visit", "delete", "compact", "prune"}
          BY <1>15, <4>2 DEF DeleteRows, Goto
        <5>2. version[t] <= version'[t] /\ base'[q][t] = base[q][t]
          BY <3>1, <3>2
        <5>. QED
          BY <1>0, <4>2, <5>1, <5>2, StillCompacts
      <4>. QED
        BY <2>1, <4>1, <4>2
    <3>. QED
      BY <3>1, <3>2, <3>6, <3>7, OneMore
  <2>4. CASE t # at[p]
    <3>1. version'[t] = version[t] /\ frags'[t] = frags[t] /\ base' = base
      BY <1>15, <2>2, <2>4 DEF DeleteRows, Written
    <3>2. ASSUME NEW q \in Procs, Compacts(q, t) PROVE Compacts(q, t)'
      BY <1>15, <3>1, <3>2 DEF DeleteRows, Goto
    <3>. QED
      BY <2>1, <3>1, <3>2
  <2>5. QED
    BY <2>3, <2>4
<1>16. ASSUME NEW p \in Procs, VisitedAll(p) PROVE FragmentsTracked'
  BY <1>16 DEF VisitedAll, Goto
<1>17. ASSUME NEW p \in Procs, PurgeRecordsLast(p) PROVE FragmentsTracked'
  BY <1>17 DEF PurgeRecordsLast, DropRecords, Return, Goto
<1>18. ASSUME NEW p \in Procs, NotDue(p) PROVE FragmentsTracked'
  <2> SUFFICES ASSUME ~disturbed', NEW t \in Tables PROVE Tracked(t)'
    OBVIOUS
  <2>1. ~disturbed /\ Tracked(t)
    BY <1>18 DEF NotDue
  <2>2. PICK u \in Tables : /\ ~CrossedMultiple(base[p][u], version[u])
                            /\ base' = [base EXCEPT ![p][u] = 0]
    BY <1>18 DEF NotDue
  <2>3. version' = version /\ frags' = frags /\ pc' = pc
    BY <1>18 DEF NotDue
  <2>4. ASSUME NEW q \in Procs, Compacts(q, t) PROVE Compacts(q, t)'
    <3>1. ~(q = p /\ t = u)
      BY <2>2, <2>4
    <3>2. base'[q][t] = base[q][t]
      BY <2>2, <3>1
    <3>. QED
      BY <2>3, <2>4, <3>2
  <2>5. QED
    BY <2>1, <2>3, <2>4
<1>19. ASSUME NEW p \in Procs, Compact(p) PROVE FragmentsTracked'
  <2> SUFFICES ASSUME ~disturbed', NEW t \in Tables PROVE Tracked(t)'
    OBVIOUS
  <2>1. ~disturbed /\ Tracked(t)
    BY <1>19 DEF Compact
  <2>2. PICK u \in Tables : /\ version' = [version EXCEPT ![u] = @ + 1]
                            /\ frags' = [frags EXCEPT ![u] = 0]
                            /\ base' = [base EXCEPT ![p][u] = 0]
    BY <1>19 DEF Compact
  <2>3. pc' = [pc EXCEPT ![p] = "prune"] /\ pc[p] = "compact"
    BY <1>19 DEF Compact, Pending, Goto
  <2>4. CASE t = u
    <3>1. frags'[t] = 0 /\ version'[t] \in Nat
      BY <2>2, <2>4
    <3>2. version'[t] % CompactEvery \in Nat
      BY <3>1, QuotientRemainder
    <3>. QED
      BY <3>1, <3>2
  <2>5. CASE t # u
    <3>1. version'[t] = version[t] /\ frags'[t] = frags[t] /\ \A q \in Procs : base'[q][t] = base[q][t]
      BY <2>2, <2>5
    <3>2. ASSUME NEW q \in Procs, Compacts(q, t) PROVE Compacts(q, t)'
      BY <2>3, <3>1, <3>2
    <3>. QED
      BY <2>1, <3>1, <3>2
  <2>6. QED
    BY <2>4, <2>5
<1>20. ASSUME NEW p \in Procs, Prune(p) PROVE FragmentsTracked'
  BY <1>20 DEF Prune, Goto
<1>21. ASSUME NEW p \in Procs, CompactFails(p) PROVE FragmentsTracked'
  BY <1>21 DEF CompactFails, Fault, Pending
<1>22. ASSUME NEW p \in Procs, PruneFails(p) PROVE FragmentsTracked'
  BY <1>22 DEF PruneFails, Fault, Goto
<1>23. ASSUME NEW p \in Procs, Finish(p) PROVE FragmentsTracked'
  BY <1>23 DEF Finish, Return, Goto
<1>24. ASSUME NEW p \in Procs, PurgeGoesOn(p) PROVE FragmentsTracked'
  BY <1>24 DEF PurgeGoesOn, Goto
<1>25. ASSUME NEW p \in Procs, Crash(p) PROVE FragmentsTracked'
  BY <1>25 DEF Crash, Fault, Return, Goto
<1>26. QED
  BY <1>1, <1>2, <1>3, <1>4, <1>5, <1>6, <1>7, <1>8, <1>9, <1>10, <1>11, <1>12, <1>13, <1>14, <1>15, <1>16, <1>17, <1>18, <1>19, <1>20, <1>21, <1>22, <1>23, <1>24, <1>25 DEF Next

\* An idle store has compacted all but the last few commits of each table.
THEOREM FragmentsStayBounded == Spec => []FragmentsBounded
<1>1. TypeOK /\ FragmentsTracked => FragmentsBounded
  <2> SUFFICES ASSUME TypeOK, FragmentsTracked, \A p \in Procs : pc[p] = "idle", ~disturbed, NEW t \in Tables
               PROVE  frags[t] < CompactEvery
    BY DEF FragmentsBounded
  <2>1. frags[t] <= version[t] % CompactEvery
    BY DEF FragmentsTracked, Compacts
  <2>2. version[t] \in Nat /\ frags[t] \in Nat /\ CompactEvery \in Nat \ {0}
    BY VectorAssumption DEF TypeOK
  <2>3. version[t] % CompactEvery \in 0 .. CompactEvery - 1
    BY <2>2, QuotientRemainder
  <2>4. QED
    BY <2>1, <2>2, <2>3
<1>2. Init => BasesRead /\ FragmentsTracked
  <2> SUFFICES ASSUME Init PROVE BasesRead /\ FragmentsTracked
    OBVIOUS
  <2>1. BasesRead
    BY DEF Init, BasesRead, NoBase
  <2>2. ASSUME NEW t \in Tables PROVE frags[t] <= version[t] % CompactEvery
    <3>1. version[t] \in Nat /\ frags[t] = 0 /\ CompactEvery \in Nat \ {0}
      BY VectorAssumption DEF Init
    <3>2. version[t] % CompactEvery \in 0 .. CompactEvery - 1
      BY <3>1, QuotientRemainder
    <3>3. QED
      BY <3>1, <3>2
  <2>3. QED
    BY <2>1, <2>2 DEF FragmentsTracked
<1>3. IInv /\ BasesRead /\ FragmentsTracked /\ [Next]_vars => (BasesRead /\ FragmentsTracked)'
  BY BasesStep, FragmentsStep DEF IInv
<1>4. IInv => TypeOK
  BY DEF IInv
<1>5. QED
  BY <1>1, <1>2, <1>3, <1>4, VectorInvariance, PTL DEF Spec

=============================================================================
