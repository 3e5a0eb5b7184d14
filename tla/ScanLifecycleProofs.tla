-------------------------- MODULE ScanLifecycleProofs --------------------------
(***************************************************************************)
(* Theorems about ScanLifecycle, for any number of uploads, jobs and       *)
(* faults.  One lemma per conjunct of ScanInv: no step of the code breaks  *)
(* it.  In each, the steps that cannot disturb the conjunct are one case.  *)
(***************************************************************************)
EXTENDS ScanLifecycle, TLAPS

\* Type correctness.
LEMMA TypeKept == ASSUME ScanInv, [Next]_vars PROVE TypeOK'
<1> USE ScanBounds DEF ScanInv, TypeOK, Go, Busy, Handler, Worker, Processing, process,
   disk, tables, ghosts
<1>1. ASSUME NEW r \in Requests, SaveTemporaryCV(r) \/ HandlerStep(r) PROVE TypeOK'
  <2>1. CASE CreateScan(r)
    BY <2>1 DEF CreateScan
  <2>2. CASE CommitAmbiguous(r)
    BY <2>2 DEF CommitAmbiguous, DatabaseFault
  <2>3. CASE RecoveryFails(r)
    BY <2>3 DEF RecoveryFails, RemoveTemporaryFile, DatabaseFault
  <2>4. CASE \/ SaveTemporaryCV(r) \/ CreateScanFails(r) \/ RecoverCommittedScan(r)
             \/ QueueProcessing(r)
    BY <2>4 DEF SaveTemporaryCV, CreateScanFails, RemoveTemporaryFile, RecoverCommittedScan,
       QueueProcessing
  <2> QED
    BY <1>1, <2>1, <2>2, <2>3, <2>4 DEF HandlerStep
<1>2. ASSUME NEW r \in Requests, WorkerStep(r) PROVE TypeOK'
  <2>1. CASE ListMatchCandidates(r)
    BY <2>1 DEF ListMatchCandidates
  <2>2. CASE CompleteScan(r)
    BY <2>2 DEF CompleteScan, Completed, CanComplete
  <2>3. CASE CompleteScanUnanswered(r)
    BY <2>3 DEF CompleteScanUnanswered, Completed, CanComplete, DatabaseFault
  <2>4. CASE ProcessFails(r)
    BY <2>4 DEF ProcessFails
  <2>5. CASE SetFailed(r)
    BY <2>5 DEF SetFailed, Failed, MayFail, NextAttempt
  <2>6. CASE SetFailedErrs(r)
    BY <2>6 DEF SetFailedErrs, Failed, MayFail, NextAttempt, DatabaseFault
  <2>7. CASE SetFailedStalls(r)
    BY <2>7 DEF SetFailedStalls
  <2>8. CASE \/ LoadScanContext(r) \/ ExtractCVText(r) \/ ParseProfile(r) \/ Cleanup(r)
    BY <2>8 DEF LoadScanContext, ExtractCVText, ParseProfile, Cleanup, RemoveTemporaryFile
  <2> QED
    BY <1>2, <2>1, <2>2, <2>3, <2>4, <2>5, <2>6, <2>7, <2>8 DEF WorkerStep
<1>3. ASSUME NEW r \in Requests, OutsideStep(r) PROVE TypeOK'
  <2>1. CASE LateCommit(r)
    BY <2>1 DEF LateCommit
  <2>2. CASE DeleteCV(r)
    BY <2>2 DEF DeleteCV
  <2>3. CASE \/ LateRollback(r) \/ Age(r)
    BY <2>3 DEF LateRollback, Age
  <2> QED
    BY <1>3, <2>1, <2>2, <2>3 DEF OutsideStep
<1>4. ASSUME NEW j \in Jobs, JobStep(j) PROVE TypeOK'
  <2>1. CASE JobChanges(j)
    BY <2>1 DEF JobChanges
  <2>2. CASE DeleteJob(j)
    BY <2>2 DEF DeleteJob
  <2> QED
    BY <1>4, <2>1, <2>2 DEF JobStep
<1>5. CASE ProcessStep
  <2>1. CASE \/ RecoverTemporaryCVs \/ BeginClose \/ CloseReturns \/ Exit \/ Crash
             \/ Restart
    BY <2>1 DEF RecoverTemporaryCVs, BeginClose, CloseReturns, Exit, ProcessEnds, Crash,
       Restart
  <2> QED
    BY <1>5, <2>1 DEF ProcessStep
<1>6. CASE UNCHANGED vars
  BY <1>6 DEF vars
<1> QED
  BY <1>1, <1>2, <1>3, <1>4, <1>5, <1>6 DEF Next

\* Rows and profiles change together, in CompleteScan and in the deletion of a CV;
\* a FAILED verdict never meets a COMPLETED row.
LEMMA ProfilesKept == ASSUME ScanInv, [Next]_vars PROVE ProfilesHaveScans'
<1> USE ScanBounds DEF ScanInv, TypeOK, RowsFollowCode, Go, ProfilesHaveScans, process,
   disk, tables, ghosts
<1>1. ASSUME NEW r \in Requests, SaveTemporaryCV(r) \/ HandlerStep(r) PROVE ProfilesHaveScans'
  <2>1. CASE CreateScan(r)
    BY <2>1 DEF CreateScan
  <2>2. CASE CommitAmbiguous(r)
    BY <2>2 DEF CommitAmbiguous, DatabaseFault
  <2>3. CASE \/ SaveTemporaryCV(r) \/ CreateScanFails(r) \/ RecoverCommittedScan(r)
             \/ RecoveryFails(r) \/ QueueProcessing(r)
    BY <2>3 DEF SaveTemporaryCV, CreateScanFails, RemoveTemporaryFile, RecoverCommittedScan,
       RecoveryFails, DatabaseFault, QueueProcessing
  <2> QED
    BY <1>1, <2>1, <2>2, <2>3 DEF HandlerStep
<1>2. ASSUME NEW r \in Requests, WorkerStep(r) PROVE ProfilesHaveScans'
  <2>1. CASE CompleteScan(r)
    BY <2>1 DEF CompleteScan, Completed, CanComplete
  <2>2. CASE CompleteScanUnanswered(r)
    BY <2>2 DEF CompleteScanUnanswered, Completed, CanComplete, DatabaseFault
  <2>3. CASE SetFailed(r)
    BY <2>3 DEF SetFailed, Failed, MayFail, NextAttempt
  <2>4. CASE SetFailedErrs(r)
    BY <2>4 DEF SetFailedErrs, Failed, MayFail, NextAttempt, DatabaseFault
  <2>5. CASE \/ LoadScanContext(r) \/ ExtractCVText(r) \/ ParseProfile(r)
             \/ ListMatchCandidates(r) \/ ProcessFails(r) \/ SetFailedStalls(r)
             \/ Cleanup(r)
    BY <2>5 DEF LoadScanContext, ExtractCVText, ParseProfile, ListMatchCandidates,
       ProcessFails, SetFailedStalls, Cleanup, RemoveTemporaryFile
  <2> QED
    BY <1>2, <2>1, <2>2, <2>3, <2>4, <2>5 DEF WorkerStep
<1>3. ASSUME NEW r \in Requests, OutsideStep(r) PROVE ProfilesHaveScans'
  <2>1. CASE LateCommit(r)
    BY <2>1 DEF LateCommit
  <2>2. CASE DeleteCV(r)
    BY <2>2 DEF DeleteCV
  <2>3. CASE \/ LateRollback(r) \/ Age(r)
    BY <2>3 DEF LateRollback, Age
  <2> QED
    BY <1>3, <2>1, <2>2, <2>3 DEF OutsideStep
<1>4. ASSUME NEW j \in Jobs, JobStep(j) PROVE ProfilesHaveScans'
  <2>1. CASE \/ JobChanges(j) \/ DeleteJob(j)
    BY <2>1 DEF JobChanges, DeleteJob
  <2> QED
    BY <1>4, <2>1 DEF JobStep
<1>5. CASE ProcessStep
  <2>1. CASE \/ RecoverTemporaryCVs \/ BeginClose \/ CloseReturns \/ Exit \/ Crash
             \/ Restart
    BY <2>1 DEF RecoverTemporaryCVs, BeginClose, CloseReturns, Exit, ProcessEnds, Crash,
       Restart
  <2> QED
    BY <1>5, <2>1 DEF ProcessStep
<1>6. CASE UNCHANGED vars
  BY <1>6 DEF vars
<1> QED
  BY <1>1, <1>2, <1>3, <1>4, <1>5, <1>6 DEF Next

\* Matches are inserted for existing jobs, and leave with their scan or their job.
LEMMA MatchesKept == ASSUME ScanInv, [Next]_vars PROVE MatchesAreAnchored'
<1> USE ScanBounds DEF ScanInv, TypeOK, RowsFollowCode, Go, MatchesAreAnchored, process,
   disk, tables, ghosts
<1>1. ASSUME NEW r \in Requests, SaveTemporaryCV(r) \/ HandlerStep(r) PROVE MatchesAreAnchored'
  <2>1. CASE CreateScan(r)
    BY <2>1 DEF CreateScan
  <2>2. CASE CommitAmbiguous(r)
    BY <2>2 DEF CommitAmbiguous, DatabaseFault
  <2>3. CASE \/ SaveTemporaryCV(r) \/ CreateScanFails(r) \/ RecoverCommittedScan(r)
             \/ RecoveryFails(r) \/ QueueProcessing(r)
    BY <2>3 DEF SaveTemporaryCV, CreateScanFails, RemoveTemporaryFile, RecoverCommittedScan,
       RecoveryFails, DatabaseFault, QueueProcessing
  <2> QED
    BY <1>1, <2>1, <2>2, <2>3 DEF HandlerStep
<1>2. ASSUME NEW r \in Requests, WorkerStep(r) PROVE MatchesAreAnchored'
  <2>1. CASE CompleteScan(r)
    BY <2>1 DEF CompleteScan, Completed, CanComplete
  <2>2. CASE CompleteScanUnanswered(r)
    BY <2>2 DEF CompleteScanUnanswered, Completed, CanComplete, DatabaseFault
  <2>3. CASE SetFailed(r)
    BY <2>3 DEF SetFailed, Failed, MayFail, NextAttempt
  <2>4. CASE SetFailedErrs(r)
    BY <2>4 DEF SetFailedErrs, Failed, MayFail, NextAttempt, DatabaseFault
  <2>5. CASE \/ LoadScanContext(r) \/ ExtractCVText(r) \/ ParseProfile(r)
             \/ ListMatchCandidates(r) \/ ProcessFails(r) \/ SetFailedStalls(r)
             \/ Cleanup(r)
    BY <2>5 DEF LoadScanContext, ExtractCVText, ParseProfile, ListMatchCandidates,
       ProcessFails, SetFailedStalls, Cleanup, RemoveTemporaryFile
  <2> QED
    BY <1>2, <2>1, <2>2, <2>3, <2>4, <2>5 DEF WorkerStep
<1>3. ASSUME NEW r \in Requests, OutsideStep(r) PROVE MatchesAreAnchored'
  <2>1. CASE LateCommit(r)
    BY <2>1 DEF LateCommit
  <2>2. CASE DeleteCV(r)
    BY <2>2 DEF DeleteCV
  <2>3. CASE \/ LateRollback(r) \/ Age(r)
    BY <2>3 DEF LateRollback, Age
  <2> QED
    BY <1>3, <2>1, <2>2, <2>3 DEF OutsideStep
<1>4. ASSUME NEW j \in Jobs, JobStep(j) PROVE MatchesAreAnchored'
  <2>1. CASE JobChanges(j)
    BY <2>1 DEF JobChanges
  <2>2. CASE DeleteJob(j)
    BY <2>2 DEF DeleteJob
  <2> QED
    BY <1>4, <2>1, <2>2 DEF JobStep
<1>5. CASE ProcessStep
  <2>1. CASE \/ RecoverTemporaryCVs \/ BeginClose \/ CloseReturns \/ Exit \/ Crash
             \/ Restart
    BY <2>1 DEF RecoverTemporaryCVs, BeginClose, CloseReturns, Exit, ProcessEnds, Crash,
       Restart
  <2> QED
    BY <1>5, <2>1 DEF ProcessStep
<1>6. CASE UNCHANGED vars
  BY <1>6 DEF vars
<1> QED
  BY <1>1, <1>2, <1>3, <1>4, <1>5, <1>6 DEF Next

\* Each attempt that goes wrong is paid for by a database failure, or cut off.
LEMMA CausesKept == ASSUME ScanInv, [Next]_vars PROVE CausesFollowCode'
<1> USE ScanBounds DEF ScanInv, TypeOK, RowsFollowCode, Go, CausesFollowCode, Busy, Handler,
   Worker, Processing, process, disk, tables, ghosts
<1>1. ASSUME NEW r \in Requests, SaveTemporaryCV(r) \/ HandlerStep(r) PROVE CausesFollowCode'
  <2>1. CASE CreateScan(r)
    BY <2>1 DEF CreateScan
  <2>2. CASE CommitAmbiguous(r)
    BY <2>2 DEF CommitAmbiguous, DatabaseFault
  <2>3. CASE RecoveryFails(r)
    BY <2>3 DEF RecoveryFails, RemoveTemporaryFile, DatabaseFault
  <2>4. CASE \/ SaveTemporaryCV(r) \/ CreateScanFails(r) \/ RecoverCommittedScan(r)
             \/ QueueProcessing(r)
    BY <2>4 DEF SaveTemporaryCV, CreateScanFails, RemoveTemporaryFile, RecoverCommittedScan,
       QueueProcessing
  <2> QED
    BY <1>1, <2>1, <2>2, <2>3, <2>4 DEF HandlerStep
<1>2. ASSUME NEW r \in Requests, WorkerStep(r) PROVE CausesFollowCode'
  <2>1. CASE CompleteScan(r)
    BY <2>1 DEF CompleteScan, Completed, CanComplete
  <2>2. CASE CompleteScanUnanswered(r)
    BY <2>2 DEF CompleteScanUnanswered, Completed, CanComplete, DatabaseFault
  <2>3. CASE ProcessFails(r)
    BY <2>3 DEF ProcessFails
  <2>4. CASE SetFailed(r)
    BY <2>4 DEF SetFailed, Failed, MayFail, NextAttempt
  <2>5. CASE SetFailedErrs(r)
    BY <2>5 DEF SetFailedErrs, Failed, MayFail, NextAttempt, DatabaseFault
  <2>6. CASE SetFailedStalls(r)
    BY <2>6 DEF SetFailedStalls
  <2>7. CASE \/ LoadScanContext(r) \/ ExtractCVText(r) \/ ParseProfile(r)
             \/ ListMatchCandidates(r) \/ Cleanup(r)
    BY <2>7 DEF LoadScanContext, ExtractCVText, ParseProfile, ListMatchCandidates, Cleanup,
       RemoveTemporaryFile
  <2> QED
    BY <1>2, <2>1, <2>2, <2>3, <2>4, <2>5, <2>6, <2>7 DEF WorkerStep
<1>3. ASSUME NEW r \in Requests, OutsideStep(r) PROVE CausesFollowCode'
  <2>1. CASE LateCommit(r)
    BY <2>1 DEF LateCommit
  <2>2. CASE DeleteCV(r)
    BY <2>2 DEF DeleteCV
  <2>3. CASE \/ LateRollback(r) \/ Age(r)
    BY <2>3 DEF LateRollback, Age
  <2> QED
    BY <1>3, <2>1, <2>2, <2>3 DEF OutsideStep
<1>4. ASSUME NEW j \in Jobs, JobStep(j) PROVE CausesFollowCode'
  <2>1. CASE \/ JobChanges(j) \/ DeleteJob(j)
    BY <2>1 DEF JobChanges, DeleteJob
  <2> QED
    BY <1>4, <2>1 DEF JobStep
<1>5. CASE ProcessStep
  <2>1. CASE Exit
    BY <2>1 DEF Exit, ProcessEnds
  <2>2. CASE Crash
    BY <2>2 DEF Crash, ProcessEnds
  <2>3. CASE \/ RecoverTemporaryCVs \/ BeginClose \/ CloseReturns \/ Restart
    BY <2>3 DEF RecoverTemporaryCVs, BeginClose, CloseReturns, Restart
  <2> QED
    BY <1>5, <2>1, <2>2, <2>3 DEF ProcessStep
<1>6. CASE UNCHANGED vars
  BY <1>6 DEF vars
<1> QED
  BY <1>1, <1>2, <1>3, <1>4, <1>5, <1>6 DEF Next

\* A goroutine or handler leaves a PARSING row only with a cause.
LEMMA StrandedKept == ASSUME ScanInv, [Next]_vars PROVE StrandedScansHaveCause'
<1> USE ScanBounds DEF ScanInv, TypeOK, RowsFollowCode, CausesFollowCode, Go,
   StrandedScansHaveCause, Busy, Handler, Worker, Processing, process, disk, tables, ghosts
<1>1. ASSUME NEW r \in Requests, SaveTemporaryCV(r) \/ HandlerStep(r) PROVE StrandedScansHaveCause'
  <2>1. CASE CreateScan(r)
    BY <2>1 DEF CreateScan
  <2>2. CASE CreateScanFails(r)
    BY <2>2 DEF CreateScanFails, RemoveTemporaryFile
  <2>3. CASE CommitAmbiguous(r)
    BY <2>3 DEF CommitAmbiguous, DatabaseFault
  <2>4. CASE RecoverCommittedScan(r)
    BY <2>4 DEF RecoverCommittedScan, RemoveTemporaryFile
  <2>5. CASE RecoveryFails(r)
    BY <2>5 DEF RecoveryFails, RemoveTemporaryFile, DatabaseFault
  <2>6. CASE \/ SaveTemporaryCV(r) \/ QueueProcessing(r)
    BY <2>6 DEF SaveTemporaryCV, QueueProcessing
  <2> QED
    BY <1>1, <2>1, <2>2, <2>3, <2>4, <2>5, <2>6 DEF HandlerStep
<1>2. ASSUME NEW r \in Requests, WorkerStep(r) PROVE StrandedScansHaveCause'
  <2>1. CASE CompleteScan(r)
    BY <2>1 DEF CompleteScan, Completed, CanComplete
  <2>2. CASE CompleteScanUnanswered(r)
    BY <2>2 DEF CompleteScanUnanswered, Completed, CanComplete, DatabaseFault
  <2>3. CASE SetFailed(r)
    BY <2>3 DEF SetFailed, Failed, MayFail, NextAttempt
  <2>4. CASE SetFailedErrs(r)
    BY <2>4 DEF SetFailedErrs, Failed, MayFail, NextAttempt, DatabaseFault
  <2>5. CASE SetFailedStalls(r)
    BY <2>5 DEF SetFailedStalls
  <2>6. CASE Cleanup(r)
    BY <2>6 DEF Cleanup, RemoveTemporaryFile
  <2>7. CASE \/ LoadScanContext(r) \/ ExtractCVText(r) \/ ParseProfile(r)
             \/ ListMatchCandidates(r) \/ ProcessFails(r)
    BY <2>7 DEF LoadScanContext, ExtractCVText, ParseProfile, ListMatchCandidates,
       ProcessFails
  <2> QED
    BY <1>2, <2>1, <2>2, <2>3, <2>4, <2>5, <2>6, <2>7 DEF WorkerStep
<1>3. ASSUME NEW r \in Requests, OutsideStep(r) PROVE StrandedScansHaveCause'
  <2>1. CASE LateCommit(r)
    BY <2>1 DEF LateCommit
  <2>2. CASE DeleteCV(r)
    BY <2>2 DEF DeleteCV
  <2>3. CASE \/ LateRollback(r) \/ Age(r)
    BY <2>3 DEF LateRollback, Age
  <2> QED
    BY <1>3, <2>1, <2>2, <2>3 DEF OutsideStep
<1>4. ASSUME NEW j \in Jobs, JobStep(j) PROVE StrandedScansHaveCause'
  <2>1. CASE \/ JobChanges(j) \/ DeleteJob(j)
    BY <2>1 DEF JobChanges, DeleteJob
  <2> QED
    BY <1>4, <2>1 DEF JobStep
<1>5. CASE ProcessStep
  <2>1. CASE Exit
    BY <2>1 DEF Exit, ProcessEnds
  <2>2. CASE Crash
    BY <2>2 DEF Crash, ProcessEnds
  <2>3. CASE \/ RecoverTemporaryCVs \/ BeginClose \/ CloseReturns \/ Restart
    BY <2>3 DEF RecoverTemporaryCVs, BeginClose, CloseReturns, Restart
  <2> QED
    BY <1>5, <2>1, <2>2, <2>3 DEF ProcessStep
<1>6. CASE UNCHANGED vars
  BY <1>6 DEF vars
<1> QED
  BY <1>1, <1>2, <1>3, <1>4, <1>5, <1>6 DEF Next

\* What the code knows of its row stays true while others write.
LEMMA RowsKept == ASSUME ScanInv, [Next]_vars PROVE RowsFollowCode'
<1> USE ScanBounds DEF ScanInv, TypeOK, Go, RowsFollowCode, Busy, Handler, Worker,
   Processing, process, disk, tables, ghosts
<1>1. ASSUME NEW r \in Requests, SaveTemporaryCV(r) \/ HandlerStep(r) PROVE RowsFollowCode'
  <2>1. CASE SaveTemporaryCV(r)
    BY <2>1 DEF SaveTemporaryCV
  <2>2. CASE CreateScan(r)
    BY <2>2 DEF CreateScan
  <2>3. CASE CommitAmbiguous(r)
    BY <2>3 DEF CommitAmbiguous, DatabaseFault
  <2>4. CASE RecoverCommittedScan(r)
    BY <2>4 DEF RecoverCommittedScan, RemoveTemporaryFile
  <2>5. CASE \/ CreateScanFails(r) \/ RecoveryFails(r) \/ QueueProcessing(r)
    BY <2>5 DEF CreateScanFails, RemoveTemporaryFile, RecoveryFails, DatabaseFault,
       QueueProcessing
  <2> QED
    BY <1>1, <2>1, <2>2, <2>3, <2>4, <2>5 DEF HandlerStep
<1>2. ASSUME NEW r \in Requests, WorkerStep(r) PROVE RowsFollowCode'
  <2>1. CASE CompleteScan(r)
    BY <2>1 DEF CompleteScan, Completed, CanComplete
  <2>2. CASE CompleteScanUnanswered(r)
    BY <2>2 DEF CompleteScanUnanswered, Completed, CanComplete, DatabaseFault
  <2>3. CASE SetFailed(r)
    BY <2>3 DEF SetFailed, Failed, MayFail, NextAttempt
  <2>4. CASE SetFailedErrs(r)
    BY <2>4 DEF SetFailedErrs, Failed, MayFail, NextAttempt, DatabaseFault
  <2>5. CASE \/ LoadScanContext(r) \/ ExtractCVText(r) \/ ParseProfile(r)
             \/ ListMatchCandidates(r) \/ ProcessFails(r) \/ SetFailedStalls(r)
             \/ Cleanup(r)
    BY <2>5 DEF LoadScanContext, ExtractCVText, ParseProfile, ListMatchCandidates,
       ProcessFails, SetFailedStalls, Cleanup, RemoveTemporaryFile
  <2> QED
    BY <1>2, <2>1, <2>2, <2>3, <2>4, <2>5 DEF WorkerStep
<1>3. ASSUME NEW r \in Requests, OutsideStep(r) PROVE RowsFollowCode'
  <2>1. CASE LateCommit(r)
    BY <2>1 DEF LateCommit
  <2>2. CASE LateRollback(r)
    BY <2>2 DEF LateRollback
  <2>3. CASE DeleteCV(r)
    BY <2>3 DEF DeleteCV
  <2>4. CASE Age(r)
    BY <2>4 DEF Age
  <2> QED
    BY <1>3, <2>1, <2>2, <2>3, <2>4 DEF OutsideStep
<1>4. ASSUME NEW j \in Jobs, JobStep(j) PROVE RowsFollowCode'
  <2>1. CASE \/ JobChanges(j) \/ DeleteJob(j)
    BY <2>1 DEF JobChanges, DeleteJob
  <2> QED
    BY <1>4, <2>1 DEF JobStep
<1>5. CASE ProcessStep
  <2>1. CASE Exit
    BY <2>1 DEF Exit, ProcessEnds
  <2>2. CASE Crash
    BY <2>2 DEF Crash, ProcessEnds
  <2>3. CASE \/ RecoverTemporaryCVs \/ BeginClose \/ CloseReturns \/ Restart
    BY <2>3 DEF RecoverTemporaryCVs, BeginClose, CloseReturns, Restart
  <2> QED
    BY <1>5, <2>1, <2>2, <2>3 DEF ProcessStep
<1>6. CASE UNCHANGED vars
  BY <1>6 DEF vars
<1> QED
  BY <1>1, <1>2, <1>3, <1>4, <1>5, <1>6 DEF Next

-----------------------------------------------------------------------------
(* Theorems *)

\* The inductive invariant holds in every reachable state.
THEOREM ScanInvariance == Spec => []ScanInv
<1>1. Init => ScanInv
  BY ScanBounds DEF Init, ScanInv, TypeOK, ProfilesHaveScans, MatchesAreAnchored,
     StrandedScansHaveCause, RowsFollowCode, CausesFollowCode
<1>2. ScanInv /\ [Next]_vars => ScanInv'
  BY TypeKept, ProfilesKept, MatchesKept, CausesKept, StrandedKept, RowsKept DEF ScanInv
<1> QED
  BY <1>1, <1>2, PTL DEF Spec

\* Profiles are stored exactly for COMPLETED scans: deleting a CV, failing or
\* crashing at any point leaves neither a profile alone nor a scan without one.
THEOREM ProfilesStored == Spec => []ProfilesHaveScans
<1>1. ScanInv => ProfilesHaveScans
  BY DEF ScanInv
<1> QED
  BY <1>1, ScanInvariance, PTL

\* Every match has its COMPLETED scan and its job.
THEOREM MatchesAnchored == Spec => []MatchesAreAnchored
<1>1. ScanInv => MatchesAreAnchored
  BY DEF ScanInv
<1> QED
  BY <1>1, ScanInvariance, PTL

\* One failed database call, answered or not, never strands a scan.
THEOREM StrandedExplained == Spec => []StrandedScansHaveCause
<1>1. ScanInv => StrandedScansHaveCause
  BY DEF ScanInv
<1> QED
  BY <1>1, ScanInvariance, PTL

-----------------------------------------------------------------------------
(* Refinement *)

Seen == [r \in Requests |-> IF r \in deleted THEN "DELETED" ELSE status[r]]

\* A step that leaves scans, profiles and the history of deletions alone is
\* invisible to ScanVerdict.
LEMMA QuietSteps ==
  ASSUME UNCHANGED <<status, profiles, deleted>> PROVE UNCHANGED <<Seen, profiles>>
BY DEF Seen

\* One row takes one step of the abstract state machine.
LEMMA RowMoves ==
  ASSUME ScanInv, NEW r \in Requests, NEW s \in {"PARSING", "COMPLETED", "FAILED"},
         r \notin deleted, deleted' = deleted, status' = [status EXCEPT ![r] = s]
  PROVE  Seen' = [Seen EXCEPT ![r] = s] /\ Seen[r] = status[r]
BY DEF Seen, ScanInv, TypeOK

\* The commit of CreateScan, answered or not, at once or late, accepts a scan.
LEMMA AcceptSteps ==
  ASSUME ScanInv, NEW r \in Requests,
         CreateScan(r) \/ CommitAmbiguous(r) \/ LateCommit(r)
  PROVE  Verdict!Accept(r) \/ UNCHANGED <<Seen, profiles>>
<1>1. \/ UNCHANGED <<status, profiles, deleted>>
      \/ /\ status[r] = "NONE" /\ r \notin deleted /\ deleted' = deleted
         /\ profiles' = profiles /\ status' = [status EXCEPT ![r] = "PARSING"]
  BY DEF CreateScan, CommitAmbiguous, LateCommit, DatabaseFault, Go, ScanInv, TypeOK,
     RowsFollowCode, ghosts
<1>2. CASE UNCHANGED <<status, profiles, deleted>>
  BY <1>2, QuietSteps
<1>3. CASE /\ status[r] = "NONE" /\ r \notin deleted /\ deleted' = deleted
           /\ profiles' = profiles /\ status' = [status EXCEPT ![r] = "PARSING"]
  <2>1. Seen' = [Seen EXCEPT ![r] = "PARSING"] /\ Seen[r] = "NONE"
    BY <1>3, RowMoves
  <2> QED
    BY <1>3, <2>1 DEF Verdict!Accept, Verdict!Moved, Seen
<1> QED
  BY <1>1, <1>2, <1>3

\* CompleteScan publishes the verdict with its profile.
LEMMA CompleteSteps ==
  ASSUME ScanInv, NEW r \in Requests, CompleteScan(r) \/ CompleteScanUnanswered(r)
  PROVE  Verdict!Complete(r)
<1>1. /\ status[r] = "PARSING" /\ r \notin deleted /\ deleted' = deleted
      /\ profiles' = profiles \union {r} /\ status' = [status EXCEPT ![r] = "COMPLETED"]
  BY DEF CompleteScan, CompleteScanUnanswered, Completed, CanComplete, DatabaseFault, ScanInv,
     RowsFollowCode, ghosts
<1>2. Seen' = [Seen EXCEPT ![r] = "COMPLETED"] /\ Seen[r] = "PARSING"
  BY <1>1, RowMoves
<1> QED
  BY <1>1, <1>2 DEF Verdict!Complete, Verdict!Moved, Seen

\* SetStatus fails a PARSING scan, or changes nothing.
LEMMA FailSteps ==
  ASSUME ScanInv, NEW r \in Requests, SetFailed(r) \/ SetFailedErrs(r)
  PROVE  Verdict!Fail(r) \/ UNCHANGED <<Seen, profiles>>
<1>1. \/ UNCHANGED <<status, profiles, deleted>>
      \/ /\ status[r] = "PARSING" /\ r \notin deleted /\ deleted' = deleted
         /\ profiles' = profiles /\ status' = [status EXCEPT ![r] = "FAILED"]
  BY DEF SetFailed, SetFailedErrs, Failed, MayFail, DatabaseFault, ScanInv, TypeOK,
     RowsFollowCode, ghosts
<1>2. CASE UNCHANGED <<status, profiles, deleted>>
  BY <1>2, QuietSteps
<1>3. CASE /\ status[r] = "PARSING" /\ r \notin deleted /\ deleted' = deleted
           /\ profiles' = profiles /\ status' = [status EXCEPT ![r] = "FAILED"]
  <2>1. Seen' = [Seen EXCEPT ![r] = "FAILED"] /\ Seen[r] = "PARSING"
    BY <1>3, RowMoves
  <2> QED
    BY <1>3, <2>1 DEF Verdict!Fail, Verdict!Moved, Seen
<1> QED
  BY <1>1, <1>2, <1>3

\* Deletion takes the profile along.
LEMMA DeleteSteps ==
  ASSUME ScanInv, NEW r \in Requests, DeleteCV(r) PROVE Verdict!Delete(r)
<1>1. r \notin deleted /\ status[r] \in {"PARSING", "COMPLETED", "FAILED"}
  BY DEF DeleteCV, ScanInv, TypeOK, RowsFollowCode
<1>2. Seen' = [Seen EXCEPT ![r] = "DELETED"] /\ Seen[r] = status[r]
  BY <1>1 DEF DeleteCV, Seen, ScanInv, TypeOK
<1> QED
  BY <1>1, <1>2 DEF DeleteCV, Verdict!Delete, Verdict!Moved, Seen

\* The steps that write neither scans nor profiles.
Quiet ==
  \/ \E r \in Requests :
       \/ SaveTemporaryCV(r) \/ CreateScanFails(r) \/ RecoverCommittedScan(r)
       \/ RecoveryFails(r) \/ QueueProcessing(r) \/ LoadScanContext(r) \/ ExtractCVText(r)
       \/ ParseProfile(r) \/ ListMatchCandidates(r) \/ ProcessFails(r)
       \/ SetFailedStalls(r) \/ Cleanup(r) \/ LateRollback(r) \/ Age(r)
  \/ \E j \in Jobs : JobStep(j)
  \/ ProcessStep

\* They are stutters of ScanVerdict.
LEMMA OtherSteps ==
  ASSUME Quiet PROVE UNCHANGED <<Seen, profiles>>
BY QuietSteps DEF Quiet, JobStep, ProcessStep, tables, ghosts, SaveTemporaryCV,
   CreateScanFails, RemoveTemporaryFile, RecoverCommittedScan, RecoveryFails, DatabaseFault,
   QueueProcessing, LoadScanContext, ExtractCVText, ParseProfile, ListMatchCandidates,
   ProcessFails, SetFailedStalls, Cleanup, LateRollback, Age, JobChanges, DeleteJob,
   RecoverTemporaryCVs, BeginClose, CloseReturns, Exit, ProcessEnds, Crash, Restart

\* The scan rows implement ScanVerdict: verdicts are final, deleted scans do not
\* return, and profiles come and go with the verdict that holds them.
THEOREM VerdictsRefined == Spec => RefinesVerdict
<1>1. Init => Verdict!Init
  BY DEF Init, Verdict!Init
<1>2. ScanInv /\ [Next]_vars => [Verdict!Next]_<<Seen, profiles>>
  <2> SUFFICES ASSUME ScanInv, [Next]_vars PROVE Verdict!Next \/ UNCHANGED <<Seen, profiles>>
    OBVIOUS
  <2>1. \/ Quiet \/ UNCHANGED vars
        \/ \E r \in Requests :
             \/ CreateScan(r) \/ CommitAmbiguous(r) \/ LateCommit(r)
             \/ CompleteScan(r) \/ CompleteScanUnanswered(r)
             \/ SetFailed(r) \/ SetFailedErrs(r) \/ DeleteCV(r)
    BY DEF Next, HandlerStep, WorkerStep, OutsideStep, Quiet
  <2>2. CASE Quiet
    BY <2>2, OtherSteps
  <2>3. CASE UNCHANGED vars
    BY <2>3, QuietSteps DEF vars, tables, ghosts
  <2>4. ASSUME NEW r \in Requests,
               \/ CreateScan(r) \/ CommitAmbiguous(r) \/ LateCommit(r)
               \/ CompleteScan(r) \/ CompleteScanUnanswered(r)
               \/ SetFailed(r) \/ SetFailedErrs(r) \/ DeleteCV(r)
        PROVE  Verdict!Next \/ UNCHANGED <<Seen, profiles>>
    BY <2>4, AcceptSteps, CompleteSteps, FailSteps, DeleteSteps DEF Verdict!Next
  <2> QED
    BY <2>1, <2>2, <2>3, <2>4
<1> QED
  BY <1>1, <1>2, ScanInvariance, PTL DEF Spec, RefinesVerdict, Verdict!Spec, Seen
=============================================================================
