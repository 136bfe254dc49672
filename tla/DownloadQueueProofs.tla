------------------------- MODULE DownloadQueueProofs -------------------------
(***************************************************************************)
(* Proofs about DownloadQueue for every set of tasks, every number of      *)
(* slots and every number of restarts and account switches.  The order of  *)
(* the list plays no part in them: which tasks are claimed may depend on   *)
(* it, how many are may not.                                               *)
(***************************************************************************)
EXTENDS DownloadQueue, FiniteSetTheorems, TLAPS

Types ==
  /\ status \in [Task -> Status]
  /\ active \in SUBSET Task
  /\ phase \in [Task -> {"idle", "auth", "transfer"}]
  /\ mode \in {"boot", "run"}
  /\ account \in Account
  /\ records \in [Account -> SUBSET Book]
  /\ disk.status \in [Task -> Status]

\* Only a worker has a promise chain, and none survives a restart.
ChainsOfWorkers ==
  /\ \A t \in Task : phase[t] # "idle" => t \in active
  /\ mode = "boot" => active = {}

WorkerInv == Types /\ ChainsOfWorkers /\ WorkersMatchTasks /\ SlotsFilled

-----------------------------------------------------------------------------
\* The tasks with given statuses are a finite set.
LEMMA WithFinite ==
  ASSUME NEW st, NEW statuses
  PROVE  /\ With(st, statuses) \in SUBSET Task
         /\ IsFiniteSet(With(st, statuses))
         /\ Cardinality(With(st, statuses)) \in Nat
<1>1. With(st, statuses) \in SUBSET Task
  BY DEF With
<1>2. IsFiniteSet(With(st, statuses))
  BY <1>1, FS_Subset, ConstantsOK DEF ConstantsOK
<1> QED
  BY <1>1, <1>2, FS_CardinalityType

(* pumpWorkers, whatever the order of the list: it never uses more slots    *)
(* than there are, and leaves a task waiting only when all are taken.       *)
LEMMA ClaimsFillSlots ==
  ASSUME NEW st, NEW l, NEW act \in SUBSET Task,
         Cardinality(act) <= MaxConcurrent,
         \A t \in act : st[t] # "pending",
         NEW C \in Claims(st, l, act)
  PROVE  /\ C \subseteq With(st, {"pending"})
         /\ Cardinality(act \cup C) <= MaxConcurrent
         /\ With(st, {"pending"}) \ C # {} => Cardinality(act \cup C) = MaxConcurrent
<1> DEFINE waiting == With(st, {"pending"})
<1>1. /\ C \in SUBSET waiting
      /\ Cardinality(C) = Smaller(MaxConcurrent - Cardinality(act), Cardinality(waiting))
         \/ (Cardinality(act) = MaxConcurrent /\ Cardinality(C) = Smaller(0, Cardinality(waiting)))
  <2>1. Cardinality(act) \in Nat /\ MaxConcurrent \in Nat
    BY FS_Subset, FS_CardinalityType, ConstantsOK DEF ConstantsOK
  <2> QED
    BY <2>1 DEF Claims
<1>2. IsFiniteSet(act) /\ Cardinality(act) \in Nat /\ MaxConcurrent \in Nat
  BY FS_Subset, FS_CardinalityType, ConstantsOK DEF ConstantsOK
<1>3. IsFiniteSet(waiting) /\ Cardinality(waiting) \in Nat
  BY WithFinite
<1>4. IsFiniteSet(C) /\ Cardinality(C) \in Nat /\ (Cardinality(waiting) = Cardinality(C) => waiting = C)
  BY <1>1, <1>3, FS_Subset, FS_CardinalityType
<1>5. act \cap C = {}
  BY <1>1 DEF With
<1>6. Cardinality(act \cup C) = Cardinality(act) + Cardinality(C)
  <2>1. Cardinality(act \cup C) = Cardinality(act) + Cardinality(C) - Cardinality(act \cap C)
    BY <1>2, <1>4, FS_Union
  <2>2. Cardinality(act \cap C) = 0
    BY <1>5, FS_EmptySet
  <2> QED
    BY <2>1, <2>2, <1>2, <1>4
<1>7. Cardinality(act \cup C) <= MaxConcurrent
  BY <1>1, <1>2, <1>3, <1>4, <1>6 DEF Smaller
<1>8. ASSUME waiting \ C # {}
      PROVE  Cardinality(act \cup C) = MaxConcurrent
  <2>1. Cardinality(C) # Cardinality(waiting)
    BY <1>4, <1>8
  <2> HIDE DEF waiting
  <2> QED
    BY <2>1, <1>1, <1>2, <1>3, <1>4, <1>6 DEF Smaller
<1> QED
  BY <1>1, <1>7, <1>8

(* The end of a turn that hands out slots: if the workers act run exactly   *)
(* the tasks marked downloading (or removed), then so do all workers after. *)
LEMMA DispatchKeepsWorkers ==
  ASSUME Types,
         NEW st \in [Task -> Status], NEW l, NEW pr, NEW act \in SUBSET Task,
         Cardinality(act) <= MaxConcurrent,
         \A t \in act : st[t] \in {"downloading", "gone"},
         \A t \in Task : st[t] = "downloading" => t \in act,
         Dispatch(st, l, pr, act)
  PROVE  /\ status' \in [Task -> Status]
         /\ active' \in SUBSET Task
         /\ phase' \in [Task -> {"idle", "auth", "transfer"}]
         /\ \A t \in Task : phase'[t] # "idle" => t \in active'
         /\ \A t \in active' : status'[t] \in {"downloading", "gone"}
         /\ \A t \in Task : status'[t] = "downloading" => t \in active'
         /\ Cardinality(active') <= MaxConcurrent
         /\ With(status', {"pending"}) # {} => Cardinality(active') = MaxConcurrent
         /\ \A t \in Task : status'[t] = "completed" => st[t] = "completed"
<1> DEFINE claimed(C) == [t \in Task |-> IF t \in C THEN "downloading" ELSE st[t]]
<1>1. PICK C \in Claims(st, l, act) :
        /\ active' = act \cup C
        /\ status' = PrunedStatus(claimed(C), l)
        /\ phase' = [t \in Task |->
                       IF t \in C THEN (IF IsBook(t) THEN "auth" ELSE "transfer")
                       ELSE IF t \in act THEN phase[t] ELSE "idle"]
  BY Zenon DEF Dispatch
<1>2. /\ C \subseteq With(st, {"pending"})
      /\ Cardinality(act \cup C) <= MaxConcurrent
      /\ With(st, {"pending"}) \ C # {} => Cardinality(act \cup C) = MaxConcurrent
  BY ClaimsFillSlots
<1>3. C \subseteq Task /\ \A t \in C : st[t] = "pending"
  BY <1>2 DEF With
<1>4. /\ claimed(C) \in [Task -> Status]
      /\ \A t \in Task : claimed(C)[t] = IF t \in C THEN "downloading" ELSE st[t]
  BY DEF Status, Live
<1>5. /\ status' \in [Task -> Status]
      /\ \A t \in Task : status'[t] # "gone" => status'[t] = claimed(C)[t]
      /\ \A t \in Task : claimed(C)[t] \notin Settled => status'[t] = claimed(C)[t]
  <2> HIDE DEF claimed
  <2> QED
    BY <1>1, <1>4 DEF PrunedStatus, Status
<1>6. phase' \in [Task -> {"idle", "auth", "transfer"}] /\ active' \in SUBSET Task
  BY <1>1, <1>3 DEF Types
<1>7. \A t \in Task : phase'[t] # "idle" => t \in active'
  BY <1>1
<1>8. \A t \in active' : status'[t] \in {"downloading", "gone"}
  BY <1>1, <1>3, <1>4, <1>5 DEF Settled
<1>9. \A t \in Task : status'[t] = "downloading" => t \in active'
  BY <1>1, <1>4, <1>5
<1>10. With(status', {"pending"}) \subseteq With(st, {"pending"}) \ C
  BY <1>4, <1>5 DEF With
<1>11. \A t \in Task : status'[t] = "completed" => st[t] = "completed"
  BY <1>4, <1>5
<1> QED
  BY <1>1, <1>2, <1>5, <1>6, <1>7, <1>8, <1>9, <1>10, <1>11

-----------------------------------------------------------------------------
\* A save leaves a well-formed file behind, whether it succeeds or not.
LEMMA PersistKeepsDisk ==
  ASSUME disk.status \in [Task -> Status], status' \in [Task -> Status],
         NEW attempt, Persist(attempt)
  PROVE  disk'.status \in [Task -> Status]
BY DEF Persist, Snapshot

(* recoverStaleTasks and failForeignAccountTasks leave the tasks in the     *)
(* state that pumpWorkers expects, from the boot state too.                 *)
LEMMA ProcessedKeepsWorkers ==
  ASSUME WorkerInv,
         NEW st \in [Task -> Status], NEW l, NEW pr, NEW own,
         \A t \in active : st[t] = status[t],
         Processed(st, l, pr, own),
         account' = account, records' = records
  PROVE  WorkerInv'
<1> DEFINE ready == ForeignFailed(Recovered(st), own)
           reset == [t \in Task |-> IF t \in Stale(st) THEN 0 ELSE pr[t]]
<1> USE DEF WorkerInv
<1>1. /\ Dispatch(ready, l, reset, active)
      /\ mode' = "run"
      /\ \E attempt : Persist(attempt)
  BY Zenon DEF Processed
<1>2. /\ ready \in [Task -> Status]
      /\ \A t \in active : ready[t] \in {"downloading", "gone"}
      /\ \A t \in Task : ready[t] = "downloading" => t \in active
  BY DEF ForeignFailed, Recovered, Stale, Types, WorkersMatchTasks, Status, Live, Settled
<1>3. Cardinality(active) <= MaxConcurrent
  BY DEF SlotsFilled
<1> HIDE DEF ready, reset, WorkerInv
<1>4. Types
  BY DEF WorkerInv
<1>5. /\ status' \in [Task -> Status]
      /\ active' \in SUBSET Task
      /\ phase' \in [Task -> {"idle", "auth", "transfer"}]
      /\ \A t \in Task : phase'[t] # "idle" => t \in active'
      /\ \A t \in active' : status'[t] \in {"downloading", "gone"}
      /\ \A t \in Task : status'[t] = "downloading" => t \in active'
      /\ Cardinality(active') <= MaxConcurrent
      /\ With(status', {"pending"}) # {} => Cardinality(active') = MaxConcurrent
  BY <1>1, <1>2, <1>3, <1>4, DispatchKeepsWorkers DEF Types
<1>6. disk'.status \in [Task -> Status]
  BY <1>1, <1>4, <1>5, PersistKeepsDisk DEF Types
<1>7. Types'
  BY <1>1, <1>4, <1>5, <1>6 DEF Types
<1>8. ChainsOfWorkers' /\ WorkersMatchTasks' /\ SlotsFilled'
  BY <1>1, <1>5 DEF ChainsOfWorkers, WorkersMatchTasks, SlotsFilled
<1> QED
  BY <1>7, <1>8 DEF WorkerInv

\* The end of a promise chain frees its slot and hands it on.
LEMMA SettleKeepsWorkers ==
  ASSUME WorkerInv,
         NEW t \in Task, phase[t] # "idle",
         NEW s \in {"completed", "failed"},
         Settle(t, s),
         records' \in [Account -> SUBSET Book]
  PROVE  WorkerInv'
<1> DEFINE rest == active \ {t}
           reset == IF s = "completed" /\ status[t] # "gone" THEN [prog EXCEPT ![t] = 2] ELSE prog
<1>0. Types /\ ChainsOfWorkers /\ WorkersMatchTasks /\ SlotsFilled
  BY DEF WorkerInv
<1>1. /\ Dispatch(Marked(t, s), list, reset, rest)
      /\ \E attempt : Persist(attempt)
      /\ mode' = mode /\ account' = account
  BY Zenon DEF Settle
<1>2. t \in active /\ mode = "run"
  BY <1>0 DEF ChainsOfWorkers, Types
<1>3. /\ Marked(t, s) \in [Task -> Status]
      /\ rest \in SUBSET Task
      /\ \A u \in rest : Marked(t, s)[u] \in {"downloading", "gone"}
      /\ \A u \in Task : Marked(t, s)[u] = "downloading" => u \in rest
  BY <1>0, <1>2 DEF Marked, Types, WorkersMatchTasks, Status, Live, Settled
<1>4. Cardinality(rest) <= MaxConcurrent
  <2>1. IsFiniteSet(active) /\ Cardinality(active) \in Nat /\ MaxConcurrent \in Nat
    BY <1>0, FS_Subset, FS_CardinalityType, ConstantsOK DEF Types, ConstantsOK
  <2>2. Cardinality(rest) = Cardinality(active) - 1
    BY <1>2, <2>1, FS_RemoveElement
  <2> QED
    BY <1>0, <2>1, <2>2 DEF SlotsFilled
<1> HIDE DEF rest, reset
<1>5. /\ status' \in [Task -> Status]
      /\ active' \in SUBSET Task
      /\ phase' \in [Task -> {"idle", "auth", "transfer"}]
      /\ \A u \in Task : phase'[u] # "idle" => u \in active'
      /\ \A u \in active' : status'[u] \in {"downloading", "gone"}
      /\ \A u \in Task : status'[u] = "downloading" => u \in active'
      /\ Cardinality(active') <= MaxConcurrent
      /\ With(status', {"pending"}) # {} => Cardinality(active') = MaxConcurrent
  BY <1>0, <1>1, <1>3, <1>4, DispatchKeepsWorkers
<1>6. disk'.status \in [Task -> Status]
  BY <1>0, <1>1, <1>5, PersistKeepsDisk DEF Types
<1>7. Types'
  BY <1>0, <1>1, <1>5, <1>6 DEF Types
<1>8. ChainsOfWorkers' /\ WorkersMatchTasks' /\ SlotsFilled'
  BY <1>1, <1>2, <1>5 DEF ChainsOfWorkers, WorkersMatchTasks, SlotsFilled
<1> QED
  BY <1>7, <1>8 DEF WorkerInv

\* Taking tasks out of the list touches no worker and wakes no task.
LEMMA DropKeepsWorkers ==
  ASSUME WorkerInv, NEW S, Drop(S)
  PROVE  WorkerInv'
<1>0. Types /\ ChainsOfWorkers /\ WorkersMatchTasks /\ SlotsFilled
  BY DEF WorkerInv
<1>1. /\ status' = [t \in Task |-> IF t \in S THEN "gone" ELSE status[t]]
      /\ Persist(TRUE)
      /\ UNCHANGED <<workerVars, account, records, mode>>
  BY DEF Drop
<1>2. status' \in [Task -> Status]
  BY <1>0, <1>1 DEF Types, Status
<1>3. disk'.status \in [Task -> Status]
  BY <1>0, <1>1, <1>2, PersistKeepsDisk DEF Types
<1>4. Types'
  BY <1>0, <1>1, <1>2, <1>3 DEF Types, workerVars
<1>5. ChainsOfWorkers' /\ WorkersMatchTasks'
  BY <1>0, <1>1 DEF ChainsOfWorkers, WorkersMatchTasks, workerVars, Types
<1>6. With(status', {"pending"}) \subseteq With(status, {"pending"})
  BY <1>0, <1>1 DEF With, Types
<1>7. SlotsFilled'
  BY <1>0, <1>1, <1>6 DEF SlotsFilled, workerVars
<1> QED
  BY <1>4, <1>5, <1>7 DEF WorkerInv

\* A restart forgets every worker; its queue is processed before it runs.
LEMMA ReloadKeepsWorkers ==
  ASSUME WorkerInv, Reload, records' \in [Account -> SUBSET Book]
  PROVE  WorkerInv'
<1>1. Types'
  BY DEF Reload, WorkerInv, Types
<1>2. ChainsOfWorkers' /\ WorkersMatchTasks'
  BY DEF Reload, ChainsOfWorkers, WorkersMatchTasks
<1>3. SlotsFilled'
  BY FS_EmptySet, ConstantsOK DEF Reload, SlotsFilled, ConstantsOK
<1> QED
  BY <1>1, <1>2, <1>3 DEF WorkerInv

\* Only books are recorded: a SoNovel download leaves no record.
LEMMA RecordedType ==
  ASSUME Types, NEW t \in Task
  PROVE  Recorded(t) \in [Account -> SUBSET Book]
BY DEF Types, Recorded, IsBook

\* The invariant of workers and slots holds at first.
LEMMA WorkerInvInit == Init => WorkerInv
<1> SUFFICES ASSUME Init PROVE WorkerInv
  OBVIOUS
<1>1. Types /\ ChainsOfWorkers /\ WorkersMatchTasks
  BY DEF Init, Types, ChainsOfWorkers, WorkersMatchTasks, Status, Snapshot
<1>2. With(status, {"pending"}) = {}
  BY DEF Init, With
<1>3. SlotsFilled
  BY <1>2, FS_EmptySet, ConstantsOK DEF Init, SlotsFilled, ConstantsOK
<1> QED
  BY <1>1, <1>3 DEF WorkerInv

\* Every turn, save and restart keeps the invariant of workers and slots.
LEMMA WorkerInvStep == WorkerInv /\ [Next]_vars => WorkerInv'
<1> SUFFICES ASSUME WorkerInv, [Next]_vars
             PROVE  WorkerInv'
  OBVIOUS
<1>0. Types /\ ChainsOfWorkers /\ WorkersMatchTasks /\ SlotsFilled
  BY DEF WorkerInv
<1>1. CASE ProcessQueue
  <2>1. status \in [Task -> Status]
    BY <1>0 DEF Types
  <2> QED
    BY <1>1, <2>1, ProcessedKeepsWorkers DEF ProcessQueue
<1>2. CASE ClearCompleted
  BY <1>2, DropKeepsWorkers DEF ClearCompleted
<1>3. CASE PersistTimer
  <2>1. /\ UNCHANGED <<queueVars, workerVars, account, records, mode>>
        /\ Persist(TRUE)
    BY <1>3 DEF PersistTimer
  <2>2. disk'.status \in [Task -> Status]
    BY <1>0, <2>1, PersistKeepsDisk DEF Types, queueVars
  <2> QED
    BY <1>0, <2>1, <2>2 DEF WorkerInv, Types, ChainsOfWorkers, WorkersMatchTasks, SlotsFilled,
                             queueVars, workerVars
<1>4. CASE Restart
  BY <1>0, <1>4, ReloadKeepsWorkers DEF Restart, Types
<1>5. ASSUME NEW t \in Task, Enqueue(t)
      PROVE  WorkerInv'
  <2> DEFINE st == [status EXCEPT ![t] = "pending"]
             own == [owner EXCEPT ![t] = IF IsBook(t) THEN account ELSE Legacy]
  <2>1. /\ status[t] = "fresh"
        /\ Processed(st, <<t>> \o list, [prog EXCEPT ![t] = 0], own)
        /\ account' = account /\ records' = records
    BY <1>5 DEF Enqueue
  <2>2. st \in [Task -> Status] /\ \A u \in active : st[u] = status[u]
    BY <1>0, <2>1 DEF Types, WorkersMatchTasks, Status, Live
  <2> HIDE DEF st, own
  <2> QED
    BY <2>1, <2>2, ProcessedKeepsWorkers
<1>6. ASSUME NEW t \in Task, Retry(t)
      PROVE  WorkerInv'
  <2> DEFINE st == [status EXCEPT ![t] = "pending"]
  <2>1. /\ status[t] = "failed"
        /\ Processed(st, list, [prog EXCEPT ![t] = 0], owner)
        /\ account' = account /\ records' = records
    BY <1>6 DEF Retry
  <2>2. st \in [Task -> Status] /\ \A u \in active : st[u] = status[u]
    BY <1>0, <2>1 DEF Types, WorkersMatchTasks, Status, Live
  <2> HIDE DEF st
  <2> QED
    BY <2>1, <2>2, ProcessedKeepsWorkers
<1>7. ASSUME NEW t \in Task, Remove(t)
      PROVE  WorkerInv'
  BY <1>7, DropKeepsWorkers DEF Remove
<1>8. ASSUME NEW t \in Task, StartTransfer(t)
      PROVE  WorkerInv'
  BY <1>0, <1>8 DEF StartTransfer, WorkerInv, Types, ChainsOfWorkers, WorkersMatchTasks,
                    SlotsFilled, queueVars, diskVars
<1>9. ASSUME NEW t \in Task, Progress(t)
      PROVE  WorkerInv'
  BY <1>0, <1>9 DEF Progress, WorkerInv, Types, ChainsOfWorkers, WorkersMatchTasks,
                    SlotsFilled, workerVars
<1>10. ASSUME NEW t \in Task, Complete(t)
       PROVE  WorkerInv'
  BY <1>0, <1>10, SettleKeepsWorkers, RecordedType DEF Complete
<1>11. ASSUME NEW t \in Task, Fail(t)
       PROVE  WorkerInv'
  BY <1>0, <1>11, SettleKeepsWorkers DEF Fail, Types
<1>12. ASSUME NEW t \in Task, RestartAfterRecord(t)
       PROVE  WorkerInv'
  BY <1>0, <1>12, ReloadKeepsWorkers, RecordedType DEF RestartAfterRecord
<1>13. ASSUME NEW a \in Account, SwitchAccount(a)
       PROVE  WorkerInv'
  BY <1>0, <1>13 DEF SwitchAccount, WorkerInv, Types, ChainsOfWorkers, WorkersMatchTasks,
                     SlotsFilled, queueVars, workerVars, diskVars
<1>14. CASE UNCHANGED vars
  BY <1>0, <1>14 DEF vars, WorkerInv, Types, ChainsOfWorkers, WorkersMatchTasks,
                     SlotsFilled, queueVars, workerVars, diskVars
<1> QED
  BY <1>1, <1>2, <1>3, <1>4, <1>5, <1>6, <1>7, <1>8, <1>9, <1>10, <1>11, <1>12, <1>13, <1>14
     DEF Next

\* The queue keeps its types through every turn, save and restart.
THEOREM TypesInvariant == Spec => []Types
BY WorkerInvInit, WorkerInvStep, PTL DEF Spec, WorkerInv

(* Whatever the interleaving of enqueues, removals, retries, failures and   *)
(* restarts, a task is marked downloading exactly while a chain runs it.    *)
THEOREM WorkersSafe == Spec => []WorkersMatchTasks
BY WorkerInvInit, WorkerInvStep, PTL DEF Spec, WorkerInv

(* For every number of slots: no more are used than there are, and no task  *)
(* waits beside a free one.                                                 *)
THEOREM SlotsSafe == Spec => []SlotsFilled
BY WorkerInvInit, WorkerInvStep, PTL DEF Spec, WorkerInv

-----------------------------------------------------------------------------
(* The file.  Progress is the only thing that waits for the debounced save, *)
(* so after a save that succeeded the file lags behind in progress at most. *)
StatusFlushed == wroteOk => disk.status = status /\ disk.list = list

DiskShape == disk = [status |-> disk.status, list |-> disk.list, prog |-> disk.prog]

\* A task completed in memory has its record, so whatever is saved has.
CompletedHasRecord ==
  \A t \in Task : status[t] = "completed" /\ IsBook(t) =>
                   \E a \in Account : KeyOf[t] \in records[a]

SavedInv == DiskShape /\ DiskCurrent /\ StatusFlushed

FileInv == SavedInv /\ CompletedHasRecord /\ CompletedIsRecorded

\* A turn that changes the queue tries to save it, so the file stays current.
LEMMA PersistKeepsSaved ==
  ASSUME SavedInv, NEW attempt \in BOOLEAN, Persist(attempt),
         ~attempt => Snapshot' = Snapshot /\ (unsaved' \/ ~unsaved)
  PROVE  SavedInv' /\ (disk' = disk \/ disk' = Snapshot')
<1>1. PICK ok \in BOOLEAN :
        /\ disk' = IF attempt /\ ok THEN Snapshot' ELSE disk
        /\ wroteOk' = IF attempt THEN ok ELSE wroteOk
  BY DEF Persist
<1>2. CASE attempt /\ ok
  BY <1>1, <1>2 DEF SavedInv, DiskShape, DiskCurrent, StatusFlushed, Snapshot
<1>3. CASE attempt /\ ~ok
  BY <1>1, <1>3 DEF SavedInv, DiskShape, DiskCurrent, StatusFlushed
<1>4. CASE ~attempt
  <2>1. status' = status /\ list' = list /\ Snapshot' = Snapshot
    BY <1>4 DEF Snapshot
  <2> QED
    BY <1>1, <1>4, <2>1 DEF SavedInv, DiskShape, DiskCurrent, StatusFlushed
<1> QED
  BY <1>2, <1>3, <1>4

\* Only the end of a transfer completes a task.
LEMMA DispatchCompletesNone ==
  ASSUME NEW st \in [Task -> Status], NEW l, NEW pr, NEW act, Dispatch(st, l, pr, act),
         NEW t \in Task, status'[t] = "completed"
  PROVE  st[t] = "completed"
<1>1. PICK C \in Claims(st, l, act) :
        status' = PrunedStatus([u \in Task |-> IF u \in C THEN "downloading" ELSE st[u]], l)
  BY Zenon DEF Dispatch
<1> QED
  BY <1>1 DEF PrunedStatus

\* What every step owes to the records: none is lost, and each task that is
\* completed after it was completed before it or is recorded by it.
LEMMA RecordsFollow ==
  ASSUME FileInv, DiskShape',
         disk' = disk \/ disk' = Snapshot',
         \A a \in Account : records[a] \subseteq records'[a],
         \A t \in Task : status'[t] = "completed" /\ IsBook(t) =>
            status[t] = "completed" \/ \E a \in Account : KeyOf[t] \in records'[a]
  PROVE  CompletedHasRecord' /\ CompletedIsRecorded'
<1>1. CompletedHasRecord'
  BY DEF FileInv, CompletedHasRecord
<1>2. CASE disk' = disk
  BY <1>1, <1>2 DEF FileInv, CompletedIsRecorded
<1>3. CASE disk' = Snapshot'
  BY <1>1, <1>3 DEF CompletedHasRecord, CompletedIsRecorded, Snapshot
<1> QED
  BY <1>1, <1>2, <1>3

\* processQueue saves what it changed, so it keeps the invariant of the file.
LEMMA ProcessedKeepsFile ==
  ASSUME FileInv, NEW st \in [Task -> Status], NEW l, NEW pr, NEW own,
         \A t \in Task : st[t] = "completed" => status[t] = "completed",
         Processed(st, l, pr, own), records' = records
  PROVE  FileInv'
<1> DEFINE ready == ForeignFailed(Recovered(st), own)
           reset == [t \in Task |-> IF t \in Stale(st) THEN 0 ELSE pr[t]]
           saved == active' \ active # {} \/ Snapshot' # Snapshot
<1>1. /\ Dispatch(ready, l, reset, active)
      /\ Persist(saved)
      /\ ~saved => unsaved' = unsaved
  BY DEF Processed
<1>2. /\ ready \in [Task -> Status]
      /\ \A t \in Task : ready[t] = "completed" => st[t] = "completed"
  BY DEF ForeignFailed, Recovered, Status, Live, Settled
<1>3. SavedInv' /\ (disk' = disk \/ disk' = Snapshot')
  <2>1. saved \in BOOLEAN /\ (~saved => Snapshot' = Snapshot)
    OBVIOUS
  <2> HIDE DEF saved
  <2> QED
    BY <1>1, <2>1, PersistKeepsSaved DEF FileInv
<1> HIDE DEF ready, reset, saved
<1>4. \A t \in Task : status'[t] = "completed" => status[t] = "completed"
  BY <1>1, <1>2, DispatchCompletesNone
<1>5. CompletedHasRecord' /\ CompletedIsRecorded'
  BY <1>3, <1>4, RecordsFollow DEF SavedInv
<1> QED
  BY <1>3, <1>5 DEF FileInv

\* The end of a download keeps it too: it flushes in its own turn.
LEMMA SettleKeepsFile ==
  ASSUME FileInv, Types, NEW t \in Task, NEW s \in {"completed", "failed"}, Settle(t, s),
         \A a \in Account : records[a] \subseteq records'[a],
         s = "completed" /\ IsBook(t) => \E a \in Account : KeyOf[t] \in records'[a]
  PROVE  FileInv'
<1> DEFINE reset == IF s = "completed" /\ status[t] # "gone" THEN [prog EXCEPT ![t] = 2] ELSE prog
           attempt == unsaved \/ Snapshot' # Snapshot
<1>1. /\ Dispatch(Marked(t, s), list, reset, active \ {t})
      /\ Persist(attempt)
  BY DEF Settle
<1>2. /\ Marked(t, s) \in [Task -> Status]
      /\ \A u \in Task : Marked(t, s)[u] = "completed" =>
                         status[u] = "completed" \/ (u = t /\ s = "completed")
  BY DEF Marked, Types, Status, Settled
<1>3. SavedInv' /\ (disk' = disk \/ disk' = Snapshot')
  <2>1. attempt \in BOOLEAN /\ (~attempt => Snapshot' = Snapshot /\ ~unsaved)
    OBVIOUS
  <2> HIDE DEF attempt
  <2> QED
    BY <1>1, <2>1, PersistKeepsSaved DEF FileInv
<1> HIDE DEF reset, attempt
<1>4. \A u \in Task : status'[u] = "completed" => status[u] = "completed" \/ (u = t /\ s = "completed")
  BY <1>1, <1>2, DispatchCompletesNone
<1>5. CompletedHasRecord' /\ CompletedIsRecorded'
  BY <1>3, <1>4, RecordsFollow DEF SavedInv
<1> QED
  BY <1>3, <1>5 DEF FileInv

\* A restart begins with exactly what the file holds.
LEMMA ReloadKeepsFile ==
  ASSUME FileInv, Reload,
         \A a \in Account : records[a] \subseteq records'[a]
  PROVE  FileInv'
<1>1. /\ status' = disk.status /\ list' = disk.list /\ prog' = disk.prog
      /\ disk' = disk
  BY DEF Reload
<1>2. SavedInv'
  BY <1>1 DEF FileInv, SavedInv, DiskShape, DiskCurrent, StatusFlushed, Snapshot
<1>3. CompletedHasRecord' /\ CompletedIsRecorded'
  BY <1>1 DEF FileInv, CompletedHasRecord, CompletedIsRecorded
<1> QED
  BY <1>2, <1>3 DEF FileInv

\* Taking tasks out of the list saves the list.
LEMMA DropKeepsFile ==
  ASSUME FileInv, Types, NEW S, Drop(S)
  PROVE  FileInv'
<1>1. /\ status' = [t \in Task |-> IF t \in S THEN "gone" ELSE status[t]]
      /\ Persist(TRUE)
      /\ records' = records
  BY DEF Drop
<1>2. SavedInv' /\ (disk' = disk \/ disk' = Snapshot')
  BY <1>1, PersistKeepsSaved DEF FileInv
<1>3. CompletedHasRecord' /\ CompletedIsRecorded'
  BY <1>1, <1>2, RecordsFollow DEF SavedInv
<1> QED
  BY <1>2, <1>3 DEF FileInv

\* No download record is lost, and a book has one once it was recorded.
LEMMA RecordedGrows ==
  ASSUME Types, NEW t \in Task
  PROVE  /\ \A a \in Account : records[a] \subseteq Recorded(t)[a]
         /\ IsBook(t) => \E a \in Account : KeyOf[t] \in Recorded(t)[a]
BY DEF Types, Recorded

\* The invariant of the file holds at first.
LEMMA FileInvInit == Init => FileInv
BY DEF Init, FileInv, SavedInv, DiskShape, DiskCurrent, StatusFlushed, Snapshot,
       CompletedHasRecord, CompletedIsRecorded

\* Every turn, save and restart keeps the invariant of the file.
LEMMA FileInvStep == FileInv /\ Types /\ [Next]_vars => FileInv'
<1> SUFFICES ASSUME FileInv, Types, [Next]_vars
             PROVE  FileInv'
  OBVIOUS
<1>1. CASE ProcessQueue
  <2>1. status \in [Task -> Status]
    BY DEF Types
  <2> QED
    BY <1>1, <2>1, ProcessedKeepsFile DEF ProcessQueue
<1>2. CASE ClearCompleted
  BY <1>2, DropKeepsFile DEF ClearCompleted
<1>3. CASE PersistTimer
  <2>1. /\ UNCHANGED <<status, list, prog, records>>
        /\ Persist(TRUE)
    BY <1>3 DEF PersistTimer, queueVars
  <2>2. SavedInv' /\ (disk' = disk \/ disk' = Snapshot')
    BY <2>1, PersistKeepsSaved DEF FileInv
  <2>3. CompletedHasRecord' /\ CompletedIsRecorded'
    BY <2>1, <2>2, RecordsFollow DEF SavedInv
  <2> QED
    BY <2>2, <2>3 DEF FileInv
<1>4. CASE Restart
  BY <1>4, ReloadKeepsFile DEF Restart
<1>5. ASSUME NEW t \in Task, Enqueue(t)
      PROVE  FileInv'
  <2> DEFINE st == [status EXCEPT ![t] = "pending"]
  <2>1. /\ st \in [Task -> Status]
        /\ \A u \in Task : st[u] = "completed" => status[u] = "completed"
    BY DEF Types, Status, Live
  <2> HIDE DEF st
  <2> QED
    BY <1>5, <2>1, ProcessedKeepsFile DEF Enqueue, st
<1>6. ASSUME NEW t \in Task, Retry(t)
      PROVE  FileInv'
  <2> DEFINE st == [status EXCEPT ![t] = "pending"]
  <2>1. /\ st \in [Task -> Status]
        /\ \A u \in Task : st[u] = "completed" => status[u] = "completed"
    BY DEF Types, Status, Live
  <2> HIDE DEF st
  <2> QED
    BY <1>6, <2>1, ProcessedKeepsFile DEF Retry, st
<1>7. ASSUME NEW t \in Task, Remove(t)
      PROVE  FileInv'
  BY <1>7, DropKeepsFile DEF Remove
<1>8. ASSUME NEW t \in Task, StartTransfer(t)
      PROVE  FileInv'
  BY <1>8 DEF StartTransfer, queueVars, diskVars, FileInv, SavedInv, DiskShape,
              DiskCurrent, StatusFlushed, Snapshot, CompletedHasRecord, CompletedIsRecorded
<1>9. ASSUME NEW t \in Task, Progress(t)
      PROVE  FileInv'
  BY <1>9 DEF Progress, FileInv, SavedInv, DiskShape, DiskCurrent, StatusFlushed,
              CompletedHasRecord, CompletedIsRecorded
<1>10. ASSUME NEW t \in Task, Complete(t)
       PROVE  FileInv'
  BY <1>10, RecordedGrows, SettleKeepsFile DEF Complete
<1>11. ASSUME NEW t \in Task, Fail(t)
       PROVE  FileInv'
  BY <1>11, SettleKeepsFile DEF Fail
<1>12. ASSUME NEW t \in Task, RestartAfterRecord(t)
       PROVE  FileInv'
  BY <1>12, RecordedGrows, ReloadKeepsFile DEF RestartAfterRecord
<1>13. ASSUME NEW a \in Account, SwitchAccount(a)
       PROVE  FileInv'
  BY <1>13 DEF SwitchAccount, queueVars, diskVars, FileInv, SavedInv, DiskShape,
               DiskCurrent, StatusFlushed, Snapshot, CompletedHasRecord, CompletedIsRecorded
<1>14. CASE UNCHANGED vars
  BY <1>14 DEF vars, queueVars, diskVars, FileInv, SavedInv, DiskShape, DiskCurrent,
               StatusFlushed, Snapshot, CompletedHasRecord, CompletedIsRecorded
<1> QED
  BY <1>1, <1>2, <1>3, <1>4, <1>5, <1>6, <1>7, <1>8, <1>9, <1>10, <1>11, <1>12, <1>13, <1>14
     DEF Next

\* The invariant of the file, for every reachable state.
LEMMA FileInvariant == Spec => []FileInv
BY FileInvInit, FileInvStep, TypesInvariant, PTL DEF Spec

(* However saves fail and restarts fall, one save that succeeds leaves the  *)
(* file equal to the queue.                                                 *)
THEOREM DiskSafe == Spec => []DiskCurrent
BY FileInvariant, PTL DEF FileInv, SavedInv

(* The record of a downloaded book is written before the task is completed, *)
(* so no crash leaves a completed task without its record.                  *)
THEOREM RecordSafe == Spec => []CompletedIsRecorded
BY FileInvariant, PTL DEF FileInv

(* After a save that succeeded, no restart loses a task or a status.        *)
THEOREM RestartSafe == Spec => RestartKeepsTasks
<1>1. FileInv /\ [Next]_vars => [restarts' # restarts /\ wroteOk => status' = status /\ list' = list]_vars
  <2> SUFFICES ASSUME FileInv, Next, restarts' # restarts, wroteOk
               PROVE  status' = status /\ list' = list
    BY DEF vars
  <2>1. Reload
    BY DEF Next, ProcessQueue, ClearCompleted, PersistTimer, Restart, Enqueue, Retry, Remove, Drop,
           StartTransfer, Progress, Complete, Fail, Settle, RestartAfterRecord, SwitchAccount
  <2> QED
    BY <2>1 DEF Reload, FileInv, SavedInv, StatusFlushed
<1> QED
  BY <1>1, FileInvariant, PTL DEF Spec, RestartKeepsTasks

\* A turn wakes no task: what is unfinished after it was so when it began.
LEMMA DispatchWakesNone ==
  ASSUME NEW st \in [Task -> Status], NEW l, NEW pr, NEW act, Dispatch(st, l, pr, act),
         NEW t \in Task, status'[t] \in Live
  PROVE  st[t] \in Live
<1>1. PICK C \in Claims(st, l, act) :
        status' = PrunedStatus([u \in Task |-> IF u \in C THEN "downloading" ELSE st[u]], l)
  BY Zenon DEF Dispatch
<1>2. C \subseteq With(st, {"pending"})
  BY DEF Claims
<1> QED
  BY <1>1, <1>2 DEF PrunedStatus, With, Live

\* processQueue brings no settled task back but those its caller names.
LEMMA ProcessedWakesNone ==
  ASSUME NEW st \in [Task -> Status], NEW l, NEW pr, NEW own, Processed(st, l, pr, own),
         NEW t \in Task, status'[t] \in Live
  PROVE  st[t] \in Live
<1> DEFINE ready == ForeignFailed(Recovered(st), own)
           reset == [u \in Task |-> IF u \in Stale(st) THEN 0 ELSE pr[u]]
<1>1. Dispatch(ready, l, reset, active)
  BY DEF Processed
<1>2. ready \in [Task -> Status] /\ (ready[t] \in Live => st[t] \in Live)
  BY DEF ForeignFailed, Recovered, Stale, Status, Live, Settled
<1> HIDE DEF ready, reset
<1> QED
  BY <1>1, <1>2, DispatchWakesNone

(* A settled task runs again only because the user retries it, or because a *)
(* restart reads back a file that an unreported failure left behind.        *)
THEOREM SettledSafe == Spec => SettledStaysSettled
<1>1. FileInv /\ Types /\ [Next]_vars =>
        [\A t \in Task : status[t] \in Settled /\ status'[t] \in Live =>
            Retry(t) \/ (restarts' # restarts /\ ~wroteOk)]_vars
  <2> SUFFICES ASSUME FileInv, Types, Next, NEW t \in Task,
                      status[t] \in Settled, status'[t] \in Live
               PROVE  Retry(t) \/ (restarts' # restarts /\ ~wroteOk)
    BY DEF vars
  <2>0. status \in [Task -> Status] /\ status[t] \notin Live
    BY DEF Types, Live, Settled
  <2>1. CASE ProcessQueue
    BY <2>0, <2>1, ProcessedWakesNone DEF ProcessQueue
  <2>2. CASE Reload
    <3>1. restarts' # restarts
      BY <2>2, ConstantsOK DEF Reload, ConstantsOK
    <3>2. CASE wroteOk
      BY <2>0, <2>2, <3>2 DEF Reload, FileInv, SavedInv, StatusFlushed
    <3> QED
      BY <3>1, <3>2
  <2>3. CASE \E u \in Task : Enqueue(u)
    <3>1. PICK u \in Task : Enqueue(u)
      BY <2>3
    <3> DEFINE st == [status EXCEPT ![u] = "pending"]
    <3>2. status[u] = "fresh" /\ st \in [Task -> Status]
      BY <2>0, <3>1 DEF Enqueue, Status, Live
    <3>3. st[t] \in Live
      BY <3>1, <3>2, ProcessedWakesNone DEF Enqueue
    <3> QED
      BY <2>0, <3>2, <3>3 DEF Settled
  <2>4. CASE \E u \in Task : Retry(u)
    <3>1. PICK u \in Task : Retry(u)
      BY <2>4
    <3> DEFINE st == [status EXCEPT ![u] = "pending"]
    <3>2. st \in [Task -> Status]
      BY <2>0 DEF Status, Live
    <3>3. st[t] \in Live
      BY <3>1, <3>2, ProcessedWakesNone DEF Retry
    <3>4. t = u
      BY <2>0, <3>3
    <3> QED
      BY <3>1, <3>4
  <2>5. CASE \E u \in Task, s \in {"completed", "failed"} : Settle(u, s)
    <3>1. PICK u \in Task, s \in {"completed", "failed"} : Settle(u, s)
      BY <2>5
    <3>2. Marked(u, s) \in [Task -> Status] /\ (Marked(u, s)[t] \in Live => status[t] \in Live)
      BY <2>0 DEF Marked, Status, Settled, Live
    <3> QED
      BY <2>0, <3>1, <3>2, DispatchWakesNone DEF Settle
  <2>6. CASE \E S : Drop(S)
    BY <2>0, <2>6 DEF Drop, Live
  <2>7. CASE UNCHANGED status
    BY <2>0, <2>7
  <2> QED
    BY <2>1, <2>2, <2>3, <2>4, <2>5, <2>6, <2>7
       DEF Next, ClearCompleted, PersistTimer, Restart, Remove, StartTransfer, Progress, Complete,
           Fail, RestartAfterRecord, SwitchAccount, queueVars
<1> QED
  BY <1>1, FileInvariant, TypesInvariant, PTL DEF Spec, SettledStaysSettled

-----------------------------------------------------------------------------
(* DownloadQueue implements WorkerPool: every turn of the thread, with the  *)
(* list, the file and the chains left out, is a step of the pool or none.   *)

\* What a good save promises rests on both invariants of the queue.
PoolInv == WorkerInv /\ FileInv /\ wroteOk \in BOOLEAN

\* What the pool calls waiting.
Waiting == With(status, Live) \ active

-----------------------------------------------------------------------------
\* The pool counts as the queue does.
LEMMA SameCardinality == ASSUME NEW S PROVE Pool!Cardinality(S) = Cardinality(S)
BY Zenon DEF Pool!Cardinality, Cardinality

\* Admit, with the counting of the queue.
LEMMA AdmitCounts ==
  ASSUME NEW W, NEW R,
         Waiting' \subseteq W,
         active' = R \cup (W \ Waiting'),
         Cardinality(active') <= MaxConcurrent,
         Waiting' # {} => Cardinality(active') = MaxConcurrent
  PROVE  Pool!Admit(W, R)
BY SameCardinality DEF Pool!Admit, Waiting

\* While the queue runs, waiting tasks are the ones marked pending.
LEMMA WaitingPending ==
  ASSUME WorkerInv, mode = "run"
  PROVE  Waiting = With(status, {"pending"})
BY DEF WorkerInv, Types, WorkersMatchTasks, Waiting, With, Live

(* A turn that hands out slots admits, of the tasks that wait when the      *)
(* hand-out begins, as many as there are slots.                             *)
LEMMA DispatchAdmits ==
  ASSUME Types,
         NEW st \in [Task -> Status], NEW l, NEW pr, NEW act \in SUBSET Task,
         Cardinality(act) <= MaxConcurrent,
         \A t \in act : st[t] \in {"downloading", "gone"},
         \A t \in Task : st[t] = "downloading" => t \in act,
         Dispatch(st, l, pr, act)
  PROVE  /\ Waiting' \subseteq With(st, {"pending"})
         /\ active' = act \cup (With(st, {"pending"}) \ Waiting')
         /\ Cardinality(active') <= MaxConcurrent
         /\ Waiting' # {} => Cardinality(active') = MaxConcurrent
<1> DEFINE claimed(C) == [t \in Task |-> IF t \in C THEN "downloading" ELSE st[t]]
<1>1. PICK C \in Claims(st, l, act) :
        /\ active' = act \cup C
        /\ status' = PrunedStatus(claimed(C), l)
  BY Zenon DEF Dispatch
<1>2. C \subseteq With(st, {"pending"})
  BY ClaimsFillSlots
<1>3. \A t \in Task : claimed(C)[t] = IF t \in C THEN "downloading" ELSE st[t]
  OBVIOUS
<1>4. /\ \A t \in Task : status'[t] # "gone" => status'[t] = claimed(C)[t]
      /\ \A t \in Task : claimed(C)[t] \notin Settled => status'[t] = claimed(C)[t]
  <2> HIDE DEF claimed
  <2> QED
    BY <1>1 DEF PrunedStatus
<1> HIDE DEF claimed
<1>5. Waiting' = With(st, {"pending"}) \ C
  BY <1>1, <1>2, <1>3, <1>4 DEF Waiting, With, Live, Settled
<1>6. /\ Cardinality(active') <= MaxConcurrent
      /\ With(status', {"pending"}) # {} => Cardinality(active') = MaxConcurrent
  BY DispatchKeepsWorkers
<1>7. Waiting' \subseteq With(status', {"pending"})
  BY <1>2, <1>3, <1>4, <1>5 DEF With, Settled
<1> QED
  BY <1>1, <1>2, <1>5, <1>6, <1>7

\* processQueue admits some of the tasks that its caller leaves unfinished.
LEMMA ProcessedAdmits ==
  ASSUME WorkerInv,
         NEW st \in [Task -> Status], NEW l, NEW pr, NEW own,
         \A t \in active : st[t] = status[t],
         Processed(st, l, pr, own)
  PROVE  \E W \in SUBSET (With(st, Live) \ active) : Pool!Admit(W, active)
<1> DEFINE ready == ForeignFailed(Recovered(st), own)
           reset == [t \in Task |-> IF t \in Stale(st) THEN 0 ELSE pr[t]]
<1>1. Dispatch(ready, l, reset, active)
  BY Zenon DEF Processed
<1>2. /\ ready \in [Task -> Status]
      /\ \A t \in active : ready[t] \in {"downloading", "gone"}
      /\ \A t \in Task : ready[t] = "downloading" => t \in active
      /\ With(ready, {"pending"}) \subseteq With(st, Live) \ active
  BY DEF ForeignFailed, Recovered, Stale, WorkerInv, Types, WorkersMatchTasks, With, Status, Live,
         Settled
<1> HIDE DEF ready, reset
<1>3. Pool!Admit(With(ready, {"pending"}), active)
  <2>1. Types /\ active \in SUBSET Task /\ Cardinality(active) <= MaxConcurrent
    BY DEF WorkerInv, Types, SlotsFilled
  <2>2. /\ Waiting' \subseteq With(ready, {"pending"})
        /\ active' = active \cup (With(ready, {"pending"}) \ Waiting')
        /\ Cardinality(active') <= MaxConcurrent
        /\ Waiting' # {} => Cardinality(active') = MaxConcurrent
    BY <1>1, <1>2, <2>1, DispatchAdmits
  <2> QED
    BY <2>2, AdmitCounts
<1> QED
  BY <1>2, <1>3

\* A turn without a hand-out, while the queue runs, may take waiting tasks away.
LEMMA GivenUp ==
  ASSUME WorkerInv, mode = "run", mode' = "run", active' = active, Waiting' \subseteq Waiting
  PROVE  Pool!GiveUp
<1>1. Waiting' # {} => Cardinality(active) = MaxConcurrent
  BY WaitingPending DEF WorkerInv, SlotsFilled
<1>2. Pool!Admit(Waiting', active)
  BY <1>1, AdmitCounts DEF WorkerInv, SlotsFilled
<1> QED
  BY <1>2 DEF Pool!GiveUp, Waiting

\* A restart reads back what the last good save holds.
LEMMA ReloadDies ==
  ASSUME PoolInv, Reload
  PROVE  Pool!Die
<1>1. Waiting' = With(disk.status, Live) /\ active' = {}
  BY DEF Reload, Waiting
<1>2. wroteOk => Waiting' = With(status, Live)
  BY <1>1 DEF PoolInv, FileInv, SavedInv, StatusFlushed
<1>3. mode' # "run"
  BY DEF Reload
<1> QED
  BY <1>1, <1>2, <1>3 DEF Pool!Die, Waiting, With

\* A save succeeds or fails.
LEMMA PersistTold ==
  ASSUME wroteOk \in BOOLEAN, NEW attempt, Persist(attempt)
  PROVE  wroteOk' \in BOOLEAN
BY DEF Persist

-----------------------------------------------------------------------------
\* The last save is known in every state.
LEMMA PoolInvStep == PoolInv /\ [Next]_vars => PoolInv'
<1> SUFFICES ASSUME PoolInv, [Next]_vars
             PROVE  PoolInv'
  OBVIOUS
<1>1. WorkerInv' /\ FileInv'
  BY WorkerInvStep, FileInvStep DEF PoolInv, WorkerInv
<1>2. wroteOk' \in BOOLEAN
  <2>1. ASSUME NEW st, NEW l, NEW pr, NEW own, Processed(st, l, pr, own)
        PROVE  wroteOk' \in BOOLEAN
    BY <2>1, PersistTold, Zenon DEF Processed, PoolInv
  <2>2. ASSUME NEW t, NEW s, Settle(t, s)
        PROVE  wroteOk' \in BOOLEAN
    BY <2>2, PersistTold, Zenon DEF Settle, PoolInv
  <2>3. ASSUME NEW S, Drop(S)
        PROVE  wroteOk' \in BOOLEAN
    BY <2>3, PersistTold, Zenon DEF Drop, PoolInv
  <2>4. ASSUME PersistTimer
        PROVE  wroteOk' \in BOOLEAN
    BY <2>4, PersistTold, Zenon DEF PersistTimer, PoolInv
  <2>5. ASSUME Reload
        PROVE  wroteOk' \in BOOLEAN
    BY <2>5 DEF Reload
  <2>6. ASSUME UNCHANGED wroteOk
        PROVE  wroteOk' \in BOOLEAN
    BY <2>6 DEF PoolInv
  <2> QED
    BY <2>1, <2>2, <2>3, <2>4, <2>5, <2>6
       DEF Next, ProcessQueue, ClearCompleted, Restart, Enqueue, Retry, Remove, StartTransfer,
           Progress, Complete, Fail, RestartAfterRecord, SwitchAccount, vars, diskVars
<1> QED
  BY <1>1, <1>2 DEF PoolInv

\* The empty queue is the empty pool.
LEMMA PoolInit == Init => Pool!Init /\ PoolInv
<1> SUFFICES ASSUME Init PROVE Pool!Init /\ PoolInv
  OBVIOUS
<1>1. PoolInv
  BY WorkerInvInit, FileInvInit DEF PoolInv, Init
<1>2. Pool!Init
  BY DEF Init, Pool!Init, With, Live
<1> QED
  BY <1>1, <1>2

\* Each turn, save and restart is a step of the pool, or leaves it as it is.
LEMMA PoolStep == PoolInv /\ PoolInv' /\ [Next]_vars => [Pool!Next]_(Pool!vars)
<1> SUFFICES ASSUME PoolInv, PoolInv', [Next]_vars
             PROVE  Pool!Next \/ UNCHANGED Pool!vars
  OBVIOUS
<1>0. /\ WorkerInv /\ Types /\ ChainsOfWorkers /\ WorkersMatchTasks /\ SlotsFilled
      /\ wroteOk' \in BOOLEAN
  BY DEF PoolInv, WorkerInv
<1>a. ASSUME Pool!GiveUp \/ Pool!Die \/ Pool!Reopen \/ \E t \in Task : Pool!Submit(t) \/ Pool!Finish(t)
      PROVE  Pool!Next
  BY <1>0, <1>a DEF Pool!Next
<1>1. CASE ProcessQueue
  <2>1. /\ status \in [Task -> Status]
        /\ Processed(status, list, prog, owner)
        /\ mode' = "run"
    BY <1>0, <1>1 DEF ProcessQueue, Processed, Types
  <2>2. PICK W \in SUBSET Waiting : Pool!Admit(W, active)
    BY <1>0, <2>1, ProcessedAdmits DEF Waiting
  <2>3. CASE mode = "run"
    BY <1>a, <2>1, <2>2, <2>3 DEF Pool!GiveUp, Waiting
  <2>4. CASE mode = "boot"
    <3>1. active = {}
      BY <1>0, <2>4 DEF ChainsOfWorkers
    <3> QED
      BY <1>a, <2>1, <2>2, <2>4, <3>1 DEF Pool!Reopen, Waiting
  <2> QED
    BY <1>0, <2>3, <2>4 DEF Types
<1>2. ASSUME NEW S, Drop(S)
      PROVE  Pool!Next
  <2>1. /\ mode = "run" /\ mode' = "run" /\ active' = active
        /\ status' = [t \in Task |-> IF t \in S THEN "gone" ELSE status[t]]
    BY <1>2 DEF Drop, workerVars
  <2>2. Waiting' \subseteq Waiting
    BY <2>1 DEF Waiting, With, Live
  <2> QED
    BY <1>0, <1>a, <2>1, <2>2, GivenUp
<1>3. CASE PersistTimer
  <2>1. /\ UNCHANGED <<status, active, mode>>
    BY <1>3 DEF PersistTimer, queueVars, workerVars
  <2>2. CASE mode = "run"
    BY <1>0, <1>a, <2>1, <2>2, GivenUp DEF Waiting
  <2>3. CASE mode = "boot"
    <3>1. PICK ok \in BOOLEAN : wroteOk' = ok /\ (ok => disk' = Snapshot')
      BY <1>3 DEF PersistTimer, Persist
    <3> QED
      BY <1>0, <1>a, <2>1, <2>3 DEF Pool!Die, Waiting, ChainsOfWorkers, With
  <2> QED
    BY <1>0, <2>2, <2>3 DEF Types
<1>4. CASE Restart
  BY <1>4, <1>a, ReloadDies DEF Restart
<1>5. ASSUME NEW t \in Task, Enqueue(t)
      PROVE  Pool!Next
  <2> DEFINE st == [status EXCEPT ![t] = "pending"]
             own == [owner EXCEPT ![t] = IF IsBook(t) THEN account ELSE Legacy]
  <2>1. /\ mode = "run" /\ mode' = "run" /\ status[t] = "fresh"
        /\ Processed(st, <<t>> \o list, [prog EXCEPT ![t] = 0], own)
    BY <1>5 DEF Enqueue, Processed
  <2>2. /\ st \in [Task -> Status]
        /\ \A u \in active : st[u] = status[u]
        /\ With(st, Live) \ active = Waiting \cup {t}
        /\ t \notin Waiting \cup active
    BY <1>0, <2>1 DEF Types, WorkersMatchTasks, Status, Live, Waiting, With
  <2> HIDE DEF st, own
  <2>3. \E W \in SUBSET (Waiting \cup {t}) : Pool!Admit(W, active)
    BY <1>0, <2>1, <2>2, ProcessedAdmits
  <2> QED
    BY <1>a, <2>1, <2>2, <2>3 DEF Pool!Submit, Waiting
<1>6. ASSUME NEW t \in Task, Retry(t)
      PROVE  Pool!Next
  <2> DEFINE st == [status EXCEPT ![t] = "pending"]
  <2>1. /\ mode = "run" /\ mode' = "run" /\ status[t] = "failed"
        /\ Processed(st, list, [prog EXCEPT ![t] = 0], owner)
    BY <1>6 DEF Retry, Processed
  <2>2. /\ st \in [Task -> Status]
        /\ \A u \in active : st[u] = status[u]
        /\ With(st, Live) \ active = Waiting \cup {t}
        /\ t \notin Waiting \cup active
    BY <1>0, <2>1 DEF Types, WorkersMatchTasks, Status, Live, Waiting, With
  <2> HIDE DEF st
  <2>3. \E W \in SUBSET (Waiting \cup {t}) : Pool!Admit(W, active)
    BY <1>0, <2>1, <2>2, ProcessedAdmits
  <2> QED
    BY <1>a, <2>1, <2>2, <2>3 DEF Pool!Submit, Waiting
<1>7. ASSUME NEW t \in Task, NEW s \in {"completed", "failed"}, phase[t] # "idle", Settle(t, s)
      PROVE  Pool!Next
  <2> DEFINE rest == active \ {t}
             reset == IF s = "completed" /\ status[t] # "gone" THEN [prog EXCEPT ![t] = 2] ELSE prog
  <2>1. /\ Dispatch(Marked(t, s), list, reset, rest)
        /\ mode' = mode
    BY <1>7, Zenon DEF Settle
  <2>2. t \in active /\ mode = "run"
    BY <1>0, <1>7 DEF ChainsOfWorkers, Types
  <2>3. /\ Marked(t, s) \in [Task -> Status]
        /\ rest \in SUBSET Task
        /\ \A u \in rest : Marked(t, s)[u] \in {"downloading", "gone"}
        /\ \A u \in Task : Marked(t, s)[u] = "downloading" => u \in rest
        /\ With(Marked(t, s), {"pending"}) = With(status, {"pending"})
    BY <1>0, <1>7, <2>2 DEF Marked, Types, WorkersMatchTasks, Status, Live, Settled, With
  <2>4. Cardinality(rest) <= MaxConcurrent
    <3>1. IsFiniteSet(active) /\ Cardinality(active) \in Nat /\ MaxConcurrent \in Nat
      BY <1>0, FS_Subset, FS_CardinalityType, ConstantsOK DEF Types, ConstantsOK
    <3>2. Cardinality(rest) = Cardinality(active) - 1
      BY <2>2, <3>1, FS_RemoveElement
    <3> QED
      BY <1>0, <3>1, <3>2 DEF SlotsFilled
  <2> HIDE DEF rest, reset
  <2>5. /\ Waiting' \subseteq Waiting
        /\ active' = rest \cup (Waiting \ Waiting')
        /\ Cardinality(active') <= MaxConcurrent
        /\ Waiting' # {} => Cardinality(active') = MaxConcurrent
    BY <1>0, <2>1, <2>2, <2>3, <2>4, DispatchAdmits, WaitingPending
  <2>6. Pool!Finish(t)
    <3>1. Pool!Admit(Waiting, rest)
      BY <2>5, AdmitCounts
    <3> QED
      BY <2>1, <2>2, <3>1 DEF Pool!Finish, Waiting, rest
  <2> QED
    BY <1>a, <2>6
<1>8. ASSUME NEW t \in Task, RestartAfterRecord(t)
      PROVE  Pool!Next
  BY <1>8, <1>a, ReloadDies DEF RestartAfterRecord
<1>9. ASSUME UNCHANGED <<status, active, mode, wroteOk>>
      PROVE  UNCHANGED Pool!vars
  BY <1>9 DEF Pool!vars, With
<1>10. ASSUME NEW t \in Task, StartTransfer(t) \/ Progress(t)
       PROVE  UNCHANGED <<status, active, mode, wroteOk>>
  BY <1>10 DEF StartTransfer, Progress, queueVars, workerVars, diskVars
<1>11. ASSUME NEW a \in Account, SwitchAccount(a)
       PROVE  UNCHANGED <<status, active, mode, wroteOk>>
  BY <1>11 DEF SwitchAccount, queueVars, workerVars, diskVars
<1>12. CASE UNCHANGED vars
  BY <1>9, <1>12 DEF vars, queueVars, workerVars, diskVars
<1> QED
  BY <1>1, <1>2, <1>3, <1>4, <1>5, <1>6, <1>7, <1>8, <1>9, <1>10, <1>11, <1>12
     DEF Next, ClearCompleted, Remove, Complete, Fail

(* The download queue implements the pool of workers, for every number of   *)
(* tasks, slots, restarts and account switches.                             *)
THEOREM PoolImplemented == Spec => ImplementsPool
<1>1. Init => Pool!Init /\ PoolInv
  BY PoolInit
<1>2. PoolInv /\ [Next]_vars => PoolInv'
  BY PoolInvStep
<1>3. PoolInv /\ PoolInv' /\ [Next]_vars => [Pool!Next]_(Pool!vars)
  BY PoolStep
<1> QED
  BY <1>1, <1>2, <1>3, PTL DEF Spec, ImplementsPool, Pool!Spec
=============================================================================
