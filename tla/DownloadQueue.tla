--------------------------- MODULE DownloadQueue ---------------------------
(***************************************************************************)
(* The download queue of the client: DownloadTaskService.ets, driven by    *)
(* the detail pages, the download manager page and the ability lifecycle.  *)
(*                                                                         *)
(* Everything runs on the one ArkTS thread.  An action below is one turn   *)
(* of that thread: the code between two awaits.  A download is a promise   *)
(* chain (runTask) with two awaits: the session check and the transfer.    *)
(* The queue is one JSON string in the global preferences; a write that    *)
(* fails is not reported to ArkTS (PrefSet drops the result of writePref). *)
(***************************************************************************)
EXTENDS Lists

CONSTANTS
  Task,           \* task ids; an id is used by one enqueue
  Book,           \* talebook downloads: (bookId, format)
  Novel,          \* SoNovel downloads: (sourceId, url)
  KeyOf,          \* what each task downloads
  Account,        \* library accounts
  Legacy,         \* the account an empty accountId stands for
  MaxConcurrent,  \* MAX_CONCURRENT_DOWNLOADS
  MaxSettled,     \* MAX_SETTLED_TASKS
  MaxRestarts,    \* bound of the model: process deaths
  MaxSwitches     \* bound of the model: account switches

ASSUME ConstantsOK ==
  /\ IsFiniteSet(Task)
  /\ Book \cap Novel = {}
  /\ KeyOf \in [Task -> Book \cup Novel]
  /\ Legacy \in Account
  /\ MaxConcurrent \in Nat \ {0}
  /\ MaxSettled \in Nat \ {0}
  /\ MaxRestarts \in Nat
  /\ MaxSwitches \in Nat

VARIABLES
  status,    \* tasksCache: status of each task; "fresh" and "gone" are not in it
  list,      \* tasksCache: the order of its tasks
  prog,      \* progress of each task: 0 reset, 1 reported, 2 complete
  owner,     \* accountId of each task, the legacy account when it is empty
  home,      \* history: the account that enqueued the task
  active,    \* activeTaskIds
  phase,     \* what the promise chain of a task awaits
  account,   \* AccountStore.activeId()
  records,   \* downloads.json of each account: the books recorded as downloaded
  disk,      \* the queue in preferences.json
  unsaved,   \* persistDirty, which is set and cleared with persistTimer
  wroteOk,   \* history: the last write of the queue succeeded
  mode,      \* "boot": loaded from disk, not yet processed; then "run"
  restarts,  \* process deaths so far
  switches   \* account switches so far

queueVars == <<status, list, prog, owner, home>>
workerVars == <<active, phase>>
diskVars == <<disk, unsaved, wroteOk>>
vars == <<queueVars, workerVars, account, records, diskVars, mode, restarts, switches>>

Live == {"pending", "downloading"}
Settled == {"completed", "failed"}
Status == {"fresh", "gone"} \cup Live \cup Settled

IsBook(t) == KeyOf[t] \in Book

-----------------------------------------------------------------------------
(* The list: filtering, pruning, claiming.                                  *)

First(n, l) == SubSeq(l, 1, IF Len(l) < n THEN Len(l) ELSE n)

With(st, statuses) == {t \in Task : st[t] \in statuses}

\* Mutant: one settled task too many is kept.
KeepOneMore(st, l) == First(MaxSettled + 1, Only(l, With(st, Settled)))

(* pruneTasks: unfinished tasks first, then the MaxSettled newest settled   *)
(* ones.  A task that settles moves in front of the settled ones, so the    *)
(* sort by updatedAt keeps the order of the list.                           *)
Kept(st, l) == First(MaxSettled, Only(l, With(st, Settled)))

PrunedList(st, l) == Only(l, With(st, Live)) \o Kept(st, l)

\* Mutant: the limit counts every task, unfinished ones included.
PruneAnyTask(st, l) ==
  [t \in Task |-> IF t \notin Elems(First(MaxSettled, l)) /\ t \in Elems(l)
                  THEN "gone" ELSE st[t]]

PrunedStatus(st, l) ==
  [t \in Task |-> IF st[t] \in Settled /\ t \notin Elems(Kept(st, l))
                  THEN "gone" ELSE st[t]]

\* Mutant: failed tasks are requeued too.
StaleOrFailed(st) == {t \in Task : st[t] \in {"downloading", "failed"} /\ t \notin active}

\* Mutant: tasks that somebody runs wait again too.
StaleOrRunning(st) == {t \in Task : st[t] = "downloading"}

\* recoverStaleTasks: a task marked downloading that nobody runs waits again.
Stale(st) == {t \in Task : st[t] = "downloading" /\ t \notin active}

\* Mutant: tasks left marked downloading are not recovered.
NotRecovered(st) == st

Recovered(st) == [t \in Task |-> IF t \in Stale(st) THEN "pending" ELSE st[t]]

\* failForeignAccountTasks: a waiting talebook task of another account fails.
ForeignFailed(st, own) ==
  [t \in Task |-> IF st[t] = "pending" /\ IsBook(t) /\ own[t] # account
                  THEN "failed" ELSE st[t]]

(* pumpWorkers: claimPendingTask takes the first waiting task of the list   *)
(* until every slot is taken or none waits.                                 *)
Before(l, s, t) == \E i, j \in DOMAIN l : i < j /\ l[i] = s /\ l[j] = t

Smaller(m, n) == IF m < n THEN m ELSE n

\* Mutant: one claim per turn, an if in place of the while.
ClaimOne(st, l, act) ==
  {C \in SUBSET With(st, {"pending"}) :
     /\ Cardinality(C) = IF Cardinality(act) < MaxConcurrent THEN Smaller(1, Cardinality(With(st, {"pending"}))) ELSE 0
     /\ \A c \in C, w \in With(st, {"pending"}) \ C : Before(l, c, w)}

Claims(st, l, act) ==
  LET waiting == With(st, {"pending"})
      free    == IF Cardinality(act) < MaxConcurrent
                 THEN MaxConcurrent - Cardinality(act) ELSE 0
  IN  {C \in SUBSET waiting :
         /\ Cardinality(C) = Smaller(free, Cardinality(waiting))
         /\ \A c \in C, w \in waiting \ C : Before(l, c, w)}

Snapshot == [status |-> status, list |-> list, prog |-> prog]

(* flushPersist and writePref: the whole queue replaces the file, or the    *)
(* write fails, the file keeps its content and nobody is told.              *)
Persist(attempt) ==
  \E ok \in BOOLEAN :
    /\ disk' = IF attempt /\ ok THEN Snapshot' ELSE disk
    /\ wroteOk' = IF attempt THEN ok ELSE wroteOk

(* The common end of processQueue and of runTask: claim from the tasks st   *)
(* in the list l with the workers act busy, and save.                       *)
Dispatch(st, l, pr, act) ==
  \E C \in Claims(st, l, act) :
    /\ active' = act \cup C
    /\ LET claimed == [t \in Task |-> IF t \in C THEN "downloading" ELSE st[t]]
       IN  /\ status' = PrunedStatus(claimed, l)
           /\ list' = PrunedList(claimed, l)
    /\ prog' = [t \in Task |-> IF t \in C THEN 0 ELSE pr[t]]
    /\ phase' = [t \in Task |->
                   IF t \in C THEN (IF IsBook(t) THEN "auth" ELSE "transfer")
                   ELSE IF t \in act THEN phase[t] ELSE "idle"]

-----------------------------------------------------------------------------
Init ==
  /\ status = [t \in Task |-> "fresh"]
  /\ list = <<>>
  /\ prog = [t \in Task |-> 0]
  /\ account \in Account
  /\ owner = [t \in Task |-> Legacy]
  /\ home = [t \in Task |-> Legacy]
  /\ active = {}
  /\ phase = [t \in Task |-> "idle"]
  /\ records = [a \in Account |-> {}]
  /\ disk = Snapshot
  /\ unsaved = FALSE
  /\ wroteOk = TRUE
  /\ mode = "run"
  /\ restarts = 0
  /\ switches = 0

(* processQueue: recoverStaleTasks, failForeignAccountTasks, pumpWorkers.   *)
(* st, l, pr, own are the tasks as the caller left them in this turn.       *)
Processed(st, l, pr, own) ==
  /\ Dispatch(ForeignFailed(Recovered(st), own), l,
              [t \in Task |-> IF t \in Stale(st) THEN 0 ELSE pr[t]], active)
  /\ owner' = own
  /\ mode' = "run"
  /\ LET claimed == active' \ active
         saved   == claimed # {} \/ Snapshot' # Snapshot
     IN  /\ Persist(saved)
         \* a SoNovel download reports its first progress before its first
         \* await, so after the save of its claim
         /\ unsaved' = IF saved
                       THEN \E c \in claimed : ~IsBook(c) /\ \A d \in claimed : ~Before(l, c, d)
                       ELSE unsaved

\* onForeground and the download manager page process the queue.
ProcessQueue ==
  /\ Processed(status, list, prog, owner)
  /\ UNCHANGED <<home, account, records, restarts, switches>>

Duplicate(t) ==
  \E u \in Task : status[u] \in Live /\ KeyOf[u] = KeyOf[t]

(* enqueue and enqueueTalebook, then processQueue as their callers do.      *)
(* A request for what is already waiting or running adds no task.           *)
Enqueue(t) ==
  /\ mode = "run"
  /\ status[t] = "fresh"
  /\ ~Duplicate(t)
  /\ Processed([status EXCEPT ![t] = "pending"], <<t>> \o list,
               [prog EXCEPT ![t] = 0],
               [owner EXCEPT ![t] = IF IsBook(t) THEN account ELSE Legacy])
  /\ home' = [home EXCEPT ![t] = account]
  /\ UNCHANGED <<account, records, restarts, switches>>

\* Mutant: a retried task goes to the front, as a new one does.
RetryFirst(t) ==
  /\ mode = "run"
  /\ status[t] = "failed"
  /\ Processed([status EXCEPT ![t] = "pending"], <<t>> \o Only(list, Task \ {t}),
               [prog EXCEPT ![t] = 0], owner)
  /\ UNCHANGED <<home, account, records, restarts, switches>>

\* retry, which the page offers for failed tasks, then processQueue.
Retry(t) ==
  /\ mode = "run"
  /\ status[t] = "failed"
  /\ Processed([status EXCEPT ![t] = "pending"], list, [prog EXCEPT ![t] = 0], owner)
  /\ UNCHANGED <<home, account, records, restarts, switches>>

\* Mutant: the list is saved before the tasks are taken out of it.
DropAfterSave(S) ==
  /\ mode = "run"
  /\ status' = [t \in Task |-> IF t \in S THEN "gone" ELSE status[t]]
  /\ list' = Only(list, Task \ S)
  /\ UNCHANGED <<prog, owner, home, workerVars, account, records, mode, restarts, switches>>
  /\ unsaved' = FALSE
  /\ Persist(FALSE)

\* Drop the tasks of S from the list and save; nothing is cancelled.
Drop(S) ==
  /\ mode = "run"
  /\ status' = [t \in Task |-> IF t \in S THEN "gone" ELSE status[t]]
  /\ list' = Only(list, Task \ S)
  /\ UNCHANGED <<prog, owner, home, workerVars, account, records, mode, restarts, switches>>
  /\ unsaved' = FALSE
  /\ Persist(TRUE)

\* remove: a swipe deletes a task whatever its status.
Remove(t) == status[t] \in Live \cup Settled /\ Drop({t})

ClearCompleted == Drop(With(status, {"completed"}))

\* runTalebookTask: the session check has answered, the request leaves.
StartTransfer(t) ==
  /\ phase[t] = "auth"
  /\ phase' = [phase EXCEPT ![t] = "transfer"]
  /\ UNCHANGED <<queueVars, active, account, records, diskVars, mode, restarts, switches>>

\* updateProgress: server-sent progress, used when one download runs at a time.
Progress(t) ==
  /\ MaxConcurrent = 1
  /\ phase[t] = "transfer" /\ ~IsBook(t)
  /\ status[t] = "downloading"
  /\ prog' = [prog EXCEPT ![t] = 1]
  /\ unsaved' = TRUE
  /\ UNCHANGED <<status, list, owner, home, workerVars, account, records, disk, wroteOk,
                 mode, restarts, switches>>

\* Mutant: SoNovel downloads are recorded too.
RecordedAlways(t) == [records EXCEPT ![account] = @ \cup {KeyOf[t]}]

\* Mutant: the record is left to a later step.
RecordedLater(t) == records

\* upsertDownloadRecord writes to the downloads of the current account.
Recorded(t) ==
  IF IsBook(t) THEN [records EXCEPT ![account] = @ \cup {KeyOf[t]}] ELSE records

\* A settled task: markCompleted or markFailed, or nothing if it was removed.
\* It moves to the front of the settled ones.
Marked(t, s) == IF status[t] = "gone" THEN status ELSE [status EXCEPT ![t] = s]

\* Mutant: a settled task is left to the debounced save.
SettleDebounced(t, s) ==
  /\ Dispatch(Marked(t, s), list,
              IF s = "completed" /\ status[t] # "gone" THEN [prog EXCEPT ![t] = 2] ELSE prog,
              active \ {t})
  /\ Persist(FALSE)
  /\ unsaved' = TRUE
  /\ UNCHANGED <<owner, home, account, mode, restarts, switches>>

(* The end of runTask: mark the task, give its slot away, flush.            *)
Settle(t, s) ==
  /\ Dispatch(Marked(t, s), list,
              IF s = "completed" /\ status[t] # "gone" THEN [prog EXCEPT ![t] = 2] ELSE prog,
              active \ {t})
  /\ Persist(unsaved \/ Snapshot' # Snapshot)
  /\ unsaved' = FALSE
  /\ UNCHANGED <<owner, home, account, mode, restarts, switches>>

Complete(t) ==
  /\ phase[t] = "transfer"
  /\ records' = Recorded(t)
  /\ Settle(t, "completed")

\* No session, an error of the server, a file that was not written.
Fail(t) ==
  /\ phase[t] # "idle"
  /\ Settle(t, "failed")
  /\ UNCHANGED records

\* The debounced save.
PersistTimer ==
  /\ unsaved
  /\ UNCHANGED <<queueVars, workerVars, account, records, mode, restarts, switches>>
  /\ unsaved' = FALSE
  /\ Persist(TRUE)

\* The account switch of AccountManager; it does not touch the queue.
SwitchAccount(a) ==
  /\ mode = "run"
  /\ a # account
  /\ switches < MaxSwitches
  /\ account' = a
  /\ switches' = switches + 1
  /\ UNCHANGED <<queueVars, workerVars, records, diskVars, mode, restarts>>

(* The process dies and starts again: getTasks reads the file through       *)
(* normalizeTask, which does not copy accountId.                            *)
Reload ==
  /\ restarts < MaxRestarts
  /\ restarts' = restarts + 1
  /\ status' = disk.status
  /\ list' = disk.list
  /\ prog' = disk.prog
  /\ owner' = [t \in Task |-> Legacy]
  /\ active' = {}
  /\ phase' = [t \in Task |-> "idle"]
  /\ unsaved' = FALSE
  /\ wroteOk' = TRUE
  /\ mode' = "boot"
  /\ UNCHANGED <<home, disk, account, switches>>

Restart == Reload /\ UNCHANGED records

\* The process dies between the download record and the task's status.
RestartAfterRecord(t) ==
  /\ phase[t] = "transfer"
  /\ records' = Recorded(t)
  /\ Reload

Next ==
  \/ ProcessQueue
  \/ ClearCompleted
  \/ PersistTimer
  \/ Restart
  \/ \E t \in Task :
       \/ Enqueue(t)
       \/ Retry(t)
       \/ Remove(t)
       \/ StartTransfer(t)
       \/ Progress(t)
       \/ Complete(t)
       \/ Fail(t)
       \/ RestartAfterRecord(t)
  \/ \E a \in Account : SwitchAccount(a)

Spec == Init /\ [][Next]_vars

(* Each await of a promise chain ends: the session check and the transfers  *)
(* carry time limits.  onForeground runs at every start of the application. *)
Fairness ==
  /\ WF_vars(mode = "boot" /\ ProcessQueue)
  /\ \A t \in Task : WF_vars(phase[t] = "auth" /\ (StartTransfer(t) \/ Fail(t)))
  /\ \A t \in Task : WF_vars(phase[t] = "transfer" /\ (Complete(t) \/ Fail(t)))

FairSpec == Spec /\ Fairness

-----------------------------------------------------------------------------
TypeOK ==
  /\ status \in [Task -> Status]
  /\ list \in Seq(Task)
  /\ prog \in [Task -> 0..2]
  /\ owner \in [Task -> Account] /\ home \in [Task -> Account]
  /\ active \in SUBSET Task
  /\ phase \in [Task -> {"idle", "auth", "transfer"}]
  /\ account \in Account
  /\ records \in [Account -> SUBSET Book]
  /\ disk \in [status : [Task -> Status], list : Seq(Task), prog : [Task -> 0..2]]
  /\ unsaved \in BOOLEAN /\ wroteOk \in BOOLEAN
  /\ mode \in {"boot", "run"}
  /\ restarts \in 0..MaxRestarts /\ switches \in 0..MaxSwitches

(* A task is marked downloading exactly while a promise chain runs it: no   *)
(* task is left marked downloading with nobody to settle it, and no chain   *)
(* runs for a task that waits or has settled, so a retried task is never    *)
(* run twice.  A removed task may still be running.                         *)
WorkersMatchTasks ==
  /\ \A t \in active : status[t] \in {"downloading", "gone"}
  /\ mode = "run" => \A t \in Task : status[t] = "downloading" => t \in active

(* pumpWorkers keeps every slot busy while a task waits, and never uses     *)
(* more slots than MAX_CONCURRENT_DOWNLOADS: no sequence of enqueues,       *)
(* removals, failures and retries leaves a task waiting beside a free slot. *)
SlotsFilled ==
  /\ Cardinality(active) <= MaxConcurrent
  /\ mode = "run" /\ With(status, {"pending"}) # {} => Cardinality(active) = MaxConcurrent

(* The list holds each task of the queue once, the unfinished ones first,   *)
(* and no more settled ones than it is to keep: of pruneTasks, in every     *)
(* state, the one between a restart and its first turn included.            *)
ListMatchesStatus ==
  /\ Elems(list) = With(status, Live \cup Settled)
  /\ Cardinality(Elems(list)) = Len(list)
  /\ \A i, j \in DOMAIN list : status[list[i]] \in Settled /\ i < j => status[list[j]] \in Settled
  /\ Cardinality(With(status, Settled)) <= MaxSettled

(* The file holds the queue whenever no progress waits for the debounced    *)
(* save and the last write did not fail: one successful save repairs every  *)
(* earlier failure.                                                         *)
DiskCurrent == ~unsaved /\ wroteOk => disk = Snapshot

(* A talebook task that the file says completed has its download record:    *)
(* the record is written first, so a crash between the two repeats the      *)
(* download and never loses it.                                             *)
CompletedIsRecorded ==
  \A t \in Task : disk.status[t] = "completed" /\ IsBook(t) =>
                   \E a \in Account : KeyOf[t] \in records[a]

(* Nothing but the user's swipe takes an unfinished task out of the queue,  *)
(* however many tasks have settled: pruneTasks, which every save runs,      *)
(* drops settled tasks only.  (A task failed as foreign settles first.)     *)
UnfinishedNeverDropped ==
  [][\A t \in Task : status[t] \in Live /\ status'[t] = "gone" =>
        Remove(t) \/ (IsBook(t) /\ owner[t] # account)]_vars

(* When the last write reached the file, a process death loses no task and  *)
(* no status, whatever progress was still waiting for the debounced save:   *)
(* every change of status is flushed in the turn that makes it.             *)
RestartKeepsTasks ==
  [][restarts' # restarts /\ wroteOk => status' = status /\ list' = list]_vars

(* A settled task comes back to life only by the user's retry.              *)
SettledStaysSettled ==
  [][\A t \in Task : status[t] \in Settled /\ status'[t] \in Live =>
        Retry(t) \/ (restarts' # restarts /\ ~wroteOk)]_vars

(* Every waiting task gets a slot or leaves the queue, even while another   *)
(* one fails and is retried for ever: a retried task goes behind the        *)
(* waiting ones, although a new one goes before them.  And no task keeps    *)
(* its slot for ever or is left marked downloading after a restart.         *)
NoneStuck == \A t \in Task, s \in Live : status[t] = s ~> status[t] # s

(* The queue is a pool of workers: whatever turns, saves that fail, deaths  *)
(* and switches follow each other, slots are used up, only what waited runs *)
(* and only what ended or died stops running; see WorkerPool.               *)
Pool == INSTANCE WorkerPool WITH
          Slots <- MaxConcurrent,
          waiting <- With(status, Live) \ active,
          running <- active,
          open <- mode = "run",
          kept <- wroteOk

ImplementsPool == Pool!Spec

(* What the comment on DownloadTask.accountId (TalebookService.ets) says: a *)
(* talebook task is not executed after a switch to another account.         *)
NoForeignClaim ==
  [][\A t \in active' \ active : IsBook(t) => owner'[t] = account]_vars

(* What the comment on failForeignAccountTasks says: it fails the waiting   *)
(* tasks that do not belong to the current account.  The user's own tasks   *)
(* stay, so while the process lives none enqueued under this account fails  *)
(* before it runs.                                                          *)
OwnTaskNotFailedAsForeign ==
  [][restarts' = restarts =>
       \A t \in Task : IsBook(t) /\ home[t] = account /\ t \notin active /\ status[t] \in Live
                        => status'[t] # "failed"]_vars
=============================================================================
