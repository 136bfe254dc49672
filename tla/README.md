# Verification of mybooks_ohos

TLA+ models of the parts of the mybooks client whose correctness depends on
ordering: promise chains that interleave at every `await`, native worker
threads beside the ArkTS thread, account switches in the middle of requests,
and process deaths between two writes. Paths below are relative to `src/`;
`E` is `ohos/entry/src/main`, `M` is `ohos/mybooks_core/src/main`, `R` is
`ohos/feature/reader/src/main/ets`.

## The system

The application is a reader for book servers (mybooks, talebook and related
kinds), with a SoNovel server as a second source. It consists of

* ArkTS code on one thread: pages, and services that are classes of static
  methods and static state (`E/ets/services`). Concurrency comes from `await`:
  the code between two awaits is a turn that nothing interrupts.
* `libentry` (`E/cpp`): key-value store, HTTP client and REST calls. Calls are
  synchronous on the ArkTS thread, or run on worker threads and resolve a
  promise.
* `mybooks_core` (`M/cpp`): a second native module with a database and an HTTP
  client of its own.
* the reader engine (`R/engine`): parsers and pagination.

| component | state | operations | talks to | what is hard | what makes it correct |
|---|---|---|---|---|---|
| download queue (`DownloadTaskService.ets`) | task list, active ids, debounced save | enqueue, claim, run, settle, retry, remove, clear, prune, recover | preferences, session, transfers, downloads of the account | several chains settle between user actions; process death; failed writes; account switches | no task lost, stuck or run twice; slots used; file current |
| accounts (`AccountManager.ets`, `AccountStore.ets`) | account list, active id, identity root, aliases, server kind | add, edit, delete, switch, migrate, startup repair, probe | both native modules, session | late answers of probes; crashes inside a switch | everything in use belongs to the active account |
| login session (`TalebookService.ets`) | `sessionOk`, shared promise | ensureAuthenticated, sign in, sign out, invalidate | HTTP client, pages | answers that arrive after a switch | one restore at a time; results never outlive their account |
| native store (`json_store.cpp`, `talebook_core.cpp`) | identity root, two caches, two kinds of files | read, write, switch root | JS thread, worker threads | reads between the steps of a write or a switch; failed writes; process death | caches agree with files; files are whole |
| HTTP clients of both libraries (`http_client.cpp`), asynchronous calls (`napi_init.cpp`) | base addresses, cookie directory, lines of cookies saved last, a curl handle per thread, queued work, promises | call, request, download, save cookies, sign out, switch | store, workers, server | cookies and strings shared across threads and identities; failed saves; overlapping downloads; retries | requests go to the server, with the cookies, of their account; promises settle; files are whole or absent |
| local caches (`TalebookService.ets`) | downloads and history in memory | warm, upsert, persist, invalidate | store, taskpool | an await between read and assignment | no lost record, no record of another account |
| mybooks_core (`M/cpp`, `NativeCore.ets`) | open database, files directory, one base address, JSON tables, downloaded books, master key | switch, request, upload, read-modify-write of tables, download, seal and open passwords; fields of calls, JSON, archives | NativeCore, SQLite, server | two services share an address; switches close the database under running work; unlocked updates; crashes in downloads; escaping | no duplicate or foreign damage in a table, right server, complete books, readable passwords |
| reader engine | document, pages, LRU cache | decode, paginate, seek | files | boundaries of formats | decoding and paging are total and inverse where they should be |
| SoNovel client, audio, speech, updates, covers, secret storage, profiles, pages | see `PROJECT.json` | | | I/O or platform services | |

The hazards of this code, each at its line with the properties that would
catch it, are in `PROJECT.json`.

## Modules

| module | models | proofs |
|---|---|---|
| `Lists` | one operator on sequences that the queue, the tables and the texts share | `ListsProofs` |
| `DownloadQueue`, `MCDownloadQueue` | the download queue | `DownloadQueueProofs`, `DownloadListProofs` |
| `WorkerPool` | the abstract specification that the queue implements | `DownloadQueueProofs` |
| `AccountSession`, `MCAccountSession` | accounts, identity, session | `AccountSessionProofs` |
| `JsonStore`, `MCJsonStore` | the native store and the addresses of requests | `JsonStoreProofs` |
| `HttpClient`, `MCHttpClient` | calls, requests, downloads and cookies of both libraries | `HttpClientProofs` |
| `MybooksCore`, `MybooksLibrary`, `MCMybooksCore` | the engine of mybooks_core: database, address, books, passwords | `MybooksCoreProofs` |
| `NativeText` | pure functions of mybooks_core on text and bytes, and a page computation of libentry | `NativeTextProofs` |

`DownloadQueue` reaches `WorkerPool` through an instance with a refinement
mapping. `MybooksLibrary` is `MybooksCore` and `NativeText` together, and says
of the functions of `NativeText` what is to hold before anything has happened;
`MCMybooksCore` checks both in one run. The
other modules meet at the switch of an account: what `AccountSession` makes of
it (`ApplyIdentity`, `Activate`) causes `SetIdentityDir` of `JsonStore` and
`HttpClient` and `CloseDb` and `OpenDb` of `MybooksCore`, which these modules
take as something that may happen whenever the ArkTS thread is free.

### DownloadQueue

One action is one turn of the ArkTS thread. `status`, `list` and `prog` are
`tasksCache`; `active` is `activeTaskIds`; `phase` says which await of
`runTask` a chain is in (`auth`: `ensureAuthenticated`; `transfer`: the
download); `disk` is the JSON string in the preferences; `unsaved` stands for
`persistDirty` and its timer. `owner` is the `accountId` of a task; `home` and
`wroteOk` are history.

`Processed` is `processQueue` (recover, fail foreign tasks, pump); `Dispatch`
is the claiming and pruning that it shares with the end of `runTask`
(`Settle`). Callers enqueue or retry and then process the queue in the same
turn, so these are one action. `Reload` is a process death and the next
`getTasks`, with what `normalizeTask` copies; `RestartAfterRecord` is a death
between the download record and the status of its task. Every write may fail
(`Persist`); nobody is told, as in `PrefSet`.

Abstractions: several writes of one turn are one write; `list` is kept in the
order that `pruneTasks` gives it by `updatedAt`; ids are never used again
(they are random UUIDs); titles, messages and byte counts are left out;
`downloads.json` writes succeed; the retry of the page is offered for failed
tasks only (`DownloadManagerPage.ets:171`). Progress events exist only when
`MAX_CONCURRENT_DOWNLOADS` is 1 (`useSseProgress`).

`WorkerPool` says what the queue promises without list, file and promise
chains: a pool of slots in which a task waits, runs and ends, no slot is free
while a task waits, and a process death keeps what waited if the last save
succeeded. `ImplementsPool` is the refinement: `waiting` is the set of pending
tasks, `running` that of the tasks with a slot, `open` is `mode`.

### AccountSession

One action is one turn of the ArkTS thread, and `Request` is the moment a
worker thread reads the address of the identity root. `rec` is the account list
(the address of an account is the number of its edits), `dir` the identity root
of both native modules, `urlKey` the address stored in each root, `username`
the alias each name is stored under, `chain` the sign-in chains with the await
each is in, `promise` the `sessionRestorePromise`, `probing` the probes of
`syncServerKindByProbe` that run, with the record each read before its await. A
probe whose answer comes after an edit reads the list again, but writes the
kind it found over the one the user has just chosen (`AccountManager.ets:313`);
`RecordsNotRolledBack` says how far this goes. `mode` tells the first frame
(`boot`) from what `startDeferredStartupWork` has done since.

`ApplyIdentity` is all of `applyIdentity`, including its return to the active
account; `Activate` adds what a switch does up to its sign-in; `Restore` is
`ensureAuthenticated` past its two early returns. `Finish` is the `.then` and
`.finally` of a restore or the end of a switch, which refreshes the unread
count and thereby may restore again. `CrashInSwitch` and `CrashInDelete` are
deaths between two writes of a turn.

Abstractions: a turn is atomic for worker threads too (inside `applyIdentity`
the root is briefly that of another account); passwords, the TLS switch, the
profile cache and display names are left out; a chain fails wherever the code
has a failure branch; navigation caches are left out.

### JsonStore

The JS thread performs one step at a time of the call it is in (`todo`): one
assignment, one critical section or one file operation. Worker threads run
between any two steps, from the evaluation of the path (`EvaluatePath`)
through the critical section of `readCached` (`ReadSecure`) to `setBaseUrl`
(`SendTo`). A cache remembers, as history, the root it was loaded from. The
temporary file of `writeFileAtomic` is not a variable: it is never read.
`StepFails` is a write or a rename that fails; `Restart` a process death at
any step. `pref` is the parsed preferences, whose two critical steps (save,
then swap) no other thread sees; they are steps because a process may die
between them.

Abstractions: a value is a model value; the assignment of `identityDir_` and
of the base addresses is atomic, although the code assigns `std::string`s
without a lock; `StepRefresh` joins the two reads of the addresses and the two
calls of `setBaseUrl` that a switch makes, one for each service; named JSON
blobs are left out.

### HttpClient

Each thread of the pool, and the JS thread, has one call at a time. A request
is four steps: the handle is prepared and curl reads `cookies.txt` (`Begin`),
the answer comes (`Answered`, `Downloaded`), the cookies are compared with the
lines saved last and flushed to `cookies.txt.tmp` (`Flush`), and that file is
renamed (`Rename`; both are `persistCookiesIfChanged`). A switch, another
request or a death may come between any two. `save` is `gCookieMutex`: each
library has its own, and holds it from the flush to the rename, while `jar` and
`tmp`, the two files, are common to both. So the flush of one library may come
between flush and rename of the other, which then renames a file with foreign
lines and remembers its own, and the second rename finds no file. `handle` is
the cookie store of a curl handle: what it received, which is preferred, and
what it read from a file. `persisted` is `gPersistedCookieLines`, `written` the
file those lines went to (history), as long as nobody else touched it.
`call.alone` is history: no other request overlapped, no switch came, no save
failed. `queue`, `finished` and `promises` are the work, the completions and
the promises of `RunAsyncStringTask`; `book` is the file at the one path that
downloads of libentry write to, `linked` and `clean` say whether a transfer
still writes to that path and whether anyone truncated it since. Its contents
are `absent`, `partial` (a transfer writes), `whole`, `page`, `other` (the body
of a success that is neither a page nor the book, which `performCurlDownload`
keeps) and `cut`: what a process death leaves, a thread that gets no handle
after it has truncated the file (`NoHandle`), and a file that fails to close,
which the code does not notice (`Body`).

An answer is one of five kinds: transfer failed, HTTP error, business error in
a success, a page (the redirect of an expired session), success. libmybooks_core
makes asynchronous requests that change no session, and downloads that write
elsewhere (`MybooksCore` has their files) and have no time limit (`Hangs`); its
handle and its remembered lines are separate, its cookie files are the same.

Abstractions: a session is an account and a number; which requests retry is
`Retries`, a second address is asked once; timeouts are failed transfers; the
flush, which libcurl makes through a temporary file of its own, is one step; a
switch whose database cannot be opened, after which libmybooks_core stays with
the cookies of the account before, is in `MybooksCore` only (`OpenFails`);
options of curl, metrics and error texts are left out; the assignment of
`cookieDir_` is atomic although the code assigns a string without a lock.

### MybooksCore

`db` is the open database, `opening` the middle of `setIdentityDir`, between
`close` and `open`; `home`, `base`, `address`, `blob`, `file`, `key` and
`password` are `filesDir_`, `baseUrl_`, the rows of addresses, the JSON tables,
the downloaded books, the master keys and the sealed passwords. A task is one
`ASYNC_API` call on a thread of the pool. Its steps are the calls that other
threads can fall between: taking the address (`Ensure`) and sending (`Send`);
reading a table (`Read`) and writing it back (`Write`); for a deletion first the
reading of the path (`Find`) and the removal of the file (`Unlink`), which may
fail without anyone looking (`UnlinkFails`); for a download `Prepare`, `Check`,
`Fetch`, `Received` or `Lost`, `Validate`, and the next candidate (`TryNext`).
`task.alone` is history: no other call, switch or address overlapped it.

The content of a file is one of seven kinds that the validation tells apart.
Tables hold a book and the root its file lies in. Two threads that write to one
path leave the content `mixed`.

Abstractions: SQLite executes one statement atomically; a statement on a handle
that another thread closed, which is undefined, is not modelled; the seal itself
is perfect; the moment between the opening of another database and the creation
of its tables is part of the opening (`OpenDb`). Bookmarks, `sonovelFetchBook` and `removeReadingHistory` have no
caller in ArkTS, `migrateFromLegacyPreferences` runs only for a directory that
nobody passes.

### NativeText

Functions, with the reference definition in the property: JSON writing and
parsing (`json_util.cpp`), the fields of a call and their number for all calls
(`NativeCore.ets`, `napi_init.cpp`), the administration requests, the parts of
a batch upload, the offset of a page, server addresses, the end of a zip
archive and the bytes of an entry (`epub_parser.cpp`), sealed texts
(`secure_crypto.cpp`). A text is a sequence of characters out of `Char`, which
is any set with the characters that the code itself writes. The sizes of zip
records and of seals are parameters (`EocdSize`, `HeaderSize`, `LocalSize`,
`MaxComment`, `IvLen`, `TagLen`): the code has 22, 46, 30, 65535, 12 and 16
bytes, the run a few, the theorems any. `EntriesRead` is the walk of `hasEntry`:
at most as many headers as the end record counts, from the offset that it gives,
until a header has no signature or its fixed part or name leaves the file; extra
field and comment of the last one may leave it. The reference is `DirectoryAt`,
where the headers of a directory lie one behind the other. What depends on the place in a text (items of an array,
members of an object, nesting of braces) is a recursive function of the place.
`DataOf` models
`extractEntry`, which only `parseFile` uses, and that has no caller yet.

## Runs

Sizes are for two TLC workers.

| run | checks | bounds | states, time |
|---|---|---|---|
| `queue` | types, `WorkersMatchTasks`, `SlotsFilled`, `ListMatchesStatus`, `CompletedIsRecorded`, `UnfinishedNeverDropped`, `RestartKeepsTasks`, `SettledStaysSettled`, `ImplementsPool` | 3 tasks (two of one book, one SoNovel), 2 slots, 1 settled task kept, 1 restart, 1 switch | 1.5 M, 90 s |
| `queue_live` | `NoneStuck` | 3 tasks, 1 slot | 0.1 M, 55 s |
| `queue_foreign` | `NoForeignClaim` (violated) | 1 slot, 1 switch | trace |
| `queue_owner` | `OwnTaskNotFailedAsForeign` (violated) | 1 restart | trace |
| `accounts` | types, `DirFollowsActive`, `UrlOwn`, `UrlCurrent`, `PromiseRuns`, `RecordsNotRolledBack` | 2 accounts, 2 kinds and SoNovel, 2 chains, 1 edit of each account, 1 restart, 1 probe at a time | 2.6 M, 70 s |
| `accounts_stale` | `SessionOfActive` (violated) | no edit, no restart | trace |
| `accounts_config` | `ConfigOfActive` (violated) | no edit, no restart | trace |
| `store` | types, `CachesCurrent`, `PrefsDurable` | 2 roots, 2 addresses, 2 preference files, 1 worker thread, 1 failure, 1 restart | 2.6 M, 20 s |
| `store_root` | `ReadsOwnRoot` (violated) | no failure, no restart | trace |
| `http` | types, `LinesInFile`, `NoHalfBook`, `LoginSurvives`, `EveryCallSettles` | 2 accounts, both libraries, JS thread and 1 thread of the pool, 1 promise at a time, 1 session of each account, 4 calls, switches, missing handles, failed saves, failed closes and deaths | 0.4 M, 45 s |
| `http_foreign` | `OwnSession` (violated) | the same | trace |
| `core` | types, `NoDuplicateRecords`, `RequestOwnServer`, `AcceptedIsWhole`, `SealedReadable`, `FileGoesFirst`, `OthersKept`; `TextsRoundTrip`, `CallsArrive`, `ArchivesInside` | 2 accounts, one without a server, 2 threads, 2 books (epub and txt), 2 addresses, 2 candidates, 4 calls, switches, failures and deaths; texts of up to 2 of 6 characters, directories of up to 3 headers | 2.6 M, 70 s |

Why the bounds are enough. In `queue`, three tasks are one more than the
slots, so a task waits, another runs and a third settles at once; two tasks
share a key, so the duplicate test matters; one settled task is kept, so the
second one that settles is pruned. `queue_live` uses one slot so that a task
waits behind a task that is retried for ever, and so that progress events
occur. In `accounts`, one account is the legacy one and the other is not, two
chains can be a restore and a switch, or a restore that an account switch has
orphaned and its successor. In `store`, the global root is also that of the
legacy account, so that two caches share a file; a worker meets the store in
one critical section only, so a second worker adds no new kind of
interleaving (with two workers the same invariants hold, on 19 M states). In
`http`, the JS thread and one thread of the pool are two requests at once, of
different libraries or of one; four events let a sign-in, a switch, a second
request and a failed save, or a death, meet, and two libraries save at once.
Downloads of libentry that overlap need both threads, a third one adds no other
content of the file. In `core`, two threads hold the
two halves of two updates, or two transfers to one path, and two more events
switch the account between them; one account has no address, so that its
requests find the base of the other. The texts of `core` put every character
that the code treats specially beside every other one, inside keys, values and
nested records; a directory of three headers has one between two others, with
and without a name and with a rest that reaches into the next place.

`http` and `core` say `CHECK_DEADLOCK FALSE` because the bound on events ends
every behaviour: an application nobody uses rests.

`accounts` merges states that differ only in history and in which server
answered (`VIEW Observed`), which no action or property of the run looks at;
sign-in chains are interchangeable (`SYMMETRY`). `store` does the same with
the addresses of the HTTP client, which no guard reads, and with the values.
The threads of `core` are interchangeable. No liveness is checked under a view
or a symmetry.

### What the violated runs show

* `queue_foreign`: `claimPendingTask` does not look at the account of a task.
  Only `processQueue` fails foreign tasks; the pump at the end of `runTask`
  claims them after an account switch.
* `queue_owner`: `normalizeTask` does not copy `accountId`. After a restart
  all talebook tasks count as those of the legacy account, and the next
  `processQueue` fails the waiting tasks of any other current account.
* `accounts_stale`: the `.then` of `ensureAuthenticated` sets `sessionOk`
  whether or not a switch has replaced its promise.
* `accounts_config`: a probe that ends after a switch applies the identity of
  the account it asked about: its name goes to the alias of the account active
  by then, its kind to the global preference.
* `store_root`: `readSecure` evaluates its path outside the lock; a slow
  reader fills the freshly invalidated cache from the root before the switch,
  and the new account reads the old address until the next write.
* `http_foreign`: `performCurlRequest` gets the cookie directory by reference
  and saves the cookies of an answer under the account that is active when it
  arrives. After a switch during a request, the cookie file of the new account
  holds a session of the old one.

### What the passing properties except

A property that the code keeps only in part says so in its comment, and the
models take the steps that break the rest.

* `RecordsNotRolledBack`: a late probe replaces a server kind that the user
  chose during its await. Addresses and deletions it leaves alone.
* `LinesInFile`: when both libraries save at once, one may remember lines that
  `cookies.txt` does not hold, and will not save them again.
* `NoHalfBook`: a download that the server answers with a success and an error
  text is kept as the book; so is a file that is cut because it failed to close,
  and an empty one stays when the thread gets no curl handle.
* `EveryCallSettles`: a download of libmybooks_core may last for ever.
* `FileGoesFirst`: the record goes also when its file cannot be removed.

## Fairness

`FairSpec` of `DownloadQueue` assumes only what the code bounds: a chain in
`auth` goes on or fails, since the requests of a sign-in have time limits; a
transfer completes or fails, since every transfer has one (`CURLOPT_TIMEOUT`
in `E/cpp/http_client.cpp`, the read timeout of `SoNovelService.ets`); after a start
`onForeground` processes the queue. User actions, progress events, saves,
switches and process deaths are never assumed to happen. Weak fairness is
enough: each of these conditions stays true until its step is taken.

`Fairness` of `HttpClient` assumes that the threads of the pool take queued
work, that each transfer with a time limit ends and that the save after it
does, that a switch goes through both libraries (two calls in one turn), and
that the event loop of the JS thread takes completions between the calls of
ArkTS. All requests of both libraries and the downloads of libentry set
`CURLOPT_TIMEOUT` (or `CURLOPT_TIMEOUT_MS`); `downloadToFile` of libmybooks_core
(`M/cpp/http_client.cpp:512`) sets none, nor a limit of low speed, so no end is
assumed of its transfers (`Hangs`). `EveryCallSettles` therefore says that every
promise is settled but that of such a transfer, and supposes that some thread of
the pool is, again and again, not in one: downloads that hang on every thread
keep all other calls waiting for ever. The last assumption is strong fairness: a completion has to wait while the JS
thread is inside a synchronous call, again and again. That calls are made,
switches, failed saves and deaths happen is never assumed.

## Proofs

Every safety invariant, action property and refinement that a passing run
checks is also a theorem about every value of the constants. Of each property
that a run shows violated, a theorem names what breaks it.

`ListsProofs` is about `Only(s, T)`, what `filter` leaves of a list. It is
defined by the place that each kept element gets (the number of kept elements
up to it), not by `SelectSeq`, which is recursive: so that places and ranks are
in bijection, that order, multiplicity and range are what one expects, and
what a list becomes by one more element, are lemmas without induction over
lists.

`DownloadQueueProofs` proves, for any number of tasks, slots, kept tasks,
restarts and switches, `WorkersMatchTasks`, `SlotsFilled`, `DiskCurrent`,
`CompletedIsRecorded`, `RestartKeepsTasks` and `SettledStaysSettled`. The
invariant is in two parts. The first relates `status`, `active`, `phase` and
`mode` (`WorkerInv`): `SlotsFilled` is not inductive alone, because a claim
keeps it only if every active task is known to be downloading or removed and
the number of active tasks to be bounded; `ClaimsFillSlots` is the counting
argument. The second relates queue, file and history (`FileInv`):
`DiskCurrent` needs that every status change is in the file unless the last
write failed, even while progress is unsaved, and `CompletedIsRecorded` needs
the same for the tasks in memory. Action properties follow from the first.

The module also proves the refinement of `WorkerPool`: each initial state of
the queue is one of the pool, and each step of the queue is a step of the pool
or none. It rests on the invariant (`SlotsFilled` and `WorkersMatchTasks`,
before and after the step) and on `RestartKeepsTasks`: one turn of the queue
that settles a task, prunes the list and claims the next task is one step of
the pool because the claim fills exactly the free slots, and a process death
keeps what waited because the file is current.

`DownloadListProofs` proves the rest of the queue: the type of every variable,
`ListMatchesStatus` and `UnfinishedNeverDropped`. A list that has each task at
most once stays so because a task is put in front only if the list is without
it. That a list and a status agree (`Fit`) has to hold in memory and in the
file, in every mode, and a task that is gone has to stay out of both
(`GoneForGood`), or a process death would bring it back. `UnfinishedNeverDropped`
is about `pruneTasks`, which sorts the settled tasks behind the others and cuts
the list: what is cut is settled because the ranks of unfinished tasks are
within the bound.

`AccountSessionProofs` proves, for any number of accounts, kinds, chains,
edits and restarts, type correctness and every property of the run `accounts`.
`StoreInv` is the invariant of the account list, the roots and the addresses;
its point is that `UrlCurrent` survives a late probe because the probe reads
the list again, and a crash because startup applies the identity before
anything else. `ChainInv` relates the promise to the chains. The action
property `RecordsNotRolledBack` needs in addition that a record is always kept
once there was one (`SomeKept`), so that the migration never runs over a deleted
record; that a kind changes only by an edit or by a probe which had read another
one is `KindExplained`.

`JsonStoreProofs` proves types, `PrefsDurable` and `CachesCurrent`, for any
number of roots, addresses, failures and process deaths. What the caches hold
depends on the steps that the call of the JS thread still has to make, so
`CachesInv` describes the rest of a call, not its first step: `Ordered` says
how the remaining steps lie to one another (a rename is followed by the drop of
the cache of its file; a call that sets both addresses has its second save to
come), `Pending` what a call without a failed write still owes to the global
file, `CacheHolds` and `GlobalHolds` that a valid cache equals its file unless
its drop is still to come. That a tail of an ordered call is ordered,
and the rest behind a failed write too, is `OrderedLeft`.

`HttpClientProofs` proves, for any number of threads, accounts, calls, sessions,
failed saves and process deaths, types (with `Items`: work that is queued or
runs has a promise), `LinesInFile`, `NoHalfBook` and `LoginSurvives`.
`LinesInFile` needs `SaveInv`: each library holds its mutex for one thread only,
from flush to rename, and as long as the other one stays away from the temporary
file it holds what was flushed. `NoHalfBook` needs `BookInv`: a half book has a
transfer that still writes to the path and that nobody truncated since; a page
or a failed transfer goes with its file. `LoginSurvives` needs three things.
`AloneInv` says what "alone" means in each state: both libraries have the
directory of the account, and once the request is sent no other thread is in
one. `CookiesKnown` says that every session that a file, a handle or a client
remembers is one the server gave; so a new session differs from the lines
saved last, and its save is not skipped. `LoginInv` takes it from the answer
(in the handle, preferred to what the file says) to the file.

`MybooksCoreProofs` proves types, `NoDuplicateRecords`, `RequestOwnServer`,
`AcceptedIsWhole`, `SealedReadable` and the action properties `FileGoesFirst`
and `OthersKept`, for any number of threads, accounts, books, addresses,
failures and process deaths. `Solo` says that work that is alone has no other
work and no half-done switch beside it; with it, nothing but the work itself
moves the base address between `Ensure` and `Send` (`Addressed`), or the file
between its check and the report. `Sealed` says that there is one key
directory, whose keys only grow. `NoDuplicateRecords` is inductive only
together with the same of every table that a task has read and not yet written
back (`Distinct`). For `OthersKept`, a write of a task that is alone puts back
the table it read, but for its own book (`ReadBackOf`, `WriterAlone`); for
`FileGoesFirst`, a deletion that is alone removes the file of the table it found
(`FoundOf`), and one that writes has been through `Unlink` or is marked as
failed (`UnlinkedOf`).

`NativeTextProofs` proves what `MybooksLibrary` asks of `NativeText`: for any
number of bytes, any sizes and directories of any length `ArchivesInside` (the
signature is found behind every comment; every entry is found where the one
before ends, `DirectoryIs`, `EntriesAreFound`; no data are taken from beyond the
file) and the sealed secrets; for
any texts `CallsArrive` (the fields of all calls, the paths of a batch, the
pages, the server addresses). The library's induction theorems cannot be used
here, so the module proves by the least counterexample: `FirstIs` says that a
set of numbers that is not empty has a least member, and what holds at every
place of a text holds because there is no first place where it fails. That a
recursive function over places exists is obtained the same way
(`StepsExist`). The central lemma is where the parts of a joined text lie
(`FlattenIs`, `JoinedLies`): then the bar behind a field is the next one
(`NextBarIs`), and cutting there gives the field back.

`TextsRoundTrip` is proved for all texts, however long and whatever escapes
they hold (`TextsSafe`). Reading is described by places in the text that was
written (`Here`: a part lies behind a place). `StringRead` says that a quoted
text is read back where it lies: the pieces of an escaped text are known
(`EscapedAt`), a backslash counts exactly when it begins a piece (`MarksOf`),
hence no quote inside ends the text, and what the pieces stand for is the text.
`ArrayWalk` and `ObjectWalk` replace the recursive functions of the parsers by
a walk that goes forward from place to place (`ItemStays`, `MemberStays`, over
any text, also one nobody wrote). `ArrayRead` and `ObjectRead` follow it
through any number of items and members (`Stations`, `WalkCollects`). That an
item ends where it was put is `ObjectEndIs`, about texts whose braces close at
their end and not before (`Closed`); an id with other plain members is such a
text and stays one however often a progress is put into it
(`RecordMade`, `RecordProgress`), and its id is the first one found
(`RecordId`). The hypothesis that texts in arrays hold no braces is that of
`ArrayRoundTrip`; objects need none.

The properties that the code breaks are false, hence no theorems. Each has a
theorem that names what breaks it: under a condition on the steps the property
holds for every value of the constants, so nothing else in the model breaks it,
and code that ensures the condition has the property.

| violated | holds if | theorem |
|---|---|---|
| `NoForeignClaim` | no talebook task waits at a switch (`NoneWaitsAtSwitch`) | `NoForeignClaimUnlessLeftWaiting` |
| `OwnTaskNotFailedAsForeign` | the file has only tasks of the legacy account at a death (`OnlyLegacySaved`) | `OwnTaskSafeUnlessForgotten` |
| `SessionOfActive` | no restore outlives a switch (`NoRestoreOutlives`) | `SessionOwnUnlessOutlived` |
| `ConfigOfActive` | no probe outlives a switch (`NoProbeOutlives`) | `ConfigOwnUnlessOutlived` |
| `ReadsOwnRoot` | the root never moves between the path of a read and its lock (`PathsCurrent`) | `OwnRootUnlessOvertaken` |
| `OwnSession` | no call outlives a switch, no handle keeps cookies over one (`SwitchedClean`) | `OwnSessionUnlessTakenAlong` |

The conditions leave the interesting behaviours in: under `SwitchedClean` two
accounts still sign in, in turns, with a death between, and each file keeps its
session; under `NoRestoreOutlives` late sign-ins of a switch and probes still
come. Each invariant was model-checked under its condition before it was
proved. `ForeignClaimsAtEnd` needs no condition: whatever happens, only the end
of `runTask` claims a foreign task, never `processQueue`.

Assumptions are the named `ConstantsOK` of each module and `InputsOK` of
`NativeText`: finite sets of tasks and accounts, a legacy account among the
accounts, `None` that is not a value, bounds that are natural numbers; records
and headers of at least one byte; the characters that the code writes among
the characters of texts; host names that neither contain a scheme nor end in a
slash, routes that begin without one.

Only model-checked:

* liveness under fairness (`NoneStuck`, `EveryCallSettles`), which the prover
  does not treat.

`DiskCurrent`, on which the proof of `RestartKeepsTasks` rests, is proved and
in no run of its own.

## Not modelled

* Local caches of downloads and history (`TalebookService.ets`): an await
  between reading a file and assigning the cache. This is the next module to
  write; its steps would be the parse, the assignment, `upsertDownloadRecord`
  and the account switch.
* Reader engine (PalmDoc, MOBI index, HUFF/CDIC, paging, LRU cache): pure
  algorithms over long inputs, for which bounded functions like those of
  `NativeText` would do.
* Of `mybooks_core`: bookmarks, `sonovelFetchBook` and `removeReadingHistory`,
  which no ArkTS code reaches; `migrateFromLegacyPreferences`, whose directory
  nobody passes.
* Of `libentry`: `upsertRecord` and `removeRecord` of the reading history,
  which have no caller; the named JSON blobs, which replace a file and keep
  nothing in memory; `apk_installer.cpp`, which forwards to Java.
* Undefined behaviour of strings that two threads assign and read at once
  (`identityDir_`, base addresses, `cookieDir_`), and of an SQLite handle that
  is closed under a statement: an assignment is one step in the models.
* User interface, pages, parsers of server answers, and platform services
  (audio, speech, key store, updates): they keep little state of their own, or
  state that only the platform changes.
