------------------------------ MODULE JsonStore ------------------------------
(***************************************************************************)
(* The native key-value store of libentry: cpp/json_store.cpp, with its    *)
(* callers in talebook_core.cpp, talebook_api.cpp and sonovel_api.cpp.     *)
(*                                                                         *)
(* The JS thread calls the store synchronously and is the only writer.     *)
(* Worker threads read addresses through the cache before each request.    *)
(* A step of the JS thread is one file operation, one critical section or  *)
(* one assignment; workers run between any two of them.                    *)
(***************************************************************************)
EXTENDS Naturals, Sequences

CONSTANTS
  Root,         \* identity roots
  Global,       \* the global root, which is also that of the legacy account
  Url,          \* addresses
  None,         \* a missing field, an address that is not set
  Pref,         \* contents of preferences.json
  Worker,       \* native worker threads
  MaxFailures,  \* bound of the model: writes that fail
  MaxRestarts   \* bound of the model: process deaths

ASSUME ConstantsOK ==
  /\ Global \in Root
  /\ None \notin Url \cup Pref
  /\ MaxFailures \in Nat
  /\ MaxRestarts \in Nat

Key == {"talebook_url", "sonovel_url"}

VARIABLES
  identity,  \* identityDir_
  file,      \* secure/storage.json of each root
  cache,     \* secureCache_, and as history the root it was loaded from
  gcache,    \* globalSecureCache_
  base,      \* talebookBase_ and sonovelBase_ of HttpClient, by the key they come from
  pref,      \* prefObject_; None while it is not loaded
  prefFile,  \* preferences.json
  todo,      \* what the JS thread has left of the call it is in
  worker,    \* ensureBaseUrl on each worker thread
  failures,  \* writes that failed so far
  restarts   \* process deaths so far

jsVars == <<identity, file, pref, prefFile, todo>>
vars == <<jsVars, cache, gcache, base, worker, failures, restarts>>

Empty == [k \in Key |-> None]

\* What a truncated file parses to: no field of it is one that was saved.
Torn == [k \in Key |-> "torn"]

NoCache == [valid |-> FALSE, from |-> Global, fields |-> Empty]

\* A worker: where it is, what it reads, from which root, what it got, and
\* as history whether the JS thread has been idle since it began.
Resting == [pc |-> "idle", key |-> "talebook_url", path |-> Global, got |-> None, quiet |-> FALSE]

-----------------------------------------------------------------------------
\* readCached, a critical section: a cache that is not valid is loaded from path.
Loaded(c, path) == IF c.valid THEN c ELSE [valid |-> TRUE, from |-> path, fields |-> file[path]]

\* Mutant: the file itself is truncated and rewritten.
TruncatedInPlace(f) == [file EXCEPT ![f] = Torn]

\* writeFileAtomic, until the rename: only the temporary file is written.
WhileWriting(f) == file

\* The steps of a save of one field, which invalidates the cache at its end.
Save(f, k, v, global) ==
  << [do |-> "open", file |-> f],
     [do |-> "rename", file |-> f, key |-> k, value |-> v],
     [do |-> "drop", global |-> global] >>

\* Mutant: a save leaves the cache valid.
SaveWithoutDrop(k, v) == SubSeq(Save(identity, k, v, FALSE), 1, 2)

WriteSecure(k, v) == Save(identity, k, v, FALSE)

\* Mutant: a global save invalidates the other cache.
GlobalDropsOther(k, v) == Save(Global, k, v, FALSE)

WriteSecureGlobal(k, v) == Save(Global, k, v, TRUE)

\* SetBaseUrl of napi_init.cpp: the HTTP client first, then the store.
SetBaseUrl(k, v) == <<[do |-> "base", key |-> k, value |-> v]>> \o WriteSecure(k, v)

\* Mutant: writePref replaces the object in memory before it is saved.
SwapFirst(p) == << [do |-> "prefswap", value |-> p], [do |-> "prefsave", value |-> p] >>

\* writePref: commitPrefLocked saves, and replaces the object in memory then.
WritePref(p) == << [do |-> "prefsave", value |-> p], [do |-> "prefswap", value |-> p] >>

\* A call of the JS thread: no worker that runs is undisturbed from here on.
Begin(steps) ==
  /\ todo = <<>>
  /\ todo' = steps
  /\ worker' = [w \in Worker |-> [worker[w] EXCEPT !.quiet = FALSE]]

-----------------------------------------------------------------------------
Init ==
  /\ identity = Global
  /\ file = [r \in Root |-> Empty]
  /\ cache = NoCache
  /\ gcache = NoCache
  /\ base = Empty
  /\ pref = None
  /\ prefFile \in Pref
  /\ todo = <<>>
  /\ worker = [w \in Worker |-> Resting]
  /\ failures = 0
  /\ restarts = 0

\* setIdentityDir of TalebookCore and of the store.
SetIdentityDir(r) ==
  /\ Begin(<< [do |-> "root", root |-> r], [do |-> "drop", global |-> FALSE],
              [do |-> "refresh"] >>)
  /\ UNCHANGED <<identity, file, pref, prefFile, cache, gcache, base, failures, restarts>>

\* The address of the library server is saved (applyIdentity, applyLocalConfig).
SetTalebookUrl(v) ==
  /\ Begin(SetBaseUrl("talebook_url", v))
  /\ UNCHANGED <<identity, file, pref, prefFile, cache, gcache, base, failures, restarts>>

\* applySonovelUrl, and the page of the SoNovel address.
ApplySonovelUrl(v) ==
  /\ Begin(SetBaseUrl("sonovel_url", v) \o WriteSecureGlobal("sonovel_url", v))
  /\ UNCHANGED <<identity, file, pref, prefFile, cache, gcache, base, failures, restarts>>

\* The search page sets the global address again before it searches.
OpenSearch ==
  LET loaded == Loaded(gcache, Global)
      v == loaded.fields["sonovel_url"]
  IN  /\ v # None
      /\ Begin(SetBaseUrl("sonovel_url", v))
      /\ gcache' = loaded
      /\ UNCHANGED <<identity, file, pref, prefFile, cache, base, failures, restarts>>

\* readPref, which loads the file once.
ReadPref ==
  /\ todo = <<>>
  /\ pref = None
  /\ pref' = prefFile
  /\ UNCHANGED <<identity, file, prefFile, todo, cache, gcache, base, worker, failures, restarts>>

\* PrefSet: nothing is saved when the value is already there.
SetPref(p) ==
  /\ pref # None
  /\ p # pref
  /\ Begin(WritePref(p))
  /\ UNCHANGED <<identity, file, pref, prefFile, cache, gcache, base, failures, restarts>>

-----------------------------------------------------------------------------
(* Steps of a call.                                                         *)
At(do) == todo # <<>> /\ Head(todo).do = do

StepRoot ==
  /\ At("root")
  /\ identity' = Head(todo).root
  /\ todo' = Tail(todo)
  /\ UNCHANGED <<file, pref, prefFile, cache, gcache, base, worker, failures, restarts>>

\* invalidate, a critical section.
StepDrop ==
  /\ At("drop")
  /\ IF Head(todo).global
     THEN gcache' = NoCache /\ UNCHANGED cache
     ELSE cache' = NoCache /\ UNCHANGED gcache
  /\ todo' = Tail(todo)
  /\ UNCHANGED <<identity, file, pref, prefFile, base, worker, failures, restarts>>

\* The HTTP client gets the addresses of the new root, where there are any.
StepRefresh ==
  /\ At("refresh")
  /\ cache' = Loaded(cache, identity)
  /\ gcache' = Loaded(gcache, Global)
  /\ LET found == [talebook_url |-> cache'.fields["talebook_url"],
                   sonovel_url |-> gcache'.fields["sonovel_url"]]
     IN  base' = [k \in Key |-> IF found[k] # None THEN found[k] ELSE base[k]]
  /\ todo' = Tail(todo)
  /\ UNCHANGED <<identity, file, pref, prefFile, worker, failures, restarts>>

StepBase ==
  /\ At("base")
  /\ base' = [base EXCEPT ![Head(todo).key] = Head(todo).value]
  /\ todo' = Tail(todo)
  /\ UNCHANGED <<identity, file, pref, prefFile, cache, gcache, worker, failures, restarts>>

StepOpen ==
  /\ At("open")
  /\ file' = WhileWriting(Head(todo).file)
  /\ todo' = Tail(todo)
  /\ UNCHANGED <<identity, pref, prefFile, cache, gcache, base, worker, failures, restarts>>

StepRename ==
  /\ At("rename")
  /\ file' = [file EXCEPT ![Head(todo).file][Head(todo).key] = Head(todo).value]
  /\ todo' = Tail(todo)
  /\ UNCHANGED <<identity, pref, prefFile, cache, gcache, base, worker, failures, restarts>>

\* A write or a rename that fails: that save ends, its cache stays valid.
StepFails ==
  /\ failures < MaxFailures
  /\ failures' = failures + 1
  /\ \/ At("rename") /\ todo' = SubSeq(todo, 3, Len(todo))
     \/ At("prefsave") /\ todo' = <<>>
  /\ UNCHANGED <<identity, file, pref, prefFile, cache, gcache, base, worker, restarts>>

StepPrefSave ==
  /\ At("prefsave")
  /\ prefFile' = Head(todo).value
  /\ todo' = Tail(todo)
  /\ UNCHANGED <<identity, file, pref, cache, gcache, base, worker, failures, restarts>>

StepPrefSwap ==
  /\ At("prefswap")
  /\ pref' = Head(todo).value
  /\ todo' = Tail(todo)
  /\ UNCHANGED <<identity, file, prefFile, cache, gcache, base, worker, failures, restarts>>

-----------------------------------------------------------------------------
(* ensureBaseUrl of a request: readSecure evaluates the path before it      *)
(* takes the lock; both services read from the identity root.               *)
EvaluatePath(w, k) ==
  /\ worker[w].pc = "idle"
  /\ worker' = [worker EXCEPT ![w] = [pc |-> "path", key |-> k, path |-> identity, got |-> None,
                                      quiet |-> todo = <<>>]]
  /\ UNCHANGED <<jsVars, cache, gcache, base, failures, restarts>>

ReadSecure(w) ==
  /\ worker[w].pc = "path"
  /\ cache' = Loaded(cache, worker[w].path)
  /\ worker' = [worker EXCEPT ![w].pc = "read", ![w].got = cache'.fields[worker[w].key]]
  /\ UNCHANGED <<jsVars, gcache, base, failures, restarts>>

SendTo(w) ==
  /\ worker[w].pc = "read"
  /\ base' = IF worker[w].got = None THEN base
             ELSE [base EXCEPT ![worker[w].key] = worker[w].got]
  /\ worker' = [worker EXCEPT ![w].pc = "sent"]
  /\ UNCHANGED <<jsVars, cache, gcache, failures, restarts>>

Answered(w) ==
  /\ worker[w].pc = "sent"
  /\ worker' = [worker EXCEPT ![w] = Resting]
  /\ UNCHANGED <<jsVars, cache, gcache, base, failures, restarts>>

\* The process dies; init begins at the global root, with nothing cached.
Restart ==
  /\ restarts < MaxRestarts
  /\ restarts' = restarts + 1
  /\ identity' = Global
  /\ cache' = NoCache
  /\ gcache' = NoCache
  /\ base' = Empty
  /\ pref' = None
  /\ todo' = <<>>
  /\ worker' = [w \in Worker |-> Resting]
  /\ UNCHANGED <<file, prefFile, failures>>

Next ==
  \/ \E r \in Root : SetIdentityDir(r)
  \/ \E v \in Url : SetTalebookUrl(v) \/ ApplySonovelUrl(v)
  \/ OpenSearch
  \/ ReadPref
  \/ \E p \in Pref : SetPref(p)
  \/ StepRoot \/ StepDrop \/ StepRefresh \/ StepBase \/ StepOpen \/ StepRename
  \/ StepFails \/ StepPrefSave \/ StepPrefSwap
  \/ \E w \in Worker :
       \/ \E k \in Key : EvaluatePath(w, k)
       \/ ReadSecure(w)
       \/ SendTo(w)
       \/ Answered(w)
  \/ Restart

Spec == Init /\ [][Next]_vars

-----------------------------------------------------------------------------
Field == Url \cup {None}

Content == [Key -> Field]

Cache == [valid : BOOLEAN, from : Root, fields : Content]

(* Every variable keeps its type.  In particular no reader ever finds a     *)
(* secure file half written, whenever the process dies: a torn file would   *)
(* read as one with no address and no credentials in it.                    *)
TypeOK ==
  /\ identity \in Root
  /\ file \in [Root -> Content]
  /\ cache \in Cache
  /\ gcache \in Cache
  /\ base \in Content
  /\ pref \in Pref \cup {None}
  /\ prefFile \in Pref
  /\ worker \in [Worker -> [pc : {"idle", "path", "read", "sent"}, key : Key, path : Root,
                            got : Field, quiet : BOOLEAN]]
  /\ failures \in 0..MaxFailures
  /\ restarts \in 0..MaxRestarts

(* The cache of the identity root agrees with its file, except between the  *)
(* rename and the invalidation that follows it, however reads on worker     *)
(* threads fall between them.  The SoNovel address can also be saved past   *)
(* this cache: it agrees as long as no write failed.                        *)
CacheCurrent ==
  cache.valid /\ cache.from = identity /\ ~(At("drop") /\ ~Head(todo).global) =>
    \A k \in Key : k = "talebook_url" \/ failures = 0 => cache.fields[k] = file[identity][k]

(* The cache of the global root agrees with the global SoNovel address      *)
(* unless that is being saved, although the legacy account's own saves      *)
(* write the same file and invalidate the other cache only.                 *)
GlobalCacheCurrent ==
  /\ gcache.valid
  /\ failures = 0
  /\ \A i \in DOMAIN todo : ~(todo[i].do = "drop" /\ todo[i].global)
  => gcache.fields["sonovel_url"] = file[Global]["sonovel_url"]

(* Neither cache is behind its file, or ahead of it, when it is used.        *)
CachesCurrent == CacheCurrent /\ GlobalCacheCurrent

(* A preference that was read is one a restart will find: the object in     *)
(* memory is replaced only after a save that succeeded.                     *)
PrefsDurable == pref # None /\ ~At("prefswap") => pref = prefFile

(* What the comment in setIdentityDir says: the cache of the account before *)
(* the switch must become invalid, or its credentials would be read.  A     *)
(* request made while no call of the JS thread is under way gets what the   *)
(* file of the identity root holds.                                         *)
ReadsOwnRoot ==
  \A w \in Worker : worker[w].quiet /\ worker[w].pc = "sent" /\ worker[w].key = "talebook_url" =>
    worker[w].got = file[identity]["talebook_url"]
=============================================================================
