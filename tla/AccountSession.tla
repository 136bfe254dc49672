--------------------------- MODULE AccountSession ---------------------------
(***************************************************************************)
(* Accounts and the login session: AccountManager.ets, AccountStore.ets    *)
(* and the session part of TalebookService.ets.                            *)
(*                                                                         *)
(* ArkTS code runs on one thread; an action is one turn of it, from one    *)
(* await to the next.  Requests run on native worker threads, which read   *)
(* the server's address from the identity root when they get to run.       *)
(* Page reloads, account switches, the sign-in chains they start and the   *)
(* probe of the server's kind interleave at every await.                   *)
(***************************************************************************)
EXTENDS Naturals, FiniteSets

CONSTANTS
  Account,     \* account ids; an id is used by one account
  Legacy,      \* the account whose identity root is filesDir
  None,        \* the empty id, the empty address
  Kind,        \* kinds of library server
  Sonovel,     \* the kind of a SoNovel record
  Chain,       \* bound of the model: sign-in chains running at once
  MaxEdits,    \* bound of the model: edits of one account
  MaxRestarts  \* bound of the model: process deaths

ASSUME ConstantsOK ==
  /\ IsFiniteSet(Account)
  /\ Legacy \in Account
  /\ None \notin Account /\ None \notin Account \X Nat /\ None \notin Chain
  /\ Sonovel \notin Kind
  /\ MaxEdits \in Nat
  /\ MaxRestarts \in Nat

VARIABLES
  rec,        \* the account list of AccountStore: state, kind and address of each id
  active,     \* active_account_id
  dir,        \* the identity root set in both native modules
  urlKey,     \* talebook_url in each identity root: whose address, which edit of it
  username,   \* the account whose name each username alias holds
  prefKind,   \* the kind in the preferences and in ServerRegistry
  sessionOk,  \* sessionOk; its reuse window may have passed
  validFor,   \* history: the server that answered when sessionOk was set
  promise,    \* sessionRestorePromise: the chain it stands for
  chain,      \* autoLoginInternal: what each sign-in chain awaits
  probing,    \* syncServerKindByProbe: the records it read before its await
  mode,       \* "boot", then "started" with the identity applied, then "run"
              \* once startup has asked for the session
  restarts    \* process deaths so far

storeVars == <<rec, active, urlKey, username, prefKind>>
sessionVars == <<sessionOk, validFor, promise, chain>>
vars == <<storeVars, dir, sessionVars, probing, mode, restarts>>

Idle == [pc |-> "idle", by |-> "restore", startup |-> FALSE, sent |-> FALSE, server |-> None]

\* identityDirFor and the alias functions: the empty id stands for the legacy account.
RootOf(a) == IF a = None THEN Legacy ELSE a

Kept(r) == {a \in Account : r[a].state = "kept"}

\* Mutant: a SoNovel record is taken for a library account.
AnyRecord(r, a) == a \in Kept(r)

IsLibrary(r, a) == a \in Kept(r) /\ r[a].kind # Sonovel

-----------------------------------------------------------------------------
(* Parts of turns.  r is the account list and act the active id as the turn *)
(* leaves them.                                                             *)

\* applyLocalConfig: follow the active id, and forget that a session was valid.
ApplyLocalConfig(act) ==
  /\ dir' = RootOf(act)
  /\ sessionOk' = FALSE

\* Mutant: applyIdentity does not return to the active account at its end.
IdentityOnly(a, act, r, names) ==
  /\ urlKey' = [urlKey EXCEPT ![a] = <<a, r[a].url>>]
  /\ username' = [names EXCEPT ![RootOf(act)] = a]
  /\ prefKind' = r[a].kind
  /\ dir' = a
  /\ sessionOk' = FALSE

\* Mutant: applyIdentity writes the address before it switches the root.
AddressToActive(a, act, r, names) ==
  /\ urlKey' = [urlKey EXCEPT ![RootOf(act)] = <<a, r[a].url>>]
  /\ username' = [names EXCEPT ![RootOf(act)] = a]
  /\ prefKind' = r[a].kind
  /\ ApplyLocalConfig(act)

(* applyIdentity of a library account: its address goes to its own root,    *)
(* its name to the alias of the active account, its kind to the             *)
(* preferences; at last the configuration of the active account is applied. *)
ApplyIdentity(a, act, r, names) ==
  /\ urlKey' = [urlKey EXCEPT ![a] = <<a, r[a].url>>]
  /\ username' = [names EXCEPT ![RootOf(act)] = a]
  /\ prefKind' = r[a].kind
  /\ ApplyLocalConfig(act)

\* activate, up to the first await of its sign-in.
Activate(a, r, c) ==
  /\ chain[c] = Idle
  /\ active' = a
  /\ ApplyIdentity(a, a, r, username)
  /\ promise' = None
  /\ chain' = [chain EXCEPT ![c] = [Idle EXCEPT !.pc = "info", !.by = "switch"]]
  /\ UNCHANGED <<validFor, probing, restarts, mode>>

(* ensureAuthenticated when no restore is under way and the last result is  *)
(* not reused: without an address nothing is sent.                          *)
Restore(c, ch) ==
  /\ ApplyLocalConfig(active)
  /\ IF urlKey[RootOf(active)] = None
     THEN chain' = ch /\ promise' = None
     ELSE chain' = [ch EXCEPT ![c].pc = "info"] /\ promise' = c

ProbeStarted == IF IsLibrary(rec, active)
                THEN probing \cup {[id |-> active, kind |-> rec[active].kind]}
                ELSE probing

-----------------------------------------------------------------------------
(* A fresh installation, or the upgrade of one with a single account.       *)
Init ==
  /\ rec = [a \in Account |-> [state |-> "new", kind |-> Sonovel, url |-> 0]]
  /\ active = None
  /\ dir = Legacy
  /\ \E old \in {None, <<Legacy, 0>>} :
       /\ urlKey = [a \in Account |-> IF a = Legacy THEN old ELSE None]
       /\ username = [a \in Account |-> IF a = Legacy /\ old # None THEN Legacy ELSE None]
  /\ prefKind \in Kind
  /\ sessionOk = FALSE
  /\ validFor = None
  /\ promise = None
  /\ chain = [c \in Chain |-> Idle]
  /\ probing = {}
  /\ mode = "boot"
  /\ restarts = 0

\* ensureMigrated: the old single account becomes the legacy account.
Migrated(r) ==
  IF Kept(r) = {} /\ urlKey[Legacy] # None
  THEN [r EXCEPT ![Legacy] = [state |-> "kept", kind |-> prefKind, url |-> urlKey[Legacy][2]]]
  ELSE r

\* migratePlaintextSecrets, for records whose user name never reached its alias.
NamesEnsured(names, r) ==
  [a \in Account |-> IF IsLibrary(r, a) /\ names[a] = None THEN a ELSE names[a]]

\* Mutant: startup migrates, but does not apply the active account again.
StartupWithoutIdentity ==
  /\ mode = "boot"
  /\ mode' = "started"
  /\ rec' = Migrated(rec)
  /\ active' = IF rec' # rec THEN Legacy ELSE active
  /\ username' = NamesEnsured(username, rec')
  /\ UNCHANGED <<urlKey, prefKind, dir, sessionVars, probing, restarts>>

\* startDeferredStartupWork: ensureMigrated, ensureActiveIdentity, the names.
DeferredStartup ==
  /\ mode = "boot"
  /\ mode' = "started"
  /\ rec' = Migrated(rec)
  /\ active' = IF rec' # rec THEN Legacy ELSE active
  /\ IF IsLibrary(rec', active')
     THEN ApplyIdentity(active', active', rec', NamesEnsured(username, rec'))
     ELSE username' = NamesEnsured(username, rec') /\ UNCHANGED <<urlKey, prefKind, dir, sessionOk>>
  /\ UNCHANGED <<validFor, promise, chain, probing, restarts>>

(* Startup asks for the session, whether or not a page has: it awaits the   *)
(* restore that runs, reuses a result, or restores; then it probes.         *)
StartupRestore(c) ==
  /\ mode = "started"
  /\ mode' = "run"
  /\ \/ /\ promise # None
        /\ chain' = [chain EXCEPT ![promise].startup = TRUE]
        /\ UNCHANGED <<dir, sessionOk, promise, probing>>
     \/ /\ promise = None /\ (sessionOk \/ urlKey[RootOf(active)] = None)
        /\ probing' = ProbeStarted
        /\ UNCHANGED <<dir, sessionOk, promise, chain>>
     \/ /\ promise = None /\ chain[c] = Idle /\ urlKey[RootOf(active)] # None
        /\ Restore(c, [chain EXCEPT ![c].startup = TRUE])
        /\ UNCHANGED probing
  /\ UNCHANGED <<storeVars, validFor, restarts>>

\* A page appears; a promise under way or a reused result changes nothing.
EnsureAuthenticated(c) ==
  /\ promise = None
  /\ chain[c] = Idle
  /\ Restore(c, chain)
  /\ UNCHANGED <<storeVars, validFor, probing, mode, restarts>>

\* switchTo, from the configuration page or the account picker.
SwitchTo(a, c) ==
  /\ mode # "boot"
  /\ IsLibrary(rec, a)
  /\ Activate(a, rec, c)
  /\ UNCHANGED rec

\* add; a new library account is switched to, a SoNovel record is not.
Add(a, k, c) ==
  /\ mode # "boot"
  /\ rec[a].state = "new" /\ a # Legacy
  /\ rec' = [rec EXCEPT ![a] = [state |-> "kept", kind |-> k, url |-> 0]]
  /\ IF k # Sonovel
     THEN Activate(a, rec', c)
     ELSE UNCHANGED <<active, urlKey, username, prefKind, dir, sessionVars, probing,
                      mode, restarts>>

\* update; the active account is applied again and signs in again.
Edit(a, k, c) ==
  /\ mode # "boot"
  /\ a \in Kept(rec)
  /\ rec[a].url < MaxEdits
  /\ rec' = [rec EXCEPT ![a].kind = k, ![a].url = @ + 1]
  /\ IF k # Sonovel /\ a = active
     THEN Activate(a, rec', c)
     ELSE UNCHANGED <<active, urlKey, username, prefKind, dir, sessionVars, probing,
                      mode, restarts>>

(* remove, which the page offers while there are two records.  When the     *)
(* active account goes, a remaining record takes its place: the first in    *)
(* the list, whose order the model leaves open.                             *)
Delete(a) ==
  /\ mode # "boot"
  /\ a \in Kept(rec) /\ Kept(rec) # {a}
  /\ rec' = [rec EXCEPT ![a].state = "deleted"]
  /\ IF a = active
     THEN \E n \in Kept(rec') :
            /\ active' = n
            /\ IF IsLibrary(rec', n)
               THEN ApplyIdentity(n, n, rec', username)
               ELSE sessionOk' = FALSE /\ UNCHANGED <<urlKey, username, prefKind, dir>>
            /\ promise' = None
     ELSE UNCHANGED <<active, urlKey, username, prefKind, dir, sessionOk, promise>>
  /\ UNCHANGED <<validFor, chain, probing, mode, restarts>>

-----------------------------------------------------------------------------
(* A sign-in chain: user/info, and when that finds no login, sign_in and    *)
(* user/info again.                                                         *)

\* The worker thread: ensureBaseUrl reads the address of the identity root.
Request(c) ==
  /\ chain[c].pc # "idle" /\ ~chain[c].sent
  /\ chain' = [chain EXCEPT ![c].sent = TRUE,
                            ![c].server = IF urlKey[dir] = None THEN None ELSE urlKey[dir][1]]
  /\ UNCHANGED <<storeVars, dir, sessionOk, validFor, promise, probing, mode, restarts>>

Awaits(c, pc) == chain[c].pc = pc /\ chain[c].sent

\* Mutant: the end of a failed restore leaves the promise.
FinishKeepsPromise(c, ok) ==
  /\ IF chain[c].by = "restore"
     THEN /\ sessionOk' = ok
          /\ validFor' = IF ok THEN chain[c].server ELSE validFor
          /\ promise' = IF ok THEN None ELSE promise
          /\ probing' = IF chain[c].startup THEN ProbeStarted ELSE probing
     ELSE UNCHANGED <<sessionOk, validFor, promise, probing>>
  /\ chain' = [chain EXCEPT ![c] = Idle]
  /\ UNCHANGED <<rec, active, dir, urlKey, username, prefKind, mode, restarts>>

(* The end of a restore answers the promise and forgets it; startup probes  *)
(* if it waited.  The end of a switch refreshes the unread count, which     *)
(* restores the session unless a restore runs, a result is reused or there  *)
(* are no credentials; then, after a success, the probe starts.             *)
Finish(c, ok) ==
  LET idle == [chain EXCEPT ![c] = Idle]
  IN  /\ \/ /\ chain[c].by = "restore"
            /\ sessionOk' = ok
            /\ validFor' = IF ok THEN chain[c].server ELSE validFor
            /\ promise' = None
            /\ chain' = idle
            /\ probing' = IF chain[c].startup THEN ProbeStarted ELSE probing
            /\ UNCHANGED dir
         \/ /\ chain[c].by = "switch"
            /\ \/ promise = None /\ Restore(c, idle)
               \/ chain' = idle /\ UNCHANGED <<dir, sessionOk, promise>>
            /\ probing' = IF ok THEN ProbeStarted ELSE probing
            /\ UNCHANGED validFor
      /\ UNCHANGED <<rec, active, urlKey, username, prefKind, mode, restarts>>

\* The next request of a chain.
Advance(c, pc) == chain' = [chain EXCEPT ![c].pc = pc, ![c].sent = FALSE, ![c].server = None]

LoggedInAlready(c) ==
  /\ Awaits(c, "info") /\ chain[c].server # None
  /\ Finish(c, TRUE)

\* No saved credentials, a server that cannot be reached, or a refusal.
SignInFails(c) ==
  /\ Awaits(c, "info") \/ Awaits(c, "login")
  /\ Finish(c, FALSE)

SignIn(c) ==
  /\ Awaits(c, "info")
  /\ username[RootOf(active)] # None
  /\ Advance(c, "login")
  /\ UNCHANGED <<storeVars, dir, sessionOk, validFor, promise, probing, mode, restarts>>

SignedIn(c) ==
  /\ Awaits(c, "login") /\ chain[c].server # None
  /\ Advance(c, "profile")
  /\ UNCHANGED <<storeVars, dir, sessionOk, validFor, promise, probing, mode, restarts>>

\* cacheProfileAfterLogin: a failure to read the profile does not matter.
ProfileRead(c) ==
  /\ Awaits(c, "profile")
  /\ Finish(c, TRUE)

\* signOut, a synchronous call: the last result is forgotten, a restore under
\* way is not.
SignOut ==
  /\ sessionOk' = FALSE
  /\ validFor' = None
  /\ UNCHANGED <<storeVars, dir, promise, chain, probing, mode, restarts>>

-----------------------------------------------------------------------------
\* Mutant: the record read before the await is saved as it was.
ProbeWritesBack(p, k) ==
  /\ p \in probing
  /\ probing' = probing \ {p}
  /\ IF k # p.kind
     THEN /\ rec' = [rec EXCEPT ![p.id].kind = k, ![p.id].state = "kept"]
          /\ ApplyIdentity(p.id, active, rec', username)
     ELSE UNCHANGED <<rec, urlKey, username, prefKind, dir, sessionOk>>
  /\ UNCHANGED <<active, validFor, promise, chain, mode, restarts>>

(* The answer of the probe: the list is read again, the kind of the account *)
(* that was active is corrected and its identity applied.                   *)
ProbeAnswer(p, k) ==
  /\ p \in probing
  /\ probing' = probing \ {p}
  /\ IF k # p.kind /\ p.id \in Kept(rec)
     THEN /\ rec' = [rec EXCEPT ![p.id].kind = k]
          /\ ApplyIdentity(p.id, active, rec', username)
     ELSE UNCHANGED <<rec, urlKey, username, prefKind, dir, sessionOk>>
  /\ UNCHANGED <<active, validFor, promise, chain, mode, restarts>>

\* The server is not recognised, or is what the record says.
ProbeNothing(p) ==
  /\ p \in probing
  /\ probing' = probing \ {p}
  /\ UNCHANGED <<storeVars, dir, sessionVars, mode, restarts>>

-----------------------------------------------------------------------------
(* The process dies; onCreate applies the configuration of the active id.   *)
Reboot ==
  /\ restarts < MaxRestarts
  /\ restarts' = restarts + 1
  /\ ApplyLocalConfig(active')
  /\ validFor' = None
  /\ promise' = None
  /\ chain' = [c \in Chain |-> Idle]
  /\ probing' = {}
  /\ mode' = "boot"

Restart == UNCHANGED storeVars /\ Reboot

\* In the middle of activate: the id is saved, its address perhaps not.
CrashInSwitch(a) ==
  /\ mode # "boot"
  /\ IsLibrary(rec, a)
  /\ active' = a
  /\ Reboot
  /\ urlKey' \in {urlKey, [urlKey EXCEPT ![a] = <<a, rec[a].url>>]}
  /\ UNCHANGED <<rec, username, prefKind>>

\* In the middle of remove: the list is saved, the active id is not.
CrashInDelete(a) ==
  /\ mode # "boot"
  /\ a \in Kept(rec) /\ Kept(rec) # {a}
  /\ rec' = [rec EXCEPT ![a].state = "deleted"]
  /\ UNCHANGED <<active, urlKey, username, prefKind>>
  /\ Reboot

Next ==
  \/ DeferredStartup
  \/ SignOut
  \/ Restart
  \/ \E c \in Chain :
       \/ StartupRestore(c)
       \/ EnsureAuthenticated(c)
       \/ Request(c)
       \/ LoggedInAlready(c)
       \/ SignInFails(c)
       \/ SignIn(c)
       \/ SignedIn(c)
       \/ ProfileRead(c)
  \/ \E a \in Account :
       \/ \E c \in Chain : SwitchTo(a, c)
       \/ \E k \in Kind \cup {Sonovel}, c \in Chain : Add(a, k, c) \/ Edit(a, k, c)
       \/ Delete(a)
       \/ CrashInSwitch(a)
       \/ CrashInDelete(a)
  \/ \E p \in probing : ProbeNothing(p) \/ \E k \in Kind : ProbeAnswer(p, k)

Spec == Init /\ [][Next]_vars

-----------------------------------------------------------------------------
Root == Account \cup {None}

ChainState ==
  [pc : {"idle", "info", "login", "profile"}, by : {"restore", "switch"},
   startup : BOOLEAN, sent : BOOLEAN, server : Root]

TypeOK ==
  /\ rec \in [Account -> [state : {"new", "kept", "deleted"}, kind : Kind \cup {Sonovel},
                          url : 0..MaxEdits]]
  /\ active \in Root
  /\ dir \in Account
  /\ urlKey \in [Account -> (Account \X (0..MaxEdits)) \cup {None}]
  /\ username \in [Account -> Root]
  /\ prefKind \in Kind
  /\ sessionOk \in BOOLEAN
  /\ validFor \in Root
  /\ promise \in Chain \cup {None}
  /\ chain \in [Chain -> ChainState]
  /\ probing \in SUBSET [id : Account, kind : Kind]
  /\ mode \in {"boot", "started", "run"}
  /\ restarts \in 0..MaxRestarts

(* Between turns both native modules work in the identity root of the       *)
(* active account, although a probe that ends late applies the identity of  *)
(* another one: cookies, records and history are never those of an account  *)
(* the user has left.                                                       *)
DirFollowsActive == IsLibrary(rec, active) => dir = active

(* An identity root holds the address of its own account only, so a worker  *)
(* that reads it late still sends to the server of the root it reads.       *)
UrlOwn == \A a \in Account : urlKey[a] # None => urlKey[a][1] = a

(* Once startup has applied it, the address that requests use for the       *)
(* active account is the one of its record, after edits, late probes and a  *)
(* crash in the middle of a switch.                                         *)
UrlCurrent ==
  mode # "boot" /\ IsLibrary(rec, active) => urlKey[active] = <<active, rec[active].url>>

(* A promise handed to callers of ensureAuthenticated belongs to a restore  *)
(* that still runs: nobody awaits a chain that has ended or was replaced.   *)
PromiseRuns ==
  promise # None => chain[promise].pc # "idle" /\ chain[promise].by = "restore"

\* A probe that read the record before its await corrects its kind in this step.
Corrected(a) == \E p \in probing \ probing' : p.id = a /\ rec'[a].kind \in Kind \ {p.kind}

(* No step touches a deleted account or takes back an address that the user *)
(* edited, whatever was read before an await (syncServerKindByProbe).  The  *)
(* kind of an account is what its last edit said, or what a probe found,    *)
(* which is never the kind that this probe had read.  That is all: a probe  *)
(* whose answer comes after an edit does replace the kind that the user has *)
(* just chosen, by that of the server it asked, SoNovel's kind too.         *)
RecordsNotRolledBack ==
  [][\A a \in Account :
       /\ rec[a].state = "deleted" => rec'[a] = rec[a]
       /\ rec'[a].url >= rec[a].url
       /\ rec[a].state = "kept" /\ rec'[a].url = rec[a].url
          => rec'[a].kind = rec[a].kind \/ Corrected(a)]_vars

(* What the comment in invalidateSession says: after a switch the session   *)
(* is checked again, a result for the account before it is never reused.    *)
SessionOfActive == sessionOk /\ IsLibrary(rec, active) => validFor = active

(* What the comment on ensureActiveIdentity says: the record is the         *)
(* authority, and the application stays consistent with the active account. *)
ConfigOfActive ==
  mode # "boot" /\ IsLibrary(rec, active) =>
    username[active] = active /\ prefKind = rec[active].kind
=============================================================================
