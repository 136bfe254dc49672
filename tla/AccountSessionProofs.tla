------------------------ MODULE AccountSessionProofs ------------------------
(***************************************************************************)
(* Proofs about AccountSession for every set of accounts, any number of    *)
(* concurrent sign-in chains, edits and restarts.  The invariant has two   *)
(* halves: what the stores and the identity root say of each other, and    *)
(* what the promise says of the chains.                                    *)
(***************************************************************************)
EXTENDS AccountSession, TLAPS

Records == [Account -> [state : {"new", "kept", "deleted"}, kind : Kind \cup {Sonovel},
                        url : 0..MaxEdits]]

StoreTypes ==
  /\ rec \in Records
  /\ active \in Root
  /\ dir \in Account
  /\ urlKey \in [Account -> (Account \X (0..MaxEdits)) \cup {None}]
  /\ username \in [Account -> Root]
  /\ prefKind \in Kind
  /\ sessionOk \in BOOLEAN
  /\ mode \in {"boot", "started", "run"}

ChainTypes ==
  /\ validFor \in Root
  /\ promise \in Chain \cup {None}
  /\ chain \in [Chain -> ChainState]
  /\ probing \in SUBSET [id : Account, kind : Kind]
  /\ restarts \in 0..MaxRestarts

StoreInv == StoreTypes /\ DirFollowsActive /\ UrlOwn /\ UrlCurrent

ChainInv == ChainTypes /\ PromiseRuns

-----------------------------------------------------------------------------
\* The root of an account is its own, and that of no account the legacy one.
LEMMA RootType ==
  ASSUME NEW a \in Root
  PROVE  RootOf(a) \in Account /\ (a \in Account => RootOf(a) = a)
BY ConstantsOK DEF ConstantsOK, RootOf, Root

(* applyIdentity, of whichever library account and whichever account is     *)
(* active: it ends in the root of the active one, and changes no address    *)
(* but that of the account applied.                                         *)
LEMMA IdentityApplied ==
  ASSUME StoreInv, NEW r \in Records, NEW act \in Root, NEW a, IsLibrary(r, a),
         NEW names \in [Account -> Root], ApplyIdentity(a, act, r, names)
  PROVE  /\ dir' = RootOf(act) /\ dir' \in Account
         /\ urlKey' \in [Account -> (Account \X (0..MaxEdits)) \cup {None}]
         /\ urlKey'[a] = <<a, r[a].url>>
         /\ \A b \in Account : b # a => urlKey'[b] = urlKey[b]
         /\ UrlOwn'
         /\ username' \in [Account -> Root]
         /\ prefKind' \in Kind
         /\ sessionOk' \in BOOLEAN
<1>1. a \in Account /\ r[a].url \in 0..MaxEdits /\ r[a].kind \in Kind
  BY DEF IsLibrary, Kept, Records
<1>2. RootOf(act) \in Account
  BY RootType
<1>3. urlKey' = [urlKey EXCEPT ![a] = <<a, r[a].url>>]
  BY DEF ApplyIdentity
<1>4. <<a, r[a].url>> \in (Account \X (0..MaxEdits)) \cup {None}
  BY <1>1
<1>5. /\ urlKey' \in [Account -> (Account \X (0..MaxEdits)) \cup {None}]
      /\ urlKey'[a] = <<a, r[a].url>>
      /\ \A b \in Account : b # a => urlKey'[b] = urlKey[b]
  BY <1>1, <1>3, <1>4 DEF StoreInv, StoreTypes
<1>6. UrlOwn'
  <2> SUFFICES ASSUME NEW b \in Account, urlKey'[b] # None PROVE urlKey'[b][1] = b
    BY DEF UrlOwn
  <2> QED
    BY <1>5 DEF StoreInv, UrlOwn
<1>7. username' \in [Account -> Root] /\ prefKind' \in Kind
  BY <1>1, <1>2 DEF ApplyIdentity, Root
<1> QED
  BY <1>2, <1>5, <1>6, <1>7 DEF ApplyIdentity, ApplyLocalConfig

\* What is left to show once the identity of the active account was applied.
LEMMA ActiveApplied ==
  ASSUME StoreInv, rec' \in Records, active' \in Root, mode' \in {"boot", "started", "run"},
         NEW names \in [Account -> Root],
         IsLibrary(rec', active'), ApplyIdentity(active', active', rec', names)
  PROVE  StoreInv'
<1>1. active' \in Account
  BY DEF IsLibrary, Kept
<1>2. RootOf(active') = active'
  BY <1>1, RootType
<1>3. /\ dir' = RootOf(active') /\ dir' \in Account
      /\ urlKey' \in [Account -> (Account \X (0..MaxEdits)) \cup {None}]
      /\ urlKey'[active'] = <<active', rec'[active'].url>>
      /\ UrlOwn'
      /\ username' \in [Account -> Root]
      /\ prefKind' \in Kind
      /\ sessionOk' \in BOOLEAN
  BY IdentityApplied
<1> QED
  BY <1>2, <1>3 DEF StoreInv, StoreTypes, DirFollowsActive, UrlCurrent

(* The configuration of the active account applied again while the stores   *)
(* stay as they are: a restore, or the start of the process.                *)
LEMMA ConfigApplied ==
  ASSUME StoreInv, UNCHANGED <<rec, active, urlKey, username, prefKind>>,
         \/ mode' = mode
         \/ mode' = "boot"
         \/ mode = "started" /\ mode' = "run",
         dir' = RootOf(active) \/ dir' = dir,
         sessionOk' \in BOOLEAN
  PROVE  StoreInv'
<1>1. RootOf(active) \in Account /\ (active \in Account => RootOf(active) = active)
  BY RootType DEF StoreInv, StoreTypes
<1>2. IsLibrary(rec, active) => active \in Account
  BY DEF IsLibrary, Kept
<1>3. StoreTypes'
  BY <1>1 DEF StoreInv, StoreTypes
<1>4. IsLibrary(rec, active)' = IsLibrary(rec, active)
  BY DEF IsLibrary, Kept
<1>5. DirFollowsActive'
  BY <1>1, <1>2, <1>4 DEF StoreInv, DirFollowsActive
<1>6. UrlOwn' /\ UrlCurrent'
  BY <1>4 DEF StoreInv, UrlOwn, UrlCurrent
<1> QED
  BY <1>3, <1>5, <1>6 DEF StoreInv

-----------------------------------------------------------------------------
\* The invariant of the stores holds at first.
LEMMA StoreInit == ASSUME Init PROVE StoreInv
<1>1. \A a \in Account : ~IsLibrary(rec, a)
  BY DEF Init, IsLibrary, Kept
<1>2. active = None /\ None \notin Account /\ mode = "boot"
  BY ConstantsOK DEF Init, ConstantsOK
<1>3. PICK old \in {None, <<Legacy, 0>>} :
        /\ urlKey = [a \in Account |-> IF a = Legacy THEN old ELSE None]
        /\ username = [a \in Account |-> IF a = Legacy /\ old # None THEN Legacy ELSE None]
  BY DEF Init
<1>4. urlKey \in [Account -> (Account \X (0..MaxEdits)) \cup {None}]
  BY <1>3, ConstantsOK DEF ConstantsOK
<1>5. StoreTypes
  <2>1. rec \in Records
    BY ConstantsOK DEF Init, ConstantsOK, Records
  <2>2. username \in [Account -> Root]
    BY <1>3, ConstantsOK DEF ConstantsOK, Root
  <2> QED
    BY <1>4, <2>1, <2>2, ConstantsOK DEF Init, ConstantsOK, StoreTypes, Root
<1>6. UrlOwn
  BY <1>3, ConstantsOK DEF UrlOwn, ConstantsOK
<1> QED
  BY <1>1, <1>2, <1>5, <1>6 DEF StoreInv, DirFollowsActive, UrlCurrent, IsLibrary, Kept

\* The old single account keeps its address and its kind.
LEMMA MigratedType ==
  ASSUME StoreTypes
  PROVE  Migrated(rec) \in Records
<1>1. Legacy \in Account
  BY ConstantsOK DEF ConstantsOK
<1>2. urlKey[Legacy] # None => urlKey[Legacy][2] \in 0..MaxEdits
  BY <1>1 DEF StoreTypes
<1> QED
  BY <1>1, <1>2 DEF StoreTypes, Migrated, Records

\* Startup repairs what a crash left: the active account is applied again.
LEMMA StartupKeepsStore ==
  ASSUME StoreInv, DeferredStartup
  PROVE  StoreInv'
<1>1. rec' \in Records
  BY MigratedType DEF StoreInv, DeferredStartup
<1>2. active' \in Root /\ mode' \in {"boot", "started", "run"}
  BY ConstantsOK DEF StoreInv, StoreTypes, DeferredStartup, Root, ConstantsOK
<1>3. NamesEnsured(username, rec') \in [Account -> Root]
  BY DEF StoreInv, StoreTypes, NamesEnsured, Root
<1>4. CASE IsLibrary(rec', active')
  BY <1>1, <1>2, <1>3, <1>4, ActiveApplied DEF DeferredStartup
<1>5. CASE ~IsLibrary(rec', active')
  <2>1. StoreTypes'
    BY <1>1, <1>2, <1>3, <1>5 DEF StoreInv, StoreTypes, DeferredStartup
  <2>2. UrlOwn'
    BY <1>5 DEF StoreInv, UrlOwn, DeferredStartup
  <2> QED
    BY <1>5, <2>1, <2>2 DEF StoreInv, DirFollowsActive, UrlCurrent
<1> QED
  BY <1>4, <1>5

\* A record of another account, or one that becomes a SoNovel record, changes.
LEMMA RecordChanged ==
  ASSUME StoreInv, rec' \in Records,
         UNCHANGED <<active, urlKey, username, prefKind, dir, sessionOk, mode>>,
         IsLibrary(rec', active) => IsLibrary(rec, active) /\ rec'[active] = rec[active]
  PROVE  StoreInv'
<1>1. StoreTypes' /\ UrlOwn'
  BY DEF StoreInv, StoreTypes, UrlOwn
<1>2. IsLibrary(rec, active)' => IsLibrary(rec, active) /\ rec'[active] = rec[active]
  BY DEF IsLibrary, Kept
<1>3. DirFollowsActive' /\ UrlCurrent'
  BY <1>2 DEF StoreInv, DirFollowsActive, UrlCurrent
<1> QED
  BY <1>1, <1>3 DEF StoreInv

\* A switch to an account of the list keeps the invariant of the stores.
LEMMA ActivateKeepsStore ==
  ASSUME StoreInv, rec' \in Records, NEW a \in Account, NEW c \in Chain,
         IsLibrary(rec', a), Activate(a, rec', c)
  PROVE  StoreInv'
<1>1. active' = a /\ a \in Root
  BY DEF Activate, Root
<1>2. username \in [Account -> Root] /\ mode' \in {"boot", "started", "run"}
  BY DEF StoreInv, StoreTypes, Activate
<1>3. ApplyIdentity(active', active', rec', username)
  BY <1>1 DEF Activate
<1> QED
  BY <1>1, <1>2, <1>3, ActiveApplied

\* Adding an account keeps it, switched to or not.
LEMMA AddKeepsStore ==
  ASSUME StoreInv, NEW a \in Account, NEW k \in Kind \cup {Sonovel}, NEW c \in Chain, Add(a, k, c)
  PROVE  StoreInv'
<1>1. /\ rec \in Records
      /\ rec' = [rec EXCEPT ![a] = [state |-> "kept", kind |-> k, url |-> 0]]
  BY DEF Add, StoreInv, StoreTypes
<1>2. rec' \in Records
  BY <1>1, ConstantsOK DEF ConstantsOK, Records
<1>3. CASE k # Sonovel
  <2>1. IsLibrary(rec', a)
    BY <1>1, <1>3 DEF IsLibrary, Kept, Records
  <2> QED
    BY <1>2, <1>3, <2>1, ActivateKeepsStore DEF Add
<1>4. CASE k = Sonovel
  <2>1. IsLibrary(rec', active) => active # a
    BY <1>1, <1>4 DEF IsLibrary, Kept, Records
  <2>2. IsLibrary(rec', active) => IsLibrary(rec, active) /\ rec'[active] = rec[active]
    BY <1>1, <2>1 DEF IsLibrary, Kept, Records
  <2> QED
    BY <1>2, <1>4, <2>2, RecordChanged DEF Add, sessionVars
<1> QED
  BY <1>3, <1>4

\* Editing keeps it: the active account is applied again, others are not.
LEMMA EditKeepsStore ==
  ASSUME StoreInv, NEW a \in Account, NEW k \in Kind \cup {Sonovel}, NEW c \in Chain, Edit(a, k, c)
  PROVE  StoreInv'
<1>1. /\ rec \in Records /\ a \in Kept(rec) /\ rec[a].url < MaxEdits
      /\ rec' = [rec EXCEPT ![a].kind = k, ![a].url = @ + 1]
  BY DEF Edit, StoreInv, StoreTypes
<1>2. rec[a].url + 1 \in 0..MaxEdits
  BY <1>1, ConstantsOK DEF ConstantsOK, Records
<1>3. rec' \in Records
  BY <1>1, <1>2 DEF Records
<1>4. CASE k # Sonovel /\ a = active
  <2>1. IsLibrary(rec', a)
    BY <1>1, <1>4 DEF IsLibrary, Kept, Records
  <2> QED
    BY <1>3, <1>4, <2>1, ActivateKeepsStore DEF Edit
<1>5. CASE ~(k # Sonovel /\ a = active)
  <2>1. IsLibrary(rec', active) => active # a
    BY <1>1, <1>5 DEF IsLibrary, Kept, Records
  <2>2. IsLibrary(rec', active) => IsLibrary(rec, active) /\ rec'[active] = rec[active]
    BY <1>1, <2>1 DEF IsLibrary, Kept, Records
  <2> QED
    BY <1>3, <1>5, <2>2, RecordChanged DEF Edit, sessionVars
<1> QED
  BY <1>4, <1>5

\* Deleting keeps it: a remaining record becomes the active account.
LEMMA DeleteKeepsStore ==
  ASSUME StoreInv, NEW a \in Account, Delete(a)
  PROVE  StoreInv'
<1>1. rec \in Records /\ rec' = [rec EXCEPT ![a].state = "deleted"]
  BY DEF Delete, StoreInv, StoreTypes
<1>2. rec' \in Records
  BY <1>1 DEF Records
<1>3. CASE a = active
  <2>1. PICK n \in Kept(rec') :
          /\ active' = n
          /\ IF IsLibrary(rec', n)
             THEN ApplyIdentity(n, n, rec', username)
             ELSE sessionOk' = FALSE /\ UNCHANGED <<urlKey, username, prefKind, dir>>
    BY <1>3 DEF Delete
  <2>2. active' \in Root
    BY <2>1 DEF Kept, Root
  <2>3. CASE IsLibrary(rec', n)
    <3>1. ApplyIdentity(active', active', rec', username) /\ IsLibrary(rec', active')
      BY <2>1, <2>3
    <3>2. username \in [Account -> Root] /\ mode' \in {"boot", "started", "run"}
      BY DEF StoreInv, StoreTypes, Delete
    <3> QED
      BY <1>2, <2>2, <3>1, <3>2, ActiveApplied
  <2>4. CASE ~IsLibrary(rec', n)
    <3>1. StoreTypes' /\ UrlOwn'
      BY <1>2, <2>1, <2>2, <2>4 DEF StoreInv, StoreTypes, UrlOwn, Delete
    <3>2. ~IsLibrary(rec, active)'
      BY <2>1, <2>4 DEF IsLibrary, Kept
    <3> QED
      BY <3>1, <3>2 DEF StoreInv, DirFollowsActive, UrlCurrent
  <2> QED
    BY <2>3, <2>4
<1>4. CASE a # active
  <2>1. IsLibrary(rec', active) => IsLibrary(rec, active) /\ rec'[active] = rec[active]
    BY <1>1, <1>4 DEF IsLibrary, Kept, Records
  <2> QED
    BY <1>2, <1>4, <2>1, RecordChanged DEF Delete
<1> QED
  BY <1>3, <1>4

(* A late probe: the account it corrects may be the active one or one the   *)
(* user has left; either way the active account's root is the last set.     *)
LEMMA ProbeKeepsStore ==
  ASSUME StoreInv, ChainTypes, NEW p \in probing, NEW k \in Kind, ProbeAnswer(p, k)
  PROVE  StoreInv'
<1>1. CASE ~(k # p.kind /\ p.id \in Kept(rec))
  <2>1. IsLibrary(rec', active) => IsLibrary(rec, active) /\ rec'[active] = rec[active]
    BY <1>1 DEF ProbeAnswer
  <2> QED
    BY <1>1, <2>1, RecordChanged DEF ProbeAnswer, StoreInv, StoreTypes
<1>2. CASE k # p.kind /\ p.id \in Kept(rec)
  <2>1. /\ rec \in Records /\ p.id \in Account /\ active \in Root
        /\ rec' = [rec EXCEPT ![p.id].kind = k]
        /\ ApplyIdentity(p.id, active, rec', username)
        /\ username \in [Account -> Root]
        /\ active' = active /\ mode' = mode
    BY <1>2 DEF ProbeAnswer, StoreInv, StoreTypes, Kept
  <2>2. rec' \in Records
    BY <2>1 DEF Records
  <2>3. IsLibrary(rec', p.id)
    BY <1>2, <2>1, ConstantsOK DEF IsLibrary, Kept, Records, ConstantsOK
  <2>4. /\ dir' = RootOf(active) /\ dir' \in Account
        /\ urlKey' \in [Account -> (Account \X (0..MaxEdits)) \cup {None}]
        /\ urlKey'[p.id] = <<p.id, rec'[p.id].url>>
        /\ \A b \in Account : b # p.id => urlKey'[b] = urlKey[b]
        /\ UrlOwn'
        /\ username' \in [Account -> Root]
        /\ prefKind' \in Kind
        /\ sessionOk' \in BOOLEAN
    <3>1. PICK b0 \in Account : b0 = p.id
      BY <2>1
    <3>2. IsLibrary(rec', b0) /\ ApplyIdentity(b0, active, rec', username)
      BY <2>1, <2>3, <3>1
    <3>3. /\ dir' = RootOf(active) /\ dir' \in Account
          /\ urlKey' \in [Account -> (Account \X (0..MaxEdits)) \cup {None}]
          /\ urlKey'[b0] = <<b0, rec'[b0].url>>
          /\ \A b \in Account : b # b0 => urlKey'[b] = urlKey[b]
          /\ UrlOwn'
          /\ username' \in [Account -> Root]
          /\ prefKind' \in Kind
          /\ sessionOk' \in BOOLEAN
      <4>1. active \in Root /\ username \in [Account -> Root]
        BY <2>1
      <4> QED
        BY <2>2, <3>2, <4>1, IdentityApplied, ZenonT(60)
    <3> QED
      BY <3>1, <3>3
  <2>5. StoreTypes'
    BY <2>1, <2>2, <2>4 DEF StoreInv, StoreTypes
  <2>6. DirFollowsActive'
    BY <2>1, <2>4, RootType DEF DirFollowsActive, IsLibrary, Kept
  <2>7. UrlCurrent'
    <3> SUFFICES ASSUME mode # "boot", IsLibrary(rec', active)
                 PROVE  urlKey'[active] = <<active, rec'[active].url>>
      BY <2>1 DEF UrlCurrent, IsLibrary, Kept
    <3>1. active \in Account
      BY DEF IsLibrary, Kept
    <3>2. CASE active = p.id
      BY <2>4, <3>2
    <3>3. CASE active # p.id
      <4>1. IsLibrary(rec, active) /\ rec'[active].url = rec[active].url
        BY <2>1, <3>1, <3>3 DEF IsLibrary, Kept, Records
      <4> QED
        BY <2>4, <3>1, <3>3, <4>1 DEF StoreInv, UrlCurrent
    <3> QED
      BY <3>2, <3>3
  <2> QED
    BY <2>4, <2>5, <2>6, <2>7 DEF StoreInv
<1> QED
  BY <1>1, <1>2

\* A crash leaves stores that the next start repairs: nothing is applied yet.
LEMMA CrashKeepsStore ==
  ASSUME StoreInv, rec' \in Records, active' \in Root, Reboot,
         urlKey' \in [Account -> (Account \X (0..MaxEdits)) \cup {None}], UrlOwn',
         UNCHANGED <<username, prefKind>>
  PROVE  StoreInv'
<1>1. dir' = RootOf(active') /\ sessionOk' = FALSE /\ mode' = "boot"
  BY DEF Reboot, ApplyLocalConfig
<1>2. StoreTypes'
  BY <1>1, RootType DEF StoreInv, StoreTypes
<1>3. DirFollowsActive'
  BY <1>1, RootType DEF DirFollowsActive, IsLibrary, Kept
<1>4. UrlCurrent'
  BY <1>1 DEF UrlCurrent
<1> QED
  BY <1>2, <1>3, <1>4 DEF StoreInv
-----------------------------------------------------------------------------
\* The invariant of the promise and the chains holds at first.
LEMMA ChainInit == ASSUME Init PROVE ChainInv
<1>1. Idle \in ChainState
  BY DEF Idle, ChainState, Root
<1>2. restarts = 0 /\ 0 \in 0..MaxRestarts
  BY ConstantsOK DEF Init, ConstantsOK
<1> QED
  BY <1>1, <1>2 DEF Init, ChainInv, ChainTypes, PromiseRuns, Root

\* The probe remembers a library account.
LEMMA ProbeType ==
  ASSUME StoreTypes, ChainTypes
  PROVE  ProbeStarted \in SUBSET [id : Account, kind : Kind]
<1>1. CASE IsLibrary(rec, active)
  <2>1. active \in Account /\ rec[active].kind \in Kind
    BY <1>1 DEF StoreTypes, IsLibrary, Kept, Records
  <2> QED
    BY <1>1, <2>1 DEF ProbeStarted, ChainTypes
<1>2. CASE ~IsLibrary(rec, active)
  BY <1>2 DEF ProbeStarted, ChainTypes
<1> QED
  BY <1>1, <1>2

(* A restore begins in a chain that was idle: its promise is the only one,  *)
(* and stands for it.                                                       *)
LEMMA RestoreKeepsPromise ==
  ASSUME NEW c \in Chain, NEW ch \in [Chain -> ChainState],
         ch[c].pc = "idle", ch[c].by = "restore", Restore(c, ch)
  PROVE  /\ chain' \in [Chain -> ChainState]
         /\ promise' \in Chain \cup {None}
         /\ PromiseRuns'
<1>1. [ch EXCEPT ![c].pc = "info"] \in [Chain -> ChainState]
  BY DEF ChainState
<1>2. [ch EXCEPT ![c].pc = "info"][c] = [ch[c] EXCEPT !.pc = "info"]
  OBVIOUS
<1>3. [ch EXCEPT ![c].pc = "info"][c].pc = "info" /\ [ch EXCEPT ![c].pc = "info"][c].by = "restore"
  BY <1>2 DEF ChainState
<1>4. CASE urlKey[RootOf(active)] = None
  BY <1>4 DEF Restore, PromiseRuns
<1>5. CASE urlKey[RootOf(active)] # None
  BY <1>1, <1>3, <1>5 DEF Restore, PromiseRuns
<1> QED
  BY <1>4, <1>5

\* The states in which a chain ends or begins are chain states.
LEMMA IdleType ==
  /\ Idle \in ChainState
  /\ Idle.pc = "idle" /\ Idle.by = "restore"
  /\ [Idle EXCEPT !.pc = "info", !.by = "switch"] \in ChainState
  /\ [Idle EXCEPT !.startup = TRUE] \in ChainState
BY DEF Idle, ChainState, Root

\* A switch forgets the promise, whatever chain it stood for.
LEMMA ActivateKeepsChain ==
  ASSUME ChainInv, NEW a \in Account, NEW r, NEW c \in Chain, Activate(a, r, c)
  PROVE  ChainInv'
<1>1. chain' \in [Chain -> ChainState] /\ promise' = None
  BY IdleType DEF ChainInv, ChainTypes, Activate
<1> QED
  BY <1>1 DEF ChainInv, ChainTypes, PromiseRuns, Activate

\* Neither the promise nor a chain changes.
LEMMA ChainUnchanged ==
  ASSUME ChainInv, UNCHANGED <<validFor, promise, chain, restarts>>,
         probing' \in SUBSET [id : Account, kind : Kind]
  PROVE  ChainInv'
BY DEF ChainInv, ChainTypes, PromiseRuns

(* A chain that ends: the promise of a restore is answered and forgotten,   *)
(* even when it stands for a later one; that of another chain outlives the  *)
(* end of a switch.                                                         *)
LEMMA FinishKeepsChain ==
  ASSUME StoreTypes, ChainInv, NEW c \in Chain, NEW ok \in BOOLEAN,
         chain[c].pc # "idle", Finish(c, ok)
  PROVE  ChainInv'
<1> DEFINE idle == [chain EXCEPT ![c] = Idle]
<1>1. /\ idle \in [Chain -> ChainState] /\ idle[c].pc = "idle" /\ idle[c].by = "restore"
      /\ chain[c] \in ChainState /\ chain[c].server \in Root
  BY IdleType DEF ChainInv, ChainTypes, ChainState
<1>2. probing' \in SUBSET [id : Account, kind : Kind] /\ restarts' \in 0..MaxRestarts
  BY ProbeType DEF ChainInv, ChainTypes, Finish
<1>3. CASE chain[c].by = "restore"
  <2>1. chain' = idle /\ promise' = None
        /\ validFor' = IF ok THEN chain[c].server ELSE validFor
    BY <1>3 DEF Finish
  <2> QED
    BY <1>1, <1>2, <2>1 DEF ChainInv, ChainTypes, PromiseRuns
<1>4. CASE chain[c].by = "switch"
  <2>1. validFor' = validFor
    BY <1>4 DEF Finish
  <2>2. CASE Restore(c, idle)
    <3>1. chain' \in [Chain -> ChainState] /\ promise' \in Chain \cup {None} /\ PromiseRuns'
      BY <1>1, <2>2, RestoreKeepsPromise
    <3> QED
      BY <1>2, <2>1, <3>1 DEF ChainInv, ChainTypes
  <2>3. CASE chain' = idle /\ promise' = promise
    <3>1. PromiseRuns'
      BY <1>4, <2>3 DEF ChainInv, ChainTypes, PromiseRuns
    <3> QED
      BY <1>1, <1>2, <2>1, <2>3, <3>1 DEF ChainInv, ChainTypes
  <2> QED
    BY <1>4, <2>2, <2>3 DEF Finish
<1> QED
  BY <1>1, <1>3, <1>4 DEF Finish

\* A step of a running chain, seen from the promise.
LEMMA RunsOn ==
  ASSUME ChainInv, NEW c \in Chain, chain' \in [Chain -> ChainState],
         \A d \in Chain : d # c => chain'[d] = chain[d],
         chain'[c].pc # "idle", chain'[c].by = chain[c].by,
         UNCHANGED <<validFor, promise, restarts, probing>>
  PROVE  ChainInv'
BY DEF ChainInv, ChainTypes, PromiseRuns

\* A further request leaves the promise with the chain it stands for.
LEMMA AdvanceKeepsChain ==
  ASSUME ChainInv, NEW c \in Chain, NEW pc \in {"login", "profile"}, Advance(c, pc),
         UNCHANGED <<validFor, promise, restarts, probing>>
  PROVE  ChainInv'
<1>1. /\ chain' = [chain EXCEPT ![c].pc = pc, ![c].sent = FALSE, ![c].server = None]
      /\ chain \in [Chain -> ChainState]
  BY DEF Advance, ChainInv, ChainTypes
<1>2. chain'[c] = [chain[c] EXCEPT !.pc = pc, !.sent = FALSE, !.server = None]
  BY <1>1
<1>3. chain'[c] \in ChainState /\ chain'[c].pc = pc /\ chain'[c].by = chain[c].by
  <2> DEFINE x1 == [chain[c] EXCEPT !.pc = pc]
             x2 == [x1 EXCEPT !.sent = FALSE]
             x3 == [x2 EXCEPT !.server = None]
  <2>1. chain'[c] = x3
    BY <1>2
  <2>2. x1 \in ChainState /\ x1.pc = pc /\ x1.by = chain[c].by
    BY <1>1 DEF ChainState
  <2> HIDE DEF x1
  <2>3. x2 \in ChainState /\ x2.pc = pc /\ x2.by = chain[c].by
    BY <2>2 DEF ChainState
  <2> HIDE DEF x2
  <2>4. x3 \in ChainState /\ x3.pc = pc /\ x3.by = chain[c].by
    BY <2>3 DEF ChainState, Root
  <2> QED
    BY <2>1, <2>4 DEF x1, x2
<1>4. chain' \in [Chain -> ChainState] /\ \A d \in Chain : d # c => chain'[d] = chain[d]
  BY <1>1, <1>3
<1> QED
  BY <1>3, <1>4, RunsOn

\* The worker thread of a request touches no promise.
LEMMA RequestKeepsChain ==
  ASSUME StoreTypes, ChainInv, NEW c \in Chain, Request(c)
  PROVE  ChainInv'
<1> DEFINE server == IF urlKey[dir] = None THEN None ELSE urlKey[dir][1]
<1>1. server \in Root
  BY DEF StoreTypes, Root
<1>2. /\ chain' = [chain EXCEPT ![c].sent = TRUE, ![c].server = server]
      /\ chain \in [Chain -> ChainState]
      /\ chain[c].pc # "idle"
  BY DEF Request, ChainInv, ChainTypes
<1> HIDE DEF server
<1>3. chain'[c] = [chain[c] EXCEPT !.sent = TRUE, !.server = server]
  BY <1>2
<1>4. chain'[c] \in ChainState /\ chain'[c].pc = chain[c].pc /\ chain'[c].by = chain[c].by
  <2> DEFINE x1 == [chain[c] EXCEPT !.sent = TRUE]
             x2 == [x1 EXCEPT !.server = server]
  <2>1. chain'[c] = x2
    BY <1>3
  <2>2. x1 \in ChainState /\ x1.pc = chain[c].pc /\ x1.by = chain[c].by
    BY <1>2 DEF ChainState
  <2> HIDE DEF x1
  <2>3. x2 \in ChainState /\ x2.pc = chain[c].pc /\ x2.by = chain[c].by
    BY <1>1, <2>2 DEF ChainState
  <2> QED
    BY <2>1, <2>3 DEF x1
<1>5. chain' \in [Chain -> ChainState] /\ \A d \in Chain : d # c => chain'[d] = chain[d]
  BY <1>2, <1>4
<1> QED
  BY <1>2, <1>4, <1>5, RunsOn DEF Request

\* Startup awaits the promise there is, or makes one of its own.
LEMMA StartupKeepsChain ==
  ASSUME StoreTypes, ChainInv, NEW c \in Chain, StartupRestore(c)
  PROVE  ChainInv'
<1>1. CASE promise # None /\ chain' = [chain EXCEPT ![promise].startup = TRUE]
           /\ UNCHANGED <<promise, probing>>
  <2>1. promise \in Chain /\ chain \in [Chain -> ChainState]
    BY <1>1 DEF ChainInv, ChainTypes
  <2>2. chain'[promise] = [chain[promise] EXCEPT !.startup = TRUE]
    BY <1>1, <2>1
  <2>3. /\ chain'[promise] \in ChainState
        /\ chain'[promise].pc = chain[promise].pc /\ chain'[promise].by = chain[promise].by
    BY <2>1, <2>2 DEF ChainState
  <2>4. chain' \in [Chain -> ChainState] /\ \A d \in Chain : d # promise => chain'[d] = chain[d]
    BY <1>1, <2>1, <2>3
  <2>5. chain'[promise].pc # "idle"
    BY <1>1, <2>3 DEF ChainInv, PromiseRuns
  <2> QED
    BY <1>1, <2>1, <2>3, <2>4, <2>5, RunsOn DEF StartupRestore
<1>2. CASE probing' = ProbeStarted /\ UNCHANGED <<promise, chain>>
  BY <1>2, ProbeType, ChainUnchanged DEF StartupRestore, ChainInv
<1>3. CASE chain[c] = Idle /\ Restore(c, [chain EXCEPT ![c].startup = TRUE]) /\ UNCHANGED probing
  <2> DEFINE ch == [chain EXCEPT ![c].startup = TRUE]
  <2>1. chain \in [Chain -> ChainState]
    BY DEF ChainInv, ChainTypes
  <2>2. ch[c] = [Idle EXCEPT !.startup = TRUE]
    BY <1>3, <2>1
  <2>3. ch[c] \in ChainState /\ ch[c].pc = "idle" /\ ch[c].by = "restore"
    BY <2>2, IdleType DEF Idle
  <2>4. ch \in [Chain -> ChainState]
    BY <2>1, <2>3
  <2>5. Restore(c, ch)
    BY <1>3
  <2> HIDE DEF ch
  <2>6. chain' \in [Chain -> ChainState] /\ promise' \in Chain \cup {None} /\ PromiseRuns'
    BY <2>3, <2>4, <2>5, RestoreKeepsPromise
  <2> QED
    BY <1>3, <2>6 DEF StartupRestore, ChainInv, ChainTypes
<1> QED
  BY <1>1, <1>2, <1>3 DEF StartupRestore

\* A new process has neither chains nor a promise.
LEMMA RebootKeepsChain ==
  ASSUME ChainInv, Reboot
  PROVE  ChainInv'
<1>1. chain' \in [Chain -> ChainState]
  BY IdleType DEF Reboot
<1>2. restarts' \in 0..MaxRestarts
  BY ConstantsOK DEF Reboot, ChainInv, ChainTypes, ConstantsOK
<1> QED
  BY <1>1, <1>2 DEF Reboot, ChainInv, ChainTypes, PromiseRuns, Root
-----------------------------------------------------------------------------
\* The steps of a restore, and the end of a chain, on the stores.
LEMMA SessionKeepsStore ==
  ASSUME StoreInv, ChainInv, UNCHANGED <<rec, active, urlKey, username, prefKind>>,
         mode' = mode \/ (mode = "started" /\ mode' = "run"),
         \/ ApplyLocalConfig(active)
         \/ dir' = dir /\ sessionOk' \in BOOLEAN
  PROVE  StoreInv'
<1>1. (dir' = RootOf(active) \/ dir' = dir) /\ sessionOk' \in BOOLEAN
  BY DEF ApplyLocalConfig
<1> QED
  BY <1>1, ConfigApplied

\* The end of a chain touches the stores only by applying the configuration.
LEMMA FinishKeepsStore ==
  ASSUME StoreInv, ChainInv, NEW c \in Chain, NEW ok \in BOOLEAN, Finish(c, ok)
  PROVE  StoreInv'
<1>1. ApplyLocalConfig(active) \/ (dir' = dir /\ sessionOk' \in BOOLEAN)
  BY DEF Finish, Restore, StoreInv, StoreTypes
<1> QED
  BY <1>1, SessionKeepsStore DEF Finish

\* Every step of a chain keeps both halves of the invariant.
LEMMA ChainStep ==
  ASSUME StoreInv, ChainInv, NEW c \in Chain,
         \/ StartupRestore(c) \/ EnsureAuthenticated(c) \/ Request(c) \/ LoggedInAlready(c)
         \/ SignInFails(c) \/ SignIn(c) \/ SignedIn(c) \/ ProfileRead(c)
  PROVE  StoreInv' /\ ChainInv'
<1>0. StoreTypes
  BY DEF StoreInv
<1>1. CASE StartupRestore(c)
  <2>1. ApplyLocalConfig(active) \/ (dir' = dir /\ sessionOk' \in BOOLEAN)
    BY <1>0, <1>1 DEF StartupRestore, Restore, StoreTypes
  <2> QED
    BY <1>0, <1>1, <2>1, SessionKeepsStore, StartupKeepsChain DEF StartupRestore, storeVars
<1>2. CASE EnsureAuthenticated(c)
  <2>1. StoreInv'
    BY <1>2, SessionKeepsStore DEF EnsureAuthenticated, Restore, storeVars
  <2>2. chain \in [Chain -> ChainState] /\ chain[c].pc = "idle" /\ chain[c].by = "restore"
    BY <1>2, IdleType DEF EnsureAuthenticated, ChainInv, ChainTypes
  <2>3. chain' \in [Chain -> ChainState] /\ promise' \in Chain \cup {None} /\ PromiseRuns'
    BY <1>2, <2>2, RestoreKeepsPromise DEF EnsureAuthenticated
  <2> QED
    BY <1>2, <2>1, <2>3 DEF EnsureAuthenticated, ChainInv, ChainTypes
<1>3. CASE Request(c)
  <2>1. StoreInv'
    BY <1>0, <1>3, SessionKeepsStore DEF Request, storeVars, StoreTypes
  <2> QED
    BY <1>0, <1>3, <2>1, RequestKeepsChain
<1>4. CASE \E ok \in BOOLEAN : Finish(c, ok) /\ chain[c].pc # "idle"
  BY <1>0, <1>4, FinishKeepsStore, FinishKeepsChain
<1>5. CASE SignIn(c) \/ SignedIn(c)
  <2>1. StoreInv'
    BY <1>0, <1>5, SessionKeepsStore DEF SignIn, SignedIn, storeVars, StoreTypes
  <2>2. ChainInv'
    BY <1>5, AdvanceKeepsChain DEF SignIn, SignedIn
  <2> QED
    BY <2>1, <2>2
<1>6. CASE LoggedInAlready(c) \/ SignInFails(c) \/ ProfileRead(c)
  <2>1. chain[c].pc # "idle"
    BY <1>6 DEF LoggedInAlready, SignInFails, ProfileRead, Awaits
  <2>2. Finish(c, TRUE) \/ Finish(c, FALSE)
    BY <1>6 DEF LoggedInAlready, SignInFails, ProfileRead
  <2> QED
    BY <1>4, <2>1, <2>2
<1> QED
  BY <1>1, <1>2, <1>3, <1>5, <1>6

\* Every step of an account keeps both halves of the invariant.
LEMMA AccountStep ==
  ASSUME StoreInv, ChainInv, NEW a \in Account,
         \/ \E c \in Chain : SwitchTo(a, c)
         \/ \E k \in Kind \cup {Sonovel}, c \in Chain : Add(a, k, c) \/ Edit(a, k, c)
         \/ Delete(a) \/ CrashInSwitch(a) \/ CrashInDelete(a)
  PROVE  StoreInv' /\ ChainInv'
<1>0. StoreTypes /\ ChainTypes /\ rec \in Records
  BY DEF StoreInv, StoreTypes, ChainInv
<1>1. CASE \E c \in Chain : SwitchTo(a, c)
  <2>1. PICK c \in Chain : SwitchTo(a, c)
    BY <1>1
  <2>2. rec' = rec /\ IsLibrary(rec', a) /\ Activate(a, rec', c)
    BY <2>1 DEF SwitchTo
  <2> QED
    BY <1>0, <2>2, ActivateKeepsStore, ActivateKeepsChain
<1>2. CASE \E k \in Kind \cup {Sonovel}, c \in Chain : Add(a, k, c)
  <2>1. PICK k \in Kind \cup {Sonovel}, c \in Chain : Add(a, k, c)
    BY <1>2
  <2>2. StoreInv'
    BY <2>1, AddKeepsStore
  <2>3. CASE k # Sonovel
    BY <2>1, <2>2, <2>3, ActivateKeepsChain DEF Add
  <2>4. CASE k = Sonovel
    BY <1>0, <2>1, <2>2, <2>4, ChainUnchanged DEF Add, sessionVars, ChainTypes
  <2> QED
    BY <2>3, <2>4
<1>3. CASE \E k \in Kind \cup {Sonovel}, c \in Chain : Edit(a, k, c)
  <2>1. PICK k \in Kind \cup {Sonovel}, c \in Chain : Edit(a, k, c)
    BY <1>3
  <2>2. StoreInv'
    BY <2>1, EditKeepsStore
  <2>3. CASE k # Sonovel /\ a = active
    BY <2>1, <2>2, <2>3, ActivateKeepsChain DEF Edit
  <2>4. CASE ~(k # Sonovel /\ a = active)
    BY <1>0, <2>1, <2>2, <2>4, ChainUnchanged DEF Edit, sessionVars, ChainTypes
  <2> QED
    BY <2>3, <2>4
<1>4. CASE Delete(a)
  <2>1. promise' = None \/ promise' = promise
    BY <1>4 DEF Delete
  <2>2. ChainInv'
    BY <1>0, <1>4, <2>1 DEF Delete, ChainInv, ChainTypes, PromiseRuns
  <2> QED
    BY <1>4, <2>2, DeleteKeepsStore
<1>5. CASE CrashInSwitch(a)
  <2>1. rec[a].url \in 0..MaxEdits /\ a \in Root
    BY <1>0 DEF Records, Root
  <2>2. urlKey' = urlKey \/ urlKey' = [urlKey EXCEPT ![a] = <<a, rec[a].url>>]
    BY <1>5 DEF CrashInSwitch
  <2>3. urlKey' \in [Account -> (Account \X (0..MaxEdits)) \cup {None}] /\ UrlOwn'
    BY <2>1, <2>2 DEF StoreInv, StoreTypes, UrlOwn
  <2>4. rec' = rec /\ active' = a /\ Reboot /\ UNCHANGED <<username, prefKind>>
    BY <1>5 DEF CrashInSwitch
  <2> QED
    BY <1>0, <2>1, <2>3, <2>4, CrashKeepsStore, RebootKeepsChain
<1>6. CASE CrashInDelete(a)
  <2>1. rec' = [rec EXCEPT ![a].state = "deleted"] /\ Reboot
        /\ UNCHANGED <<active, urlKey, username, prefKind>>
    BY <1>6 DEF CrashInDelete
  <2>2. rec' \in Records
    BY <1>0, <2>1 DEF Records
  <2>3. active' \in Root /\ UrlOwn' /\ urlKey' \in [Account -> (Account \X (0..MaxEdits)) \cup {None}]
    BY <2>1 DEF StoreInv, StoreTypes, UrlOwn
  <2> QED
    BY <2>1, <2>2, <2>3, CrashKeepsStore, RebootKeepsChain
<1> QED
  BY <1>1, <1>2, <1>3, <1>4, <1>5, <1>6

\* Every step keeps both halves of the invariant.
LEMMA Step ==
  ASSUME StoreInv, ChainInv, [Next]_vars
  PROVE  StoreInv' /\ ChainInv'
<1>0. StoreTypes /\ ChainTypes /\ active \in Root /\ rec \in Records
      /\ urlKey \in [Account -> (Account \X (0..MaxEdits)) \cup {None}]
  BY DEF StoreInv, StoreTypes, ChainInv
<1>1. CASE DeferredStartup
  <2>1. ChainInv'
    BY <1>0, <1>1, ChainUnchanged DEF DeferredStartup, ChainTypes
  <2> QED
    BY <1>1, <2>1, StartupKeepsStore
<1>2. CASE Restart
  <2>1. Reboot /\ UNCHANGED <<rec, active, urlKey, username, prefKind>>
    BY <1>2 DEF Restart, storeVars
  <2>2. UrlOwn'
    BY <2>1 DEF StoreInv, UrlOwn
  <2>3. rec' \in Records /\ active' \in Root
        /\ urlKey' \in [Account -> (Account \X (0..MaxEdits)) \cup {None}]
    BY <1>0, <2>1
  <2> QED
    BY <2>1, <2>2, <2>3, CrashKeepsStore, RebootKeepsChain
<1>3. CASE \E p \in probing : ProbeNothing(p)
  <2>1. probing' \in SUBSET [id : Account, kind : Kind]
    BY <1>0, <1>3 DEF ProbeNothing, ChainTypes
  <2>2. ChainInv'
    BY <1>3, <2>1, ChainUnchanged DEF ProbeNothing, sessionVars
  <2>3. StoreInv'
    BY <1>3 DEF ProbeNothing, storeVars, sessionVars, StoreInv, StoreTypes, DirFollowsActive,
                UrlOwn, UrlCurrent, IsLibrary, Kept
  <2> QED
    BY <2>2, <2>3
<1>4. CASE \E p \in probing : \E k \in Kind : ProbeAnswer(p, k)
  <2>1. PICK p \in probing, k \in Kind : ProbeAnswer(p, k)
    BY <1>4
  <2>2. probing' \in SUBSET [id : Account, kind : Kind]
    BY <1>0, <2>1 DEF ProbeAnswer, ChainTypes
  <2>3. ChainInv'
    BY <2>1, <2>2, ChainUnchanged DEF ProbeAnswer
  <2> QED
    BY <1>0, <2>1, <2>3, ProbeKeepsStore
<1>5. CASE SignOut
  <2>1. ChainInv'
    BY <1>5 DEF SignOut, ChainInv, ChainTypes, PromiseRuns, Root
  <2> QED
    BY <1>0, <1>5, <2>1, SessionKeepsStore DEF SignOut, storeVars
<1>6. CASE UNCHANGED vars
  BY <1>6 DEF vars, storeVars, sessionVars, StoreInv, StoreTypes, DirFollowsActive, UrlOwn,
              UrlCurrent, IsLibrary, Kept, ChainInv, ChainTypes, PromiseRuns
<1> QED
  BY <1>1, <1>2, <1>3, <1>4, <1>5, <1>6, ChainStep, AccountStep DEF Next

-----------------------------------------------------------------------------
\* Both halves of the invariant hold from the first start on.
THEOREM Invariant == Spec => [](StoreInv /\ ChainInv)
<1>1. Init => StoreInv /\ ChainInv
  BY StoreInit, ChainInit
<1>2. StoreInv /\ ChainInv /\ [Next]_vars => StoreInv' /\ ChainInv'
  BY Step
<1> QED
  BY <1>1, <1>2, PTL DEF Spec

\* Every variable keeps its type, for any number of accounts and chains.
THEOREM TypeSafe == Spec => []TypeOK
<1>1. StoreInv /\ ChainInv => TypeOK
  BY DEF StoreInv, ChainInv, StoreTypes, ChainTypes, TypeOK, Records
<1> QED
  BY <1>1, Invariant, PTL

(* DirFollowsActive: whatever sign-ins and probes end late, both native     *)
(* modules are back in the root of the active library account.              *)
THEOREM DirSafe == Spec => []DirFollowsActive
<1>1. StoreInv => DirFollowsActive
  BY DEF StoreInv
<1> QED
  BY <1>1, Invariant, PTL

(* UrlOwn: the address found in an identity root is that of its account.    *)
THEOREM UrlOwnSafe == Spec => []UrlOwn
<1>1. StoreInv => UrlOwn
  BY DEF StoreInv
<1> QED
  BY <1>1, Invariant, PTL

(* UrlCurrent: requests of the active library account use the address its   *)
(* record has now, also after a crash in the middle of a switch.            *)
THEOREM UrlCurrentSafe == Spec => []UrlCurrent
<1>1. StoreInv => UrlCurrent
  BY DEF StoreInv
<1> QED
  BY <1>1, Invariant, PTL

(* PromiseRuns: whoever awaits the shared promise awaits a restore that has *)
(* not ended.                                                               *)
THEOREM PromiseSafe == Spec => []PromiseRuns
<1>1. ChainInv => PromiseRuns
  BY DEF ChainInv
<1> QED
  BY <1>1, Invariant, PTL
-----------------------------------------------------------------------------
(* Once there is a record, one is always kept, so the migration at startup  *)
(* never meets a deleted or edited record.                                  *)
SomeKept ==
  \/ Kept(rec) # {}
  \/ \A a \in Account : rec[a].state = "new"

\* The kind of a record changes by an edit or by a probe.
KindExplained(a) ==
  rec[a].state = "kept" /\ rec'[a].url = rec[a].url
  => rec'[a].kind = rec[a].kind \/ Corrected(a)

\* Records change one at a time, forward, and the last one is kept.
OneForward ==
  \/ rec' = rec
  \/ rec' = Migrated(rec)
  \/ \E a \in Account :
       /\ rec' = [rec EXCEPT ![a] = rec'[a]]
       /\ \/ /\ rec'[a].state = "kept" /\ rec[a].state # "deleted"
             /\ rec'[a].url >= rec[a].url
          \/ /\ rec'[a].state = "deleted" /\ rec'[a].url = rec[a].url
             /\ a \in Kept(rec) /\ Kept(rec) # {a}
       /\ KindExplained(a)

\* A record that was never kept has no edits.
Fresh == \A a \in Account : rec[a].state = "new" => rec[a].url = 0

(* An id that was never added was never edited; so no edit is taken back by *)
(* adding an account, and a step changes one record at most.                *)
LEMMA NewRecordsFresh ==
  ASSUME StoreTypes, Fresh, [Next]_vars
  PROVE  Fresh' /\ OneForward
<1>0. rec \in Records
  BY DEF StoreTypes
<1>1. CASE rec' = rec
  BY <1>1 DEF OneForward, Fresh
<1>2. CASE DeferredStartup
  <2>1. rec' = Migrated(rec)
    BY <1>2 DEF DeferredStartup
  <2>2. \A a \in Account : rec'[a] = rec[a] \/ rec'[a].state = "kept"
    BY <1>0, <2>1 DEF Migrated, Records
  <2> QED
    BY <2>1, <2>2 DEF OneForward, Fresh
<1>3. CASE \E a \in Account, k \in Kind \cup {Sonovel}, c \in Chain : Add(a, k, c)
  <2>1. PICK a \in Account, k \in Kind \cup {Sonovel}, c \in Chain : Add(a, k, c)
    BY <1>3
  <2>2. /\ rec[a].state = "new" /\ rec[a].url = 0
        /\ rec' = [rec EXCEPT ![a] = [state |-> "kept", kind |-> k, url |-> 0]]
    BY <2>1 DEF Add, Fresh
  <2>3. rec'[a] = [state |-> "kept", kind |-> k, url |-> 0]
    BY <1>0, <2>2 DEF Records
  <2>4. rec' = [rec EXCEPT ![a] = rec'[a]]
    BY <2>2, <2>3
  <2>5. \A b \in Account : b # a => rec'[b] = rec[b]
    BY <1>0, <2>2 DEF Records
  <2>6. rec'[a].state = "kept" /\ rec[a].state # "deleted" /\ rec'[a].url >= rec[a].url
    BY <2>2, <2>3
  <2>9. KindExplained(a)
    BY <2>2 DEF KindExplained
  <2>7. OneForward
    BY <2>4, <2>6, <2>9 DEF OneForward
  <2>8. Fresh'
    BY <2>5, <2>6 DEF Fresh
  <2> QED
    BY <2>7, <2>8
<1>4. CASE \E a \in Account, k \in Kind \cup {Sonovel}, c \in Chain : Edit(a, k, c)
  <2>1. PICK a \in Account, k \in Kind \cup {Sonovel}, c \in Chain : Edit(a, k, c)
    BY <1>4
  <2>2. /\ rec[a].state = "kept" /\ rec[a].url \in Nat
        /\ rec' = [rec EXCEPT ![a].kind = k, ![a].url = @ + 1]
    BY <1>0, <2>1, ConstantsOK DEF Edit, Kept, Records, ConstantsOK
  <2>3. rec'[a].state = "kept" /\ rec'[a].url = rec[a].url + 1
    BY <1>0, <2>2 DEF Records
  <2>4. rec' = [rec EXCEPT ![a] = rec'[a]]
    BY <1>0, <2>2 DEF Records
  <2>5. \A b \in Account : b # a => rec'[b] = rec[b]
    BY <1>0, <2>2 DEF Records
  <2>6. rec'[a].state = "kept" /\ rec[a].state # "deleted" /\ rec'[a].url >= rec[a].url
    BY <2>2, <2>3
  <2>9. KindExplained(a)
    BY <2>2, <2>3 DEF KindExplained
  <2>7. OneForward
    BY <2>4, <2>6, <2>9 DEF OneForward
  <2>8. Fresh'
    BY <2>5, <2>6 DEF Fresh
  <2> QED
    BY <2>7, <2>8
<1>5. CASE \E a \in Account : Delete(a) \/ CrashInDelete(a)
  <2>1. PICK a \in Account : Delete(a) \/ CrashInDelete(a)
    BY <1>5
  <2>2. a \in Kept(rec) /\ Kept(rec) # {a} /\ rec' = [rec EXCEPT ![a].state = "deleted"]
    BY <2>1 DEF Delete, CrashInDelete
  <2>3. /\ rec'[a].state = "deleted" /\ rec'[a].url = rec[a].url
        /\ rec'[a].kind = rec[a].kind
    BY <1>0, <2>2 DEF Records
  <2>6. KindExplained(a)
    BY <2>3 DEF KindExplained
  <2>4. rec' = [rec EXCEPT ![a] = rec'[a]]
    BY <1>0, <2>2 DEF Records
  <2>5. \A b \in Account : b # a => rec'[b] = rec[b]
    BY <1>0, <2>2 DEF Records
  <2> QED
    BY <2>2, <2>3, <2>4, <2>5, <2>6 DEF OneForward, Fresh
<1>6. CASE \E p \in probing : \E k \in Kind : ProbeAnswer(p, k) /\ p.id \in Kept(rec)
           /\ k # p.kind /\ rec' = [rec EXCEPT ![p.id].kind = k]
  <2>1. PICK p \in probing, k \in Kind :
          p.id \in Kept(rec) /\ k # p.kind /\ rec' = [rec EXCEPT ![p.id].kind = k]
          /\ probing' = probing \ {p}
    BY <1>6 DEF ProbeAnswer
  <2>2. PICK a \in Account : a = p.id /\ rec[a].state = "kept" /\ rec[a].url \in Nat
    BY <1>0, <2>1, ConstantsOK DEF Kept, Records, ConstantsOK
  <2>3. rec'[a].state = "kept" /\ rec'[a].url = rec[a].url /\ rec'[a].kind = k
    BY <1>0, <2>1, <2>2 DEF Records
  <2>6. KindExplained(a)
    <3>1. p \in probing \ probing'
      BY <2>1
    <3> QED
      BY <2>1, <2>2, <2>3, <3>1 DEF KindExplained, Corrected
  <2>4. rec' = [rec EXCEPT ![a] = rec'[a]]
    BY <1>0, <2>1, <2>2 DEF Records
  <2>5. \A b \in Account : b # a => rec'[b] = rec[b]
    BY <1>0, <2>1, <2>2 DEF Records
  <2> QED
    BY <2>2, <2>3, <2>4, <2>5, <2>6 DEF OneForward, Fresh
<1> QED
  BY <1>1, <1>2, <1>3, <1>4, <1>5, <1>6
     DEF Next, vars, storeVars, StartupRestore, EnsureAuthenticated, Request, LoggedInAlready,
         SignInFails, SignIn, SignedIn, ProfileRead, Finish, SwitchTo, CrashInSwitch, Restart,
         ProbeNothing, ProbeAnswer, SignOut

\* The page offers no way to delete the last record.
LEMMA LastRecordKept ==
  ASSUME StoreTypes, SomeKept, OneForward
  PROVE  SomeKept'
<1>0. rec \in Records /\ Legacy \in Account
  BY ConstantsOK DEF StoreTypes, ConstantsOK
<1>1. CASE rec' = rec
  BY <1>1 DEF SomeKept, Kept
<1>2. CASE rec' = Migrated(rec) /\ rec' # rec
  <2>1. rec'[Legacy].state = "kept"
    BY <1>0, <1>2 DEF Migrated, Records
  <2> QED
    BY <1>0, <2>1 DEF SomeKept, Kept
<1>3. CASE \E a \in Account : rec' = [rec EXCEPT ![a] = rec'[a]] /\ rec'[a].state = "kept"
  BY <1>3 DEF SomeKept, Kept
<1>4. CASE \E a \in Account : /\ rec' = [rec EXCEPT ![a] = rec'[a]]
                              /\ a \in Kept(rec) /\ Kept(rec) # {a}
  <2>1. PICK a \in Account : /\ rec' = [rec EXCEPT ![a] = rec'[a]]
                             /\ a \in Kept(rec) /\ Kept(rec) # {a}
    BY <1>4
  <2>2. PICK b \in Kept(rec) : b # a
    BY <2>1
  <2>3. b \in Account /\ rec'[b] = rec[b]
    BY <1>0, <2>1, <2>2 DEF Kept, Records
  <2>4. b \in Kept(rec')
    BY <2>2, <2>3 DEF Kept
  <2> QED
    BY <2>4 DEF SomeKept, Kept
<1> QED
  BY <1>1, <1>2, <1>3, <1>4 DEF OneForward

\* From a list like that, no step takes a record back.
LEMMA NoneRolledBack ==
  ASSUME StoreTypes, SomeKept, Fresh, OneForward, NEW a \in Account
  PROVE  /\ rec[a].state = "deleted" => rec'[a] = rec[a]
         /\ rec'[a].url >= rec[a].url
         /\ KindExplained(a)
<1>0. rec \in Records /\ rec[a].url \in Nat
  BY ConstantsOK DEF StoreTypes, Records, ConstantsOK
<1>1. CASE rec' = rec
  BY <1>0, <1>1 DEF KindExplained
<1>2. CASE rec' = Migrated(rec) /\ rec' # rec
  <2>1. rec[a].state = "new" /\ rec[a].url = 0
    BY <1>0, <1>2 DEF Migrated, SomeKept, Fresh
  <2>2. rec'[a].url \in 0..MaxEdits
    BY <1>2, MigratedType DEF Records
  <2> QED
    BY <2>1, <2>2 DEF KindExplained
<1>3. CASE \E b \in Account :
             /\ rec' = [rec EXCEPT ![b] = rec'[b]]
             /\ \/ rec'[b].state = "kept" /\ rec[b].state # "deleted" /\ rec'[b].url >= rec[b].url
                \/ rec'[b].state = "deleted" /\ rec'[b].url = rec[b].url /\ b \in Kept(rec)
             /\ KindExplained(b)
  <2>1. PICK b \in Account :
             /\ rec' = [rec EXCEPT ![b] = rec'[b]]
             /\ \/ rec'[b].state = "kept" /\ rec[b].state # "deleted" /\ rec'[b].url >= rec[b].url
                \/ rec'[b].state = "deleted" /\ rec'[b].url = rec[b].url /\ b \in Kept(rec)
             /\ KindExplained(b)
    BY <1>3
  <2>2. CASE a = b
    BY <1>0, <2>1, <2>2 DEF Kept
  <2>3. CASE a # b
    <3>1. rec'[a] = rec[a]
      BY <1>0, <2>1, <2>3 DEF Records
    <3> QED
      BY <1>0, <3>1 DEF KindExplained
  <2> QED
    BY <2>2, <2>3
<1> QED
  BY <1>1, <1>2, <1>3 DEF OneForward

(* RecordsNotRolledBack: no step, whatever it awaited, touches a deleted    *)
(* account or takes back an edited address, and a kind changes by an edit   *)
(* or by the answer of a probe that had read another one, which may come    *)
(* after an edit (syncServerKindByProbe).                                   *)
THEOREM RecordsSafe == Spec => RecordsNotRolledBack
<1> DEFINE Forward ==
      \A a \in Account :
        /\ rec[a].state = "deleted" => rec'[a] = rec[a]
        /\ rec'[a].url >= rec[a].url
        /\ rec[a].state = "kept" /\ rec'[a].url = rec[a].url
           => rec'[a].kind = rec[a].kind \/ Corrected(a)
<1>1. Init => SomeKept /\ Fresh
  BY DEF Init, SomeKept, Fresh
<1>2. StoreInv /\ SomeKept /\ Fresh /\ [Next]_vars => SomeKept' /\ Fresh'
  BY NewRecordsFresh, LastRecordKept DEF StoreInv
<1>3. StoreInv /\ SomeKept /\ Fresh /\ [Next]_vars => Forward
  BY NewRecordsFresh, NoneRolledBack DEF StoreInv, KindExplained
<1> QED
  BY <1>1, <1>2, <1>3, Invariant, PTL DEF Spec, RecordsNotRolledBack

-----------------------------------------------------------------------------
Restoring(c) == chain[c].pc # "idle" /\ chain[c].by = "restore"

(* No restore outlives a switch: what the code would have if the end of a   *)
(* restore asked whether its promise is still the current one.              *)
NoRestoreOutlives == active' # active => \A c \in Chain : ~Restoring(c)'

(* A restore works in the root of the active account and asks its server; a *)
(* session that was found there is that account's.                          *)
AsksActive(c) ==
  Restoring(c) => /\ dir = RootOf(active)
                  /\ urlKey[dir] # None
                  /\ chain[c].sent => chain[c].server = dir

SessionInv ==
  /\ \A c \in Chain : AsksActive(c)
  /\ sessionOk => validFor = RootOf(active)

\* An address that an identity root holds is changed, never removed.
UrlStays == \A a \in Account : urlKey[a] # None => urlKey'[a] # None

\* A restore after a step: one that ran before it, with no new request, or one
\* that begins or asks in the root of the active account.
GoesOn(c) ==
  Restoring(c)' =>
    \/ /\ Restoring(c)
       /\ chain'[c].sent => chain[c].sent /\ chain'[c].server = chain[c].server
    \/ /\ active' = active /\ dir' = RootOf(active) /\ urlKey'[dir'] # None
       /\ chain'[c].sent => chain'[c].server = dir'

\* The result of the last check after a step.
ResultGoesOn ==
  \/ ~sessionOk'
  \/ UNCHANGED <<active, sessionOk, validFor>>
  \/ active' = active /\ validFor' = RootOf(active)

-----------------------------------------------------------------------------
\* What a step has to respect for the invariant of the session.
LEMMA SessionKept ==
  ASSUME StoreInv, SessionInv, NoRestoreOutlives, UrlStays, ResultGoesOn,
         active' = active => dir' = dir \/ dir' = RootOf(active),
         \A c \in Chain : GoesOn(c)
  PROVE  SessionInv'
<1>1. active \in Root /\ dir \in Account
  BY DEF StoreInv, StoreTypes
<1>2. ASSUME NEW c \in Chain PROVE AsksActive(c)'
  BY <1>1, <1>2 DEF AsksActive, Restoring, GoesOn, SessionInv, NoRestoreOutlives, UrlStays
<1>3. sessionOk' => validFor' = RootOf(active')
  BY DEF ResultGoesOn, SessionInv
<1> QED
  BY <1>2, <1>3 DEF SessionInv

\* A new process has no session and no restore.
LEMMA RebootForgets == ASSUME Reboot PROVE SessionInv'
<1>1. ~sessionOk' /\ \A c \in Chain : chain'[c].pc = "idle"
  BY DEF Reboot, ApplyLocalConfig, Idle
<1> QED
  BY <1>1 DEF SessionInv, AsksActive, Restoring

\* Applying an identity keeps every address and forgets the last check.
LEMMA IdentityForgets ==
  ASSUME StoreInv, NEW r \in Records, NEW act, NEW a, IsLibrary(r, a), NEW names,
         ApplyIdentity(a, act, r, names)
  PROVE  UrlStays /\ ~sessionOk' /\ dir' = RootOf(act)
<1>1. /\ a \in Account /\ r[a].url \in 0..MaxEdits
      /\ urlKey \in [Account -> (Account \X (0..MaxEdits)) \cup {None}]
  BY DEF IsLibrary, Kept, Records, StoreInv, StoreTypes
<1>2. <<a, r[a].url>> # None
  <2>1. <<a, r[a].url>> \in Account \X Nat
    BY <1>1
  <2> QED
    BY <2>1, ConstantsOK DEF ConstantsOK
<1>3. urlKey' = [urlKey EXCEPT ![a] = <<a, r[a].url>>]
  BY DEF ApplyIdentity
<1> QED
  BY <1>1, <1>2, <1>3 DEF UrlStays, ApplyIdentity, ApplyLocalConfig

\* A switch signs in with a chain that is not a restore.
LEMMA ActivateForgets ==
  ASSUME StoreInv, ChainInv, SessionInv, NoRestoreOutlives, NEW r \in Records, NEW a, NEW c \in Chain,
         IsLibrary(r, a), Activate(a, r, c)
  PROVE  SessionInv'
<1>1. UrlStays /\ ~sessionOk' /\ dir' = RootOf(a) /\ active' = a
  BY IdentityForgets DEF Activate
<1>2. chain' = [chain EXCEPT ![c] = [Idle EXCEPT !.pc = "info", !.by = "switch"]]
      /\ chain \in [Chain -> ChainState]
  BY DEF Activate, ChainInv, ChainTypes
<1>3. chain'[c].by = "switch"
  BY <1>2 DEF Idle
<1>4. \A d \in Chain : GoesOn(d)
  BY <1>2, <1>3 DEF GoesOn, Restoring
<1> QED
  BY <1>1, <1>4, SessionKept DEF ResultGoesOn

\* A restore begins in the root of the active account, if it has an address.
LEMMA RestoreAsks ==
  ASSUME StoreInv, SessionInv, NoRestoreOutlives, NEW c \in Chain, NEW ch \in [Chain -> ChainState],
         ~ch[c].sent, \A d \in Chain : d # c => ch[d] = chain[d] , ch[c].pc = "idle",
         Restore(c, ch), UNCHANGED <<active, urlKey>>
  PROVE  SessionInv'
<1>1. ~sessionOk' /\ dir' = RootOf(active) /\ UrlStays
  BY DEF Restore, ApplyLocalConfig, UrlStays
<1>2. \A d \in Chain : GoesOn(d)
  <2>1. CASE urlKey[RootOf(active)] = None
    BY <2>1 DEF Restore, GoesOn, Restoring
  <2>2. CASE urlKey[RootOf(active)] # None
    <3>1. chain' = [ch EXCEPT ![c].pc = "info"]
      BY <2>2 DEF Restore
    <3>2. ~chain'[c].sent
      BY <3>1 DEF ChainState
    <3> QED
      BY <1>1, <2>2, <3>1, <3>2 DEF GoesOn, Restoring
  <2> QED
    BY <2>1, <2>2
<1> QED
  BY <1>1, <1>2, SessionKept DEF ResultGoesOn

(* A chain ends: a restore that succeeded leaves the account it asked, the  *)
(* end of a switch may begin a restore.                                     *)
LEMMA FinishAsks ==
  ASSUME StoreInv, ChainInv, SessionInv, NoRestoreOutlives, NEW c \in Chain, NEW ok \in BOOLEAN,
         chain[c].pc # "idle", ok => chain[c].sent, Finish(c, ok)
  PROVE  SessionInv'
<1> DEFINE idle == [chain EXCEPT ![c] = Idle]
<1>1. /\ UNCHANGED <<active, urlKey>> /\ UrlStays
      /\ idle \in [Chain -> ChainState]
      /\ idle[c] = Idle /\ \A d \in Chain : d # c => idle[d] = chain[d]
      /\ Idle.pc = "idle" /\ ~Idle.sent
  BY IdleType DEF Finish, UrlStays, ChainInv, ChainTypes, Idle
<1>2. \A d \in Chain : chain' = idle => GoesOn(d)
  BY <1>1 DEF GoesOn, Restoring
<1>3. CASE chain[c].by = "restore"
  <2>1. /\ chain' = idle /\ dir' = dir /\ sessionOk' = ok
        /\ validFor' = IF ok THEN chain[c].server ELSE validFor
    BY <1>3 DEF Finish
  <2>2. ok => validFor' = RootOf(active)
    BY <1>3, <2>1 DEF SessionInv, AsksActive, Restoring
  <2>3. ResultGoesOn
    BY <1>1, <2>1, <2>2 DEF ResultGoesOn
  <2> QED
    BY <1>1, <1>2, <2>1, <2>3, SessionKept
<1>4. CASE chain[c].by = "switch"
  <2>1. CASE Restore(c, idle)
    <3> HIDE DEF idle
    <3> QED
      BY <1>1, <2>1, RestoreAsks
  <2>2. CASE chain' = idle /\ UNCHANGED <<dir, sessionOk, promise>>
    <3>1. validFor' = validFor
      BY <1>4 DEF Finish
    <3>2. ResultGoesOn
      BY <1>1, <2>2, <3>1 DEF ResultGoesOn
    <3> QED
      BY <1>1, <1>2, <2>2, <3>2, SessionKept
  <2> QED
    BY <1>4, <2>1, <2>2 DEF Finish
<1> QED
  BY <1>3, <1>4 DEF Finish

\* A request, or the wait for one: no restore begins or ends.
LEMMA RunningAsks ==
  ASSUME StoreInv, SessionInv, NoRestoreOutlives, UNCHANGED <<active, urlKey, dir>>,
         ResultGoesOn, \A c \in Chain : GoesOn(c)
  PROVE  SessionInv'
<1>1. UrlStays
  BY DEF UrlStays
<1> QED
  BY <1>1, SessionKept

\* Every step of a chain.
LEMMA ChainAsks ==
  ASSUME StoreInv, ChainInv, SessionInv, NoRestoreOutlives, NEW c \in Chain,
         \/ StartupRestore(c) \/ EnsureAuthenticated(c) \/ Request(c) \/ LoggedInAlready(c)
         \/ SignInFails(c) \/ SignIn(c) \/ SignedIn(c) \/ ProfileRead(c)
  PROVE  SessionInv'
<1>0. chain \in [Chain -> ChainState] /\ dir \in Account
      /\ chain[c] \in ChainState
  BY DEF ChainInv, ChainTypes, StoreInv, StoreTypes
<1>1. CASE StartupRestore(c)
  <2>0. UNCHANGED <<active, urlKey, validFor>>
    BY <1>1 DEF StartupRestore, storeVars
  <2>1. CASE promise # None /\ chain' = [chain EXCEPT ![promise].startup = TRUE]
             /\ UNCHANGED <<dir, sessionOk>>
    <3>1. promise \in Chain
      BY <2>1 DEF ChainInv, ChainTypes
    <3>2. chain'[promise] = [chain[promise] EXCEPT !.startup = TRUE]
          /\ \A d \in Chain : d # promise => chain'[d] = chain[d]
      BY <1>0, <2>1, <3>1
    <3>3. \A d \in Chain : GoesOn(d)
      BY <1>0, <3>1, <3>2 DEF GoesOn, Restoring, ChainState
    <3> QED
      BY <2>0, <2>1, <3>3, RunningAsks DEF ResultGoesOn
  <2>2. CASE UNCHANGED <<dir, sessionOk, chain>>
    <3>1. \A d \in Chain : GoesOn(d)
      BY <2>2 DEF GoesOn, Restoring
    <3> QED
      BY <2>0, <2>2, <3>1, RunningAsks DEF ResultGoesOn
  <2>3. CASE chain[c] = Idle /\ Restore(c, [chain EXCEPT ![c].startup = TRUE])
    <3> DEFINE ch == [chain EXCEPT ![c].startup = TRUE]
    <3>1. /\ ch[c] = [Idle EXCEPT !.startup = TRUE]
          /\ \A d \in Chain : d # c => ch[d] = chain[d]
      BY <1>0, <2>3
    <3>2. ch \in [Chain -> ChainState] /\ ~ch[c].sent /\ ch[c].pc = "idle"
      BY <1>0, <3>1, IdleType DEF Idle
    <3>3. Restore(c, ch)
      BY <2>3
    <3> HIDE DEF ch
    <3> QED
      BY <2>0, <3>1, <3>2, <3>3, RestoreAsks
  <2> QED
    BY <1>1, <2>1, <2>2, <2>3 DEF StartupRestore
<1>2. CASE EnsureAuthenticated(c)
  BY <1>0, <1>2, RestoreAsks DEF EnsureAuthenticated, storeVars, Idle
<1>3. CASE Request(c)
  <2>1. /\ UNCHANGED <<active, urlKey, dir, sessionOk, validFor>>
        /\ chain' = [chain EXCEPT ![c].sent = TRUE,
                                  ![c].server = IF urlKey[dir] = None THEN None ELSE urlKey[dir][1]]
    BY <1>3 DEF Request, storeVars
  <2>2. urlKey[dir] # None => urlKey[dir][1] = dir
    BY <1>0 DEF StoreInv, UrlOwn
  <2>3. /\ \A d \in Chain : d # c => chain'[d] = chain[d]
        /\ Restoring(c)' => Restoring(c)
        /\ urlKey[dir] # None => chain'[c].server = dir
    BY <1>0, <2>1, <2>2 DEF Restoring, ChainState
  <2>4. \A d \in Chain : GoesOn(d)
    BY <2>1, <2>3 DEF GoesOn, Restoring, SessionInv, AsksActive
  <2> QED
    BY <2>1, <2>4, RunningAsks DEF ResultGoesOn
<1>4. CASE SignIn(c) \/ SignedIn(c)
  <2>1. PICK pc \in {"login", "profile"} :
          chain' = [chain EXCEPT ![c].pc = pc, ![c].sent = FALSE, ![c].server = None]
    BY <1>4 DEF SignIn, SignedIn, Advance
  <2>2. UNCHANGED <<active, urlKey, dir, sessionOk, validFor>> /\ chain[c].pc # "idle"
    BY <1>4 DEF SignIn, SignedIn, storeVars, Awaits
  <2>3. \A d \in Chain : GoesOn(d)
    BY <1>0, <2>1, <2>2 DEF GoesOn, Restoring, ChainState
  <2> QED
    BY <2>2, <2>3, RunningAsks DEF ResultGoesOn
<1>5. CASE LoggedInAlready(c) \/ SignInFails(c) \/ ProfileRead(c)
  <2>1. chain[c].pc # "idle" /\ chain[c].sent
    BY <1>5 DEF LoggedInAlready, SignInFails, ProfileRead, Awaits
  <2>2. Finish(c, TRUE) \/ Finish(c, FALSE)
    BY <1>5 DEF LoggedInAlready, SignInFails, ProfileRead
  <2> QED
    BY <2>1, <2>2, FinishAsks
<1> QED
  BY <1>1, <1>2, <1>3, <1>4, <1>5

\* No chain and no result changes, or the result is forgotten.
LEMMA ChainsAside ==
  ASSUME StoreInv, SessionInv, NoRestoreOutlives, UrlStays, chain' = chain, ResultGoesOn,
         active' = active => dir' = dir \/ dir' = RootOf(active)
  PROVE  SessionInv'
<1>1. \A c \in Chain : GoesOn(c)
  BY DEF GoesOn, Restoring
<1> QED
  BY <1>1, SessionKept

\* Every step of an account.
LEMMA AccountAsks ==
  ASSUME StoreInv, ChainInv, SessionInv, NoRestoreOutlives, NEW a \in Account,
         \/ \E c \in Chain : SwitchTo(a, c)
         \/ \E k \in Kind \cup {Sonovel}, c \in Chain : Add(a, k, c) \/ Edit(a, k, c)
         \/ Delete(a) \/ CrashInSwitch(a) \/ CrashInDelete(a)
  PROVE  SessionInv'
<1>0. rec \in Records /\ Sonovel \notin Kind
  BY ConstantsOK DEF StoreInv, StoreTypes, ConstantsOK
<1>1. ASSUME UNCHANGED <<active, urlKey, dir, sessionVars>> PROVE SessionInv'
  BY <1>1, ChainsAside DEF UrlStays, ResultGoesOn, sessionVars
<1>2. CASE \E c \in Chain : SwitchTo(a, c)
  BY <1>0, <1>2, ActivateForgets DEF SwitchTo
<1>3. CASE \E k \in Kind \cup {Sonovel}, c \in Chain : Add(a, k, c)
  <2>1. PICK k \in Kind \cup {Sonovel}, c \in Chain : Add(a, k, c)
    BY <1>3
  <2>2. rec' = [rec EXCEPT ![a] = [state |-> "kept", kind |-> k, url |-> 0]]
    BY <2>1 DEF Add
  <2>3. rec' \in Records /\ (k # Sonovel => IsLibrary(rec', a))
    BY <1>0, <2>2, ConstantsOK DEF ConstantsOK, Records, IsLibrary, Kept
  <2>4. CASE k # Sonovel
    BY <2>1, <2>3, <2>4, ActivateForgets DEF Add
  <2>5. CASE k = Sonovel
    BY <1>1, <2>1, <2>5 DEF Add
  <2> QED
    BY <2>4, <2>5
<1>4. CASE \E k \in Kind \cup {Sonovel}, c \in Chain : Edit(a, k, c)
  <2>1. PICK k \in Kind \cup {Sonovel}, c \in Chain : Edit(a, k, c)
    BY <1>4
  <2>2. /\ a \in Kept(rec) /\ rec[a].url < MaxEdits
        /\ rec' = [rec EXCEPT ![a].kind = k, ![a].url = @ + 1]
    BY <2>1 DEF Edit
  <2>3. rec' \in Records /\ (k # Sonovel => IsLibrary(rec', a))
    <3> DEFINE e == [rec[a] EXCEPT !.kind = k, !.url = @ + 1]
    <3>1. rec' = [rec EXCEPT ![a] = e]
      BY <1>0, <2>2
    <3>2. /\ e \in [state : {"new", "kept", "deleted"}, kind : Kind \cup {Sonovel},
                    url : 0..MaxEdits]
          /\ e.kind = k /\ e.state = "kept"
      BY <1>0, <2>2, ConstantsOK DEF ConstantsOK, Records, Kept
    <3> HIDE DEF e
    <3> QED
      BY <1>0, <3>1, <3>2 DEF Records, IsLibrary, Kept
  <2>4. CASE k # Sonovel /\ a = active
    BY <2>1, <2>3, <2>4, ActivateForgets DEF Edit
  <2>5. CASE ~(k # Sonovel /\ a = active)
    BY <1>1, <2>1, <2>5 DEF Edit
  <2> QED
    BY <2>4, <2>5
<1>5. CASE Delete(a)
  <2>1. rec' = [rec EXCEPT ![a].state = "deleted"] /\ UNCHANGED <<validFor, chain>>
    BY <1>5 DEF Delete
  <2>2. rec' \in Records
    BY <1>0, <2>1 DEF Records
  <2>3. CASE a = active
    <3>1. PICK n \in Kept(rec') :
            /\ active' = n
            /\ IF IsLibrary(rec', n)
               THEN ApplyIdentity(n, n, rec', username)
               ELSE sessionOk' = FALSE /\ UNCHANGED <<urlKey, username, prefKind, dir>>
      BY <1>5, <2>3 DEF Delete
    <3>2. UrlStays /\ ~sessionOk' /\ (dir' = dir \/ dir' = RootOf(n))
      BY <2>2, <3>1, IdentityForgets DEF UrlStays
    <3> QED
      BY <2>1, <3>1, <3>2, ChainsAside DEF ResultGoesOn
  <2>4. CASE a # active
    BY <1>1, <1>5, <2>4 DEF Delete, sessionVars
  <2> QED
    BY <2>3, <2>4
<1>6. CASE CrashInSwitch(a) \/ CrashInDelete(a)
  BY <1>6, RebootForgets DEF CrashInSwitch, CrashInDelete
<1> QED
  BY <1>2, <1>3, <1>4, <1>5, <1>6

LEMMA SessionStep ==
  ASSUME StoreInv, ChainInv, SessionInv, NoRestoreOutlives, [Next]_vars
  PROVE  SessionInv'
<1>0. rec \in Records /\ Sonovel \notin Kind /\ Legacy \in Account /\ prefKind \in Kind
  BY ConstantsOK DEF StoreInv, StoreTypes, ConstantsOK
<1>1. CASE DeferredStartup
  <2>1. rec' = Migrated(rec) /\ rec' \in Records /\ UNCHANGED <<chain, validFor>>
    BY <1>1, MigratedType DEF StoreInv, DeferredStartup
  <2>2. CASE IsLibrary(rec', active')
    <3>1. UrlStays /\ ~sessionOk' /\ dir' = RootOf(active')
      BY <1>1, <2>1, <2>2, IdentityForgets DEF DeferredStartup
    <3> QED
      BY <2>1, <3>1, ChainsAside DEF ResultGoesOn
  <2>3. CASE ~IsLibrary(rec', active')
    <3>1. rec' # rec => IsLibrary(rec', Legacy)
      BY <1>0, <2>1 DEF Migrated, IsLibrary, Kept, Records
    <3>2. UNCHANGED <<active, urlKey, dir, sessionOk>>
      BY <1>1, <2>3, <3>1 DEF DeferredStartup
    <3> QED
      BY <2>1, <3>2, ChainsAside DEF ResultGoesOn, UrlStays
  <2> QED
    BY <2>2, <2>3
<1>2. CASE SignOut
  BY <1>2, ChainsAside DEF SignOut, storeVars, ResultGoesOn, UrlStays
<1>3. CASE Restart
  BY <1>3, RebootForgets DEF Restart
<1>4. CASE \E p \in probing : ProbeNothing(p)
  BY <1>4, ChainsAside DEF ProbeNothing, storeVars, sessionVars, ResultGoesOn, UrlStays
<1>5. CASE \E p \in probing : \E k \in Kind : ProbeAnswer(p, k)
  <2>1. PICK p \in probing, k \in Kind : ProbeAnswer(p, k)
    BY <1>5
  <2>2. p.id \in Account /\ UNCHANGED <<active, validFor, chain>>
    BY <2>1 DEF ChainInv, ChainTypes, ProbeAnswer
  <2>3. CASE k # p.kind /\ p.id \in Kept(rec)
    <3>1. rec' = [rec EXCEPT ![p.id].kind = k] /\ ApplyIdentity(p.id, active, rec', username)
      BY <2>1, <2>3 DEF ProbeAnswer
    <3>2. rec' \in Records /\ IsLibrary(rec', p.id)
      BY <1>0, <2>2, <2>3, <3>1 DEF Records, IsLibrary, Kept
    <3>3. PICK b : b = p.id
      OBVIOUS
    <3>4. UrlStays /\ ~sessionOk' /\ dir' = RootOf(active)
      BY <3>1, <3>2, <3>3, IdentityForgets
    <3> QED
      BY <2>2, <3>4, ChainsAside DEF ResultGoesOn
  <2>4. CASE ~(k # p.kind /\ p.id \in Kept(rec))
    BY <2>1, <2>2, <2>4, ChainsAside DEF ProbeAnswer, ResultGoesOn, UrlStays
  <2> QED
    BY <2>3, <2>4
<1>6. CASE UNCHANGED vars
  BY <1>6, ChainsAside DEF vars, storeVars, sessionVars, ResultGoesOn, UrlStays
<1> QED
  BY <1>1, <1>2, <1>3, <1>4, <1>5, <1>6, ChainAsks, AccountAsks DEF Next

(* SessionOfActive, which the code breaks, has one cause: were no restore   *)
(* to outlive a switch, a session that counts as checked would be that of   *)
(* the active account, whatever late sign-ins of a switch, probes, edits,   *)
(* deletions and process deaths come between.                               *)
THEOREM SessionOwnUnlessOutlived == Spec /\ [][NoRestoreOutlives]_vars => []SessionOfActive
<1>1. Init => StoreInv /\ ChainInv /\ SessionInv
  <2>1. Init => SessionInv
    BY DEF Init, SessionInv, AsksActive, Restoring, Idle
  <2> QED
    BY <2>1, StoreInit, ChainInit
<1>2. StoreInv /\ ChainInv /\ SessionInv /\ [Next]_vars /\ [NoRestoreOutlives]_vars
        => StoreInv' /\ ChainInv' /\ SessionInv'
  <2>1. UNCHANGED vars => NoRestoreOutlives
    BY DEF vars, storeVars, NoRestoreOutlives
  <2> QED
    BY <2>1, Step, SessionStep
<1>3. StoreInv /\ SessionInv => SessionOfActive
  BY RootType DEF StoreInv, StoreTypes, SessionInv, SessionOfActive, IsLibrary, Kept
<1> QED
  BY <1>1, <1>2, <1>3, PTL DEF Spec

-----------------------------------------------------------------------------
(* No probe of the server's kind outlives a switch: what the code would     *)
(* have if its answer asked which account is active now.                    *)
NoProbeOutlives == active' # active => \A p \in probing' : p.id = active'

ConfigInv == ConfigOfActive /\ \A p \in probing : p.id = active

-----------------------------------------------------------------------------
\* The identity of the active account has been applied.
LEMMA AppliedConfig ==
  ASSUME StoreInv, NEW names \in [Account -> Root], active' \in Account,
         ApplyIdentity(active', active', rec', names)
  PROVE  ConfigOfActive'
<1>1. RootOf(active') = active'
  BY RootType DEF Root
<1>2. /\ username' = [names EXCEPT ![active'] = active']
      /\ prefKind' = rec'[active'].kind
  BY <1>1 DEF ApplyIdentity
<1> QED
  BY <1>2 DEF ConfigOfActive

\* The configuration stays, and so does the record of the active account.
LEMMA SameConfig ==
  ASSUME ConfigOfActive, UNCHANGED <<active, username, prefKind>>,
         mode' # "boot" => mode # "boot",
         IsLibrary(rec', active) => IsLibrary(rec, active) /\ rec'[active] = rec[active]
  PROVE  ConfigOfActive'
<1>1. IsLibrary(rec, active)' = IsLibrary(rec', active')
  BY DEF IsLibrary, Kept
<1> QED
  BY <1>1 DEF ConfigOfActive

\* Every step of a chain; startup may begin a probe of the active account.
LEMMA ChainConfig ==
  ASSUME StoreInv, ConfigOfActive, NEW c \in Chain,
         \/ StartupRestore(c) \/ EnsureAuthenticated(c) \/ Request(c) \/ LoggedInAlready(c)
         \/ SignInFails(c) \/ SignIn(c) \/ SignedIn(c) \/ ProfileRead(c)
  PROVE  /\ ConfigOfActive' /\ active' = active
         /\ probing' \in {probing, ProbeStarted}
<1>1. CASE \E ok \in BOOLEAN : Finish(c, ok)
  <2>1. UNCHANGED <<rec, active, username, prefKind, mode>> /\ probing' \in {probing, ProbeStarted}
    BY <1>1 DEF Finish
  <2>2. ConfigOfActive'
    BY <2>1, SameConfig
  <2> QED
    BY <2>1, <2>2
<1>2. CASE StartupRestore(c) \/ EnsureAuthenticated(c) \/ Request(c) \/ SignIn(c) \/ SignedIn(c)
  <2>1. /\ UNCHANGED <<rec, active, username, prefKind>> /\ probing' \in {probing, ProbeStarted}
        /\ mode' # "boot" => mode # "boot"
    BY <1>2 DEF StartupRestore, EnsureAuthenticated, Request, SignIn, SignedIn, storeVars
  <2>2. ConfigOfActive'
    BY <2>1, SameConfig
  <2> QED
    BY <2>1, <2>2
<1> QED
  BY <1>1, <1>2 DEF LoggedInAlready, SignInFails, ProfileRead

\* Every step of an account.
LEMMA AccountConfig ==
  ASSUME StoreInv, ConfigOfActive, NEW a \in Account,
         \/ \E c \in Chain : SwitchTo(a, c)
         \/ \E k \in Kind \cup {Sonovel}, c \in Chain : Add(a, k, c) \/ Edit(a, k, c)
         \/ Delete(a) \/ CrashInSwitch(a) \/ CrashInDelete(a)
  PROVE  ConfigOfActive' /\ (probing' = probing \/ probing' = {})
<1>0. rec \in Records /\ username \in [Account -> Root]
  BY DEF StoreInv, StoreTypes
<1>1. ASSUME NEW c \in Chain, Activate(a, rec', c)
      PROVE  ConfigOfActive' /\ probing' = probing
  BY <1>0, <1>1, AppliedConfig DEF Activate
<1>2. CASE \E c \in Chain : SwitchTo(a, c)
  BY <1>1, <1>2 DEF SwitchTo
<1>3. CASE \E k \in Kind \cup {Sonovel}, c \in Chain : Add(a, k, c)
  <2>1. PICK k \in Kind \cup {Sonovel}, c \in Chain : Add(a, k, c)
    BY <1>3
  <2>2. CASE k # Sonovel
    BY <1>1, <2>1, <2>2 DEF Add
  <2>3. CASE k = Sonovel
    <3>1. /\ rec' = [rec EXCEPT ![a] = [state |-> "kept", kind |-> k, url |-> 0]]
          /\ UNCHANGED <<active, username, prefKind, mode, probing>>
      BY <2>1, <2>3 DEF Add
    <3>2. IsLibrary(rec', active) => IsLibrary(rec, active) /\ rec'[active] = rec[active]
      BY <1>0, <2>3, <3>1 DEF IsLibrary, Kept, Records
    <3> QED
      BY <3>1, <3>2, SameConfig
  <2> QED
    BY <2>2, <2>3
<1>4. CASE \E k \in Kind \cup {Sonovel}, c \in Chain : Edit(a, k, c)
  <2>1. PICK k \in Kind \cup {Sonovel}, c \in Chain : Edit(a, k, c)
    BY <1>4
  <2>2. CASE k # Sonovel /\ a = active
    BY <1>1, <2>1, <2>2 DEF Edit
  <2>3. CASE ~(k # Sonovel /\ a = active)
    <3>1. /\ rec' = [rec EXCEPT ![a].kind = k, ![a].url = @ + 1]
          /\ UNCHANGED <<active, username, prefKind, mode, probing>>
      BY <2>1, <2>3 DEF Edit
    <3>2. IsLibrary(rec', active) => IsLibrary(rec, active) /\ rec'[active] = rec[active]
      BY <1>0, <2>3, <3>1 DEF IsLibrary, Kept, Records
    <3> QED
      BY <3>1, <3>2, SameConfig
  <2> QED
    BY <2>2, <2>3
<1>5. CASE Delete(a)
  <2>1. rec' = [rec EXCEPT ![a].state = "deleted"] /\ UNCHANGED <<mode, probing>>
    BY <1>5 DEF Delete
  <2>2. CASE a = active
    <3>1. PICK n \in Kept(rec') :
            /\ active' = n
            /\ IF IsLibrary(rec', n)
               THEN ApplyIdentity(n, n, rec', username)
               ELSE sessionOk' = FALSE /\ UNCHANGED <<urlKey, username, prefKind, dir>>
      BY <1>5, <2>2 DEF Delete
    <3>2. CASE IsLibrary(rec', n)
      <4>1. active' \in Account
        BY <3>1 DEF Kept
      <4> QED
        BY <1>0, <2>1, <3>1, <3>2, <4>1, AppliedConfig
    <3>3. CASE ~IsLibrary(rec', n)
      BY <2>1, <3>1, <3>3 DEF ConfigOfActive, IsLibrary, Kept
    <3> QED
      BY <3>2, <3>3
  <2>3. CASE a # active
    <3>1. UNCHANGED <<active, username, prefKind>>
      BY <1>5, <2>3 DEF Delete
    <3>2. IsLibrary(rec', active) => IsLibrary(rec, active) /\ rec'[active] = rec[active]
      BY <1>0, <2>1, <2>3 DEF IsLibrary, Kept, Records
    <3> QED
      BY <2>1, <3>1, <3>2, SameConfig
  <2> QED
    BY <2>2, <2>3
<1>6. CASE CrashInSwitch(a) \/ CrashInDelete(a)
  BY <1>6 DEF CrashInSwitch, CrashInDelete, Reboot, ConfigOfActive
<1> QED
  BY <1>2, <1>3, <1>4, <1>5, <1>6

LEMMA ConfigStep ==
  ASSUME StoreInv, ChainInv, ConfigInv, NoProbeOutlives, [Next]_vars
  PROVE  ConfigInv'
<1>0. rec \in Records /\ username \in [Account -> Root] /\ ConfigOfActive
  BY DEF StoreInv, StoreTypes, ConfigInv
<1>1. \A p \in ProbeStarted : p.id = active
  BY DEF ProbeStarted, ConfigInv
<1>2. ASSUME ConfigOfActive', probing' \subseteq probing \cup ProbeStarted PROVE ConfigInv'
  BY <1>1, <1>2 DEF ConfigInv, NoProbeOutlives
<1>3. CASE DeferredStartup
  <2>1. /\ rec' = Migrated(rec) /\ probing' = probing
        /\ NamesEnsured(username, rec') \in [Account -> Root]
    BY <1>0, <1>3 DEF DeferredStartup, NamesEnsured, Root
  <2>2. CASE IsLibrary(rec', active')
    <3>1. active' \in Account
      BY <2>2 DEF IsLibrary, Kept
    <3> QED
      BY <1>2, <1>3, <2>1, <2>2, <3>1, AppliedConfig DEF DeferredStartup
  <2>3. CASE ~IsLibrary(rec', active')
    <3>1. ConfigOfActive'
      BY <2>3 DEF ConfigOfActive, IsLibrary, Kept
    <3> QED
      BY <1>2, <2>1, <3>1
  <2> QED
    BY <2>2, <2>3
<1>4. CASE Restart
  BY <1>2, <1>4 DEF Restart, Reboot, ConfigOfActive
<1>5. CASE \E p \in probing : \E k \in Kind : ProbeAnswer(p, k)
  <2>1. PICK p \in probing, k \in Kind : ProbeAnswer(p, k)
    BY <1>5
  <2>2. p.id = active /\ probing' \subseteq probing /\ UNCHANGED <<active, mode>> /\ p.id \in Account
    BY <2>1 DEF ProbeAnswer, ConfigInv, ChainInv, ChainTypes
  <2>3. CASE k # p.kind /\ p.id \in Kept(rec)
    BY <1>0, <1>2, <2>1, <2>2, <2>3, AppliedConfig DEF ProbeAnswer
  <2>4. CASE ~(k # p.kind /\ p.id \in Kept(rec))
    BY <1>0, <1>2, <2>1, <2>2, <2>4, SameConfig DEF ProbeAnswer
  <2> QED
    BY <2>3, <2>4
<1>6. CASE SignOut \/ (\E p \in probing : ProbeNothing(p)) \/ UNCHANGED vars
  <2>1. UNCHANGED <<rec, active, username, prefKind, mode>> /\ probing' \subseteq probing
    BY <1>6 DEF SignOut, ProbeNothing, vars, storeVars
  <2> QED
    BY <1>0, <1>2, <2>1, SameConfig
<1>7. CASE \E a \in Account :
             \/ \E c \in Chain : SwitchTo(a, c)
             \/ \E k \in Kind \cup {Sonovel}, c \in Chain : Add(a, k, c) \/ Edit(a, k, c)
             \/ Delete(a) \/ CrashInSwitch(a) \/ CrashInDelete(a)
  BY <1>0, <1>2, <1>7, AccountConfig
<1>8. CASE \E c \in Chain :
             \/ StartupRestore(c) \/ EnsureAuthenticated(c) \/ Request(c) \/ LoggedInAlready(c)
             \/ SignInFails(c) \/ SignIn(c) \/ SignedIn(c) \/ ProfileRead(c)
  <2>1. ConfigOfActive' /\ probing' \in {probing, ProbeStarted}
    BY <1>0, <1>8, ChainConfig
  <2> QED
    BY <1>2, <2>1
<1> QED
  BY <1>3, <1>4, <1>5, <1>6, <1>7, <1>8 DEF Next

(* ConfigOfActive, which the code breaks, has one cause: were no probe to   *)
(* outlive a switch, the user name under the alias of the active account    *)
(* and the kind in the preferences would be its own once startup is over,   *)
(* after edits, deletions, corrections by probes and crashes in a switch.   *)
THEOREM ConfigOwnUnlessOutlived == Spec /\ [][NoProbeOutlives]_vars => []ConfigOfActive
<1>1. Init => StoreInv /\ ChainInv /\ ConfigInv
  <2>1. Init => ConfigInv
    BY DEF Init, ConfigInv, ConfigOfActive
  <2> QED
    BY <2>1, StoreInit, ChainInit
<1>2. StoreInv /\ ChainInv /\ ConfigInv /\ [Next]_vars /\ [NoProbeOutlives]_vars
        => StoreInv' /\ ChainInv' /\ ConfigInv'
  <2>1. UNCHANGED vars => NoProbeOutlives
    BY DEF vars, storeVars, NoProbeOutlives
  <2> QED
    BY <2>1, Step, ConfigStep
<1>3. ConfigInv => ConfigOfActive
  BY DEF ConfigInv
<1> QED
  BY <1>1, <1>2, <1>3, PTL DEF Spec
=============================================================================
