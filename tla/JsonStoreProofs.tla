---------------------------- MODULE JsonStoreProofs ----------------------------
(***************************************************************************)
(* Proofs about JsonStore, for any number of roots, values, worker threads,*)
(* failed writes and process deaths.                                       *)
(***************************************************************************)
EXTENDS JsonStore, SequenceTheorems, TLAPS

Step ==
  [do : {"root"}, root : Root] \cup [do : {"drop"}, global : BOOLEAN] \cup [do : {"refresh"}]
    \cup [do : {"base"}, key : Key, value : Url] \cup [do : {"open"}, file : Root]
    \cup [do : {"rename"}, file : Root, key : Key, value : Url]
    \cup [do : {"prefsave", "prefswap"}, value : Pref]

TypeInv == TypeOK /\ todo \in Seq(Step)

(* The steps of the calls, one by one.                                      *)
SetCall(s, k, v) ==
  /\ s \in Seq(Step)
  /\ Len(s) = 4
  /\ s[1] = [do |-> "base", key |-> k, value |-> v]
  /\ s[2] = [do |-> "open", file |-> identity]
  /\ s[3] = [do |-> "rename", file |-> identity, key |-> k, value |-> v]
  /\ s[4] = [do |-> "drop", global |-> FALSE]

ApplyCall(s, v) ==
  /\ s \in Seq(Step)
  /\ Len(s) = 7
  /\ s[1] = [do |-> "base", key |-> "sonovel_url", value |-> v]
  /\ s[2] = [do |-> "open", file |-> identity]
  /\ s[3] = [do |-> "rename", file |-> identity, key |-> "sonovel_url", value |-> v]
  /\ s[4] = [do |-> "drop", global |-> FALSE]
  /\ s[5] = [do |-> "open", file |-> Global]
  /\ s[6] = [do |-> "rename", file |-> Global, key |-> "sonovel_url", value |-> v]
  /\ s[7] = [do |-> "drop", global |-> TRUE]

RootCall(s, r) ==
  /\ s \in Seq(Step)
  /\ Len(s) = 3
  /\ s[1] = [do |-> "root", root |-> r]
  /\ s[2] = [do |-> "drop", global |-> FALSE]
  /\ s[3] = [do |-> "refresh"]

PrefsCall(s, p) ==
  /\ s \in Seq(Step)
  /\ Len(s) = 2
  /\ s[1] = [do |-> "prefsave", value |-> p]
  /\ s[2] = [do |-> "prefswap", value |-> p]

(* A call that writes no preferences.                                       *)
NoPref(s) == \A n \in 1..Len(s) : s[n].do \notin {"prefsave", "prefswap"}

(* What the steps of a call hold of the preferences.                        *)
PrefCall ==
  \/ NoPref(todo)
  \/ /\ Len(todo) = 2
     /\ todo[1].do = "prefsave"
     /\ todo[2] = [do |-> "prefswap", value |-> todo[1].value]
  \/ Len(todo) = 1 /\ todo[1].do = "prefswap" /\ prefFile = todo[1].value

PrefInv == PrefCall /\ PrefsDurable

GlobalDrop(s) == \E i \in 1..Len(s) : s[i].do = "drop" /\ s[i].global

(* How the steps that are left of a call lie to one another.                *)
RenamesOrdered(s, id) ==
  \A i \in 1..Len(s) : s[i].do = "rename" =>
    /\ i < Len(s) /\ s[i + 1].do = "drop"
    /\ IF s[i + 1].global THEN s[i].file = Global /\ s[i].key = "sonovel_url"
       ELSE s[i].file = id
    /\ i > 1 => s[i - 1].do = "open"
    /\ \A j \in 1..(i - 1) : s[j].do = "rename" => s[i + 1].global

SecondSave(s) ==
  \A i \in 4..Len(s) : s[i].do = "rename" /\ s[i + 1].global =>
    /\ s[i - 3].do = "rename" /\ s[i - 3].value = s[i].value /\ s[i - 3].key = "sonovel_url"
    /\ ~s[i - 2].global

OthersOrdered(s) ==
  \A i \in 1..Len(s) :
    /\ s[i].do = "drop" /\ s[i].global => i = Len(s)
    /\ s[i].do = "root" =>
         i = 1 /\ Len(s) = 3 /\ s[2] = [do |-> "drop", global |-> FALSE] /\ s[3].do = "refresh"

Ordered(s, id) == RenamesOrdered(s, id) /\ SecondSave(s) /\ OthersOrdered(s)

(* While no write failed: a global save whose call has saved the address at *)
(* the identity root, and a save at the global root which is that of the    *)
(* legacy account, leave the global address as it is in the first file.     *)
GlobalFollows(s, id, f) ==
  \A i \in 1..Len(s) : i <= 3 /\ s[i].do = "rename" /\ s[i + 1].global =>
    f[id]["sonovel_url"] = s[i].value

OpenSearchSaves(s, id, f) ==
  id = Global /\ ~GlobalDrop(s) =>
    \A i \in 1..Len(s) : s[i].do = "rename" /\ s[i].key = "sonovel_url" /\ ~s[i + 1].global =>
      s[i].value = f[Global]["sonovel_url"]

Pending(s, id, f, n) == n = 0 => GlobalFollows(s, id, f) /\ OpenSearchSaves(s, id, f)

(* CacheCurrent and GlobalCacheCurrent, of any call.                        *)
CacheHolds(s, id, c, f, n) ==
  c.valid /\ c.from = id /\ ~(s # <<>> /\ Head(s).do = "drop" /\ ~Head(s).global) =>
    \A k \in Key : k = "talebook_url" \/ n = 0 => c.fields[k] = f[id][k]

GlobalHolds(s, c, f, n) ==
  c.valid /\ n = 0 /\ ~GlobalDrop(s) => c.fields["sonovel_url"] = f[Global]["sonovel_url"]

CachesInv ==
  /\ Ordered(todo, identity)
  /\ Pending(todo, identity, file, failures)
  /\ CacheHolds(todo, identity, cache, file, failures)
  /\ GlobalHolds(todo, gcache, file, failures)

(* t is what is left of s after d steps.                                    *)
Left(s, t, d) ==
  /\ s \in Seq(Step) /\ t \in Seq(Step)
  /\ Len(s) \in Nat /\ Len(t) \in Nat /\ Len(s) = Len(t) + d
  /\ \A n \in 1..Len(t) : t[n] = s[n + d]

-----------------------------------------------------------------------------
(* What is left of a call after one step, and after a save that failed.     *)
LEMMA TailSteps ==
  ASSUME NEW s \in Seq(Step), s # <<>>
  PROVE  /\ Tail(s) \in Seq(Step)
         /\ Len(s) \in Nat /\ Len(s) >= 1
         /\ Len(Tail(s)) = Len(s) - 1
         /\ \A n \in 1..Len(Tail(s)) : Tail(s)[n] = s[n + 1]
         /\ Head(s) = s[1] /\ s[1] \in Step
  <1>1. Len(s) \in Nat /\ Len(s) # 0
    BY EmptySeq, LenProperties
  <1>2. Tail(s) \in Seq(Step) /\ Len(Tail(s)) = Len(s) - 1 /\ Head(s) \in Step
    BY HeadTailProperties
  <1> QED  BY <1>1, <1>2

(* What is left of a call when a write of two steps failed.                 *)
LEMMA FailedSteps ==
  ASSUME NEW s \in Seq(Step), s # <<>>
  PROVE  /\ SubSeq(s, 3, Len(s)) \in Seq(Step)
         /\ Len(SubSeq(s, 3, Len(s))) = IF Len(s) < 3 THEN 0 ELSE Len(s) - 2
         /\ \A n \in 1..Len(SubSeq(s, 3, Len(s))) : SubSeq(s, 3, Len(s))[n] = s[n + 2]
  <1>1. Len(s) \in Nat /\ Len(s) # 0 /\ \A n \in 1..Len(s) : s[n] \in Step
    BY EmptySeq, LenProperties, ElementOfSeq
  <1> QED  BY <1>1, SubSeqProperties

(* The steps of the calls.                                                  *)
LEMMA SaveSteps ==
  ASSUME NEW f \in Root, NEW k \in Key, NEW v \in Url, NEW g \in BOOLEAN
  PROVE  /\ Save(f, k, v, g) \in Seq(Step)
         /\ Len(Save(f, k, v, g)) = 3
         /\ Save(f, k, v, g)[1] = [do |-> "open", file |-> f]
         /\ Save(f, k, v, g)[2] = [do |-> "rename", file |-> f, key |-> k, value |-> v]
         /\ Save(f, k, v, g)[3] = [do |-> "drop", global |-> g]
  BY DEF Save, Step

(* Two sequences of steps, one after the other.                             *)
LEMMA Joined ==
  ASSUME NEW s \in Seq(Step), NEW t \in Seq(Step), NEW u, u = s \o t
  PROVE  /\ u \in Seq(Step)
         /\ Len(u) = Len(s) + Len(t)
         /\ \A i \in 1..Len(s) : u[i] = s[i]
         /\ \A i \in 1..Len(t) : u[Len(s) + i] = t[i]
  <1>1. u \in Seq(Step) /\ Len(u) = Len(s) + Len(t) /\ Len(s) \in Nat /\ Len(t) \in Nat
    BY ConcatProperties, LenProperties
  <1>2. \A i \in 1..(Len(s) + Len(t)) : u[i] = IF i <= Len(s) THEN s[i] ELSE t[i - Len(s)]
    BY ConcatProperties
  <1>3. \A i \in 1..Len(s) : u[i] = s[i]
    BY <1>1, <1>2
  <1>4. ASSUME NEW i \in 1..Len(t) PROVE u[Len(s) + i] = t[i]
    <2>1. /\ Len(s) + i \in 1..(Len(s) + Len(t))
          /\ ~(Len(s) + i <= Len(s))
          /\ (Len(s) + i) - Len(s) = i
      BY <1>1
    <2> QED  BY <1>2, <2>1
  <1> QED  BY <1>1, <1>3, <1>4

(* setBaseUrl is a call that sets one address.                              *)
LEMMA SetSteps ==
  ASSUME NEW k \in Key, NEW v \in Url, identity \in Root
  PROVE  SetCall(SetBaseUrl(k, v), k, v)
  <1> DEFINE s == <<[do |-> "base", key |-> k, value |-> v]>>
             t == WriteSecure(k, v)
  <1>1. s \in Seq(Step) /\ Len(s) = 1 /\ s[1] = [do |-> "base", key |-> k, value |-> v]
    BY DEF Step
  <1>2. /\ t \in Seq(Step)
        /\ Len(t) = 3
        /\ t[1] = [do |-> "open", file |-> identity]
        /\ t[2] = [do |-> "rename", file |-> identity, key |-> k, value |-> v]
        /\ t[3] = [do |-> "drop", global |-> FALSE]
    BY SaveSteps DEF WriteSecure
  <1>3. SetBaseUrl(k, v) = s \o t
    BY DEF SetBaseUrl
  <1> HIDE DEF s, t
  <1> DEFINE u == SetBaseUrl(k, v)
  <1> HIDE DEF u
  <1>4. s \in Seq(Step) /\ t \in Seq(Step)
    BY <1>1, <1>2
  <1>5. /\ u \in Seq(Step)
        /\ Len(u) = Len(s) + Len(t)
        /\ \A i \in 1..Len(s) : u[i] = s[i]
        /\ \A i \in 1..Len(t) : u[Len(s) + i] = t[i]
    BY <1>3, <1>4, Joined, Zenon DEF u
  <1>6. u \in Seq(Step) /\ Len(u) = 4 /\ u[1] = s[1] /\ u[2] = t[1] /\ u[3] = t[2] /\ u[4] = t[3]
    BY <1>1, <1>2, <1>5
  <1> QED  BY <1>1, <1>2, <1>6 DEF u, SetCall

(* applySonovelUrl sets the address and its global copy.                    *)
LEMMA ApplySteps ==
  ASSUME NEW v \in Url, identity \in Root
  PROVE  ApplyCall(SetBaseUrl("sonovel_url", v) \o WriteSecureGlobal("sonovel_url", v), v)
  <1> DEFINE a == SetBaseUrl("sonovel_url", v)
             b == WriteSecureGlobal("sonovel_url", v)
             s == a \o b
  <1>1. /\ a \in Seq(Step)
        /\ Len(a) = 4
        /\ a[1] = [do |-> "base", key |-> "sonovel_url", value |-> v]
        /\ a[2] = [do |-> "open", file |-> identity]
        /\ a[3] = [do |-> "rename", file |-> identity, key |-> "sonovel_url", value |-> v]
        /\ a[4] = [do |-> "drop", global |-> FALSE]
    BY SetSteps DEF Key, SetCall
  <1>2. /\ b \in Seq(Step)
        /\ Len(b) = 3
        /\ b[1] = [do |-> "open", file |-> Global]
        /\ b[2] = [do |-> "rename", file |-> Global, key |-> "sonovel_url", value |-> v]
        /\ b[3] = [do |-> "drop", global |-> TRUE]
    BY SaveSteps, ConstantsOK DEF WriteSecureGlobal, Key
  <1>3. s = a \o b
    OBVIOUS
  <1> HIDE DEF a, b, s
  <1>4. a \in Seq(Step) /\ b \in Seq(Step)
    BY <1>1, <1>2
  <1>5. /\ s \in Seq(Step)
        /\ Len(s) = Len(a) + Len(b)
        /\ \A i \in 1..Len(a) : s[i] = a[i]
        /\ \A i \in 1..Len(b) : s[Len(a) + i] = b[i]
    BY <1>3, <1>4, Joined, Zenon
  <1>6. Len(a) = 4 /\ Len(b) = 3
    BY <1>1, <1>2
  <1>7. s \in Seq(Step) /\ Len(s) = 7
    BY <1>5, <1>6
  <1>8. s[1] = a[1] /\ s[2] = a[2] /\ s[3] = a[3] /\ s[4] = a[4]
    BY <1>5, <1>6
  <1>9. s[5] = b[1] /\ s[6] = b[2] /\ s[7] = b[3]
    BY <1>5, <1>6
  <1>10. ApplyCall(s, v)
    BY <1>1, <1>2, <1>7, <1>8, <1>9 DEF ApplyCall
  <1> QED  BY <1>10 DEF a, b, s

(* The steps of a change of the preferences.                                *)
LEMMA PrefSteps ==
  ASSUME NEW p \in Pref
  PROVE  PrefsCall(WritePref(p), p)
  BY DEF WritePref, Step, PrefsCall

(* The steps of an identity switch.                                         *)
LEMMA RootSteps ==
  ASSUME NEW r \in Root
  PROVE  RootCall(<< [do |-> "root", root |-> r], [do |-> "drop", global |-> FALSE],
                     [do |-> "refresh"] >>, r)
  BY DEF Step, RootCall

(* Which calls leave the preferences alone.                                 *)
LEMMA NoPrefCalls ==
  ASSUME NEW s
  PROVE  /\ \A r : RootCall(s, r) => NoPref(s)
         /\ \A k, v : SetCall(s, k, v) => NoPref(s)
         /\ \A v : ApplyCall(s, v) => NoPref(s)
  <1>1. ASSUME NEW r, RootCall(s, r) PROVE NoPref(s)
    <2>1. \A n \in 1..Len(s) : n \in {1, 2, 3}
      BY <1>1 DEF RootCall
    <2> QED  BY <1>1, <2>1 DEF RootCall, NoPref
  <1>2. ASSUME NEW k, NEW v, SetCall(s, k, v) PROVE NoPref(s)
    <2>1. \A n \in 1..Len(s) : n \in {1, 2, 3, 4}
      BY <1>2 DEF SetCall
    <2> QED  BY <1>2, <2>1 DEF SetCall, NoPref
  <1>3. ASSUME NEW v, ApplyCall(s, v) PROVE NoPref(s)
    <2>1. \A n \in 1..Len(s) : n \in {1, 2, 3, 4, 5, 6, 7}
      BY <1>3 DEF ApplyCall
    <2>2. /\ s[1].do = "base" /\ s[2].do = "open" /\ s[3].do = "rename" /\ s[4].do = "drop"
          /\ s[5].do = "open" /\ s[6].do = "rename" /\ s[7].do = "drop"
      BY <1>3 DEF ApplyCall
    <2> QED  BY <2>1, <2>2 DEF NoPref
  <1> QED  BY <1>1, <1>2, <1>3

-----------------------------------------------------------------------------
(* A step of the call takes one of the steps that are left.                 *)
LEMMA StepKinds ==
  ASSUME NEW s \in Step
  PROVE  /\ s.do = "root" => s.root \in Root
         /\ s.do = "drop" => s.global \in BOOLEAN
         /\ s.do = "base" => s.key \in Key /\ s.value \in Url
         /\ s.do = "rename" => s.file \in Root /\ s.key \in Key /\ s.value \in Url
         /\ s.do \in {"prefsave", "prefswap"} => s.value \in Pref
  BY DEF Step

(* A cache that is valid, or just loaded, holds what a file may hold.       *)
LEMMA LoadedType ==
  ASSUME file \in [Root -> Content], NEW c \in Cache, NEW r \in Root
  PROVE  /\ Loaded(c, r) \in Cache
         /\ Loaded(c, r).valid
         /\ c.valid => Loaded(c, r) = c
         /\ ~c.valid => Loaded(c, r).from = r /\ Loaded(c, r).fields = file[r]
  BY DEF Loaded, Cache

(* A cache that was dropped is a cache.                                     *)
LEMMA NoCacheType == NoCache \in Cache /\ ~NoCache.valid /\ Empty \in Content
  <1>1. Empty \in Content
    BY DEF Empty, Content, Field
  <1>2. NoCache \in Cache /\ ~NoCache.valid
    BY <1>1, ConstantsOK DEF NoCache, Cache
  <1> QED  BY <1>1, <1>2

(* The caches and files have their types at start.                          *)
LEMMA TypeInit == Init => TypeInv
  <1> SUFFICES ASSUME Init PROVE TypeInv
    OBVIOUS
  <1>1. Resting \in [pc : {"idle", "path", "read", "sent"}, key : Key, path : Root,
                     got : Field, quiet : BOOLEAN]
    BY ConstantsOK DEF Resting, Field, Key
  <1>2. worker \in [Worker -> [pc : {"idle", "path", "read", "sent"}, key : Key, path : Root,
                               got : Field, quiet : BOOLEAN]]
    BY <1>1 DEF Init
  <1>3. file \in [Root -> Content] /\ base \in Content
    BY NoCacheType DEF Init
  <1> QED  BY <1>2, <1>3, NoCacheType, ConstantsOK DEF Init, TypeInv, TypeOK

(* Every step of a call, and a process death, keeps the types.              *)
LEMMA TypeNext == TypeInv /\ [Next]_vars => TypeInv'
  <1> SUFFICES ASSUME TypeInv, [Next]_vars PROVE TypeInv'
    OBVIOUS
  <1> USE DEF TypeInv, TypeOK
  <1>1. ASSUME NEW s \in Seq(Step), Begin(s),
               UNCHANGED <<identity, file, pref, prefFile, cache, base, failures, restarts>>,
               gcache' \in Cache
        PROVE  TypeInv'
    BY <1>1 DEF Begin
  <1>2. ASSUME NEW r \in Root, SetIdentityDir(r) PROVE TypeInv'
    <2>1. << [do |-> "root", root |-> r], [do |-> "drop", global |-> FALSE],
             [do |-> "refresh"] >> \in Seq(Step)
      BY RootSteps DEF RootCall
    <2> QED  BY <1>1, <1>2, <2>1 DEF SetIdentityDir
  <1>3. ASSUME NEW v \in Url, SetTalebookUrl(v) PROVE TypeInv'
    <2>1. SetBaseUrl("talebook_url", v) \in Seq(Step)
      BY SetSteps DEF Key, SetCall
    <2> QED  BY <1>1, <1>3, <2>1 DEF SetTalebookUrl
  <1>4. ASSUME NEW v \in Url, ApplySonovelUrl(v) PROVE TypeInv'
    <2>1. SetBaseUrl("sonovel_url", v) \o WriteSecureGlobal("sonovel_url", v) \in Seq(Step)
      BY ApplySteps DEF ApplyCall
    <2> QED  BY <1>1, <1>4, <2>1 DEF ApplySonovelUrl
  <1>5. CASE OpenSearch
    <2> DEFINE v == Loaded(gcache, Global).fields["sonovel_url"]
    <2>1. Loaded(gcache, Global) \in Cache
      BY LoadedType, ConstantsOK
    <2>2. v \in Url
      BY <1>5, <2>1 DEF OpenSearch, Cache, Content, Field, Key
    <2>3. SetBaseUrl("sonovel_url", v) \in Seq(Step)
      BY <2>2, SetSteps DEF Key, SetCall
    <2> QED  BY <1>1, <1>5, <2>1, <2>3 DEF OpenSearch
  <1>6. CASE ReadPref
    BY <1>6 DEF ReadPref
  <1>7. ASSUME NEW p \in Pref, SetPref(p) PROVE TypeInv'
    BY <1>1, <1>7, PrefSteps DEF SetPref, PrefsCall
  <1>8. ASSUME todo # <<>>
        PROVE  Tail(todo) \in Seq(Step) /\ Head(todo) \in Step
    BY <1>8, TailSteps
  <1>9. CASE StepRoot
    BY <1>8, <1>9, StepKinds DEF StepRoot, At
  <1>10. CASE StepDrop
    BY <1>8, <1>10, NoCacheType DEF StepDrop, At
  <1>11. CASE StepRefresh
    <2>1. cache' \in Cache /\ gcache' \in Cache
      BY <1>11, LoadedType, ConstantsOK DEF StepRefresh
    <2>2. cache'.fields \in Content /\ gcache'.fields \in Content
      BY <2>1 DEF Cache
    <2>3. base' \in Content
      BY <1>11, <2>2 DEF StepRefresh, Content, Key
    <2> QED  BY <1>8, <1>11, <2>1, <2>3 DEF StepRefresh, At
  <1>12. CASE StepBase
    BY <1>8, <1>12, StepKinds DEF StepBase, At, Content, Field
  <1>13. CASE StepOpen
    BY <1>8, <1>13 DEF StepOpen, At, WhileWriting
  <1>14. CASE StepRename
    <2>1. file' \in [Root -> Content]
      BY <1>8, <1>14, StepKinds DEF StepRename, At, Content, Field
    <2> QED  BY <1>8, <1>14, <2>1 DEF StepRename, At
  <1>15. CASE StepFails
    <2>1. todo # <<>>
      BY <1>15 DEF StepFails, At
    <2>2. SubSeq(todo, 3, Len(todo)) \in Seq(Step) /\ <<>> \in Seq(Step)
      BY <2>1, FailedSteps, EmptySeq
    <2>3. todo' \in Seq(Step)
      BY <1>15, <2>2 DEF StepFails
    <2> QED  BY <1>15, <2>3, ConstantsOK DEF StepFails
  <1>16. CASE StepPrefSave
    BY <1>8, <1>16, StepKinds DEF StepPrefSave, At
  <1>17. CASE StepPrefSwap
    BY <1>8, <1>17, StepKinds DEF StepPrefSwap, At
  <1>18. ASSUME NEW w \in Worker, NEW k \in Key, EvaluatePath(w, k) PROVE TypeInv'
    BY <1>18 DEF EvaluatePath, jsVars, Field
  <1>19. ASSUME NEW w \in Worker, ReadSecure(w) PROVE TypeInv'
    <2>1. cache' \in Cache
      BY <1>19, LoadedType DEF ReadSecure
    <2>2. cache'.fields[worker[w].key] \in Field
      BY <2>1 DEF Cache, Content
    <2> QED  BY <1>19, <2>1, <2>2 DEF ReadSecure, jsVars
  <1>20. ASSUME NEW w \in Worker, SendTo(w) PROVE TypeInv'
    <2>1. base' \in Content
      BY <1>20 DEF SendTo, Content
    <2> QED  BY <1>20, <2>1 DEF SendTo, jsVars
  <1>21. ASSUME NEW w \in Worker, Answered(w) PROVE TypeInv'
    BY <1>21, ConstantsOK DEF Answered, jsVars, Resting, Field, Key
  <1>22. CASE Restart
    <2>1. worker' \in [Worker -> [pc : {"idle", "path", "read", "sent"}, key : Key, path : Root,
                                   got : Field, quiet : BOOLEAN]]
      BY <1>22, ConstantsOK DEF Restart, Resting, Field, Key
    <2> QED  BY <1>22, <2>1, NoCacheType, ConstantsOK DEF Restart
  <1>23. CASE UNCHANGED vars
    BY <1>23 DEF vars, jsVars
  <1> QED
    BY <1>2, <1>3, <1>4, <1>5, <1>6, <1>7, <1>9, <1>10, <1>11, <1>12, <1>13, <1>14, <1>15,
       <1>16, <1>17, <1>18, <1>19, <1>20, <1>21, <1>22, <1>23
    DEF Next

(* No reader ever finds a secure file half written, whenever the process    *)
(* dies, and every step that is left of a call has the fields it uses:      *)
(* writeFileAtomic of json_store.cpp.                                       *)
THEOREM TypesHold == Spec => []TypeInv
  <1>1. Init => TypeInv  BY TypeInit
  <1>2. TypeInv /\ [Next]_vars => TypeInv'  BY TypeNext
  <1> QED  BY <1>1, <1>2, PTL DEF Spec

(* The variables of the store keep their types: json_store.cpp, whichever   *)
(* calls interleave, fail or are cut off by a process death.                *)
THEOREM TypesCorrect == Spec => []TypeOK
  <1>1. TypeInv => TypeOK  BY DEF TypeInv
  <1> QED  BY <1>1, TypesHold, PTL

-----------------------------------------------------------------------------
(* Nothing is owed to the preferences at start.                             *)
LEMMA PrefInit == Init => PrefInv
  BY EmptySeq DEF Init, PrefInv, PrefCall, NoPref, PrefsDurable

(* What is left of a call that writes no preferences writes none.           *)
LEMMA NoPrefLeft ==
  ASSUME NEW s \in Seq(Step), s # <<>>, NoPref(s)
  PROVE  NoPref(Tail(s)) /\ NoPref(SubSeq(s, 3, Len(s))) /\ Head(s).do # "prefswap"
  <1>1. NoPref(Tail(s)) /\ Head(s).do # "prefswap"
    BY TailSteps DEF NoPref
  <1>2. NoPref(SubSeq(s, 3, Len(s)))
    BY FailedSteps, TailSteps DEF NoPref
  <1> QED  BY <1>1, <1>2

(* Every step keeps what the file of the preferences owes the calls.        *)
LEMMA PrefNext == TypeInv /\ PrefInv /\ [Next]_vars => PrefInv'
  <1> SUFFICES ASSUME TypeInv, PrefInv, [Next]_vars PROVE PrefInv'
    OBVIOUS
  <1> USE DEF TypeInv
  <1>1. identity \in Root /\ pref \in Pref \cup {None} /\ NoPref(<<>>)
    BY DEF TypeOK, NoPref
  \* The first step of a call.
  <1>2. ASSUME NEW s, Begin(s), NoPref(s), UNCHANGED <<pref, prefFile>> PROVE PrefInv'
    <2>1. PrefsDurable'
      <3>1. todo = <<>> /\ todo' = s
        BY <1>2 DEF Begin
      <3>2. pref # None => pref = prefFile
        BY <3>1 DEF PrefInv, PrefsDurable, At
      <3> QED  BY <1>2, <3>2 DEF PrefsDurable
    <2> QED  BY <1>2, <2>1 DEF PrefInv, PrefCall, Begin
  <1>3. ASSUME NEW r \in Root, SetIdentityDir(r) PROVE PrefInv'
    <2>1. NoPref(<< [do |-> "root", root |-> r], [do |-> "drop", global |-> FALSE],
                    [do |-> "refresh"] >>)
      BY RootSteps, NoPrefCalls
    <2> QED  BY <1>2, <1>3, <2>1 DEF SetIdentityDir
  <1>4. ASSUME NEW v \in Url, SetTalebookUrl(v) PROVE PrefInv'
    <2>1. NoPref(SetBaseUrl("talebook_url", v))
      BY <1>1, SetSteps, NoPrefCalls DEF Key
    <2> QED  BY <1>2, <1>4, <2>1 DEF SetTalebookUrl
  <1>5. ASSUME NEW v \in Url, ApplySonovelUrl(v) PROVE PrefInv'
    <2>1. NoPref(SetBaseUrl("sonovel_url", v) \o WriteSecureGlobal("sonovel_url", v))
      BY <1>1, ApplySteps, NoPrefCalls
    <2> QED  BY <1>2, <1>5, <2>1 DEF ApplySonovelUrl
  <1>6. CASE OpenSearch
    <2> DEFINE v == Loaded(gcache, Global).fields["sonovel_url"]
    <2>1. v \in Url
      BY <1>6, LoadedType, ConstantsOK DEF OpenSearch, TypeOK, Cache, Content, Field, Key
    <2>2. NoPref(SetBaseUrl("sonovel_url", v))
      BY <1>1, <2>1, SetSteps, NoPrefCalls DEF Key
    <2> QED  BY <1>2, <1>6, <2>2 DEF OpenSearch
  <1>7. CASE ReadPref
    BY <1>1, <1>7 DEF ReadPref, PrefInv, PrefCall, PrefsDurable, At
  <1>8. ASSUME NEW p \in Pref, SetPref(p) PROVE PrefInv'
    <2>1. PrefCall'
      <3>1. PrefsCall(todo', p)
        BY <1>8, PrefSteps DEF SetPref, Begin
      <3> QED  BY <3>1 DEF PrefsCall, PrefCall
    <2>2. PrefsDurable'
      BY <1>8 DEF SetPref, Begin, PrefInv, PrefsDurable, At
    <2> QED  BY <2>1, <2>2 DEF PrefInv
  \* The steps of a call that writes none.
  <1>9. ASSUME todo # <<>>, Head(todo).do \notin {"prefsave", "prefswap"}
        PROVE  NoPref(todo) /\ NoPref(Tail(todo)) /\ NoPref(SubSeq(todo, 3, Len(todo)))
    <2>1. NoPref(todo)
      BY <1>9, TailSteps DEF PrefInv, PrefCall
    <2> QED  BY <1>9, <2>1, NoPrefLeft
  <1>10. ASSUME todo # <<>>, Head(todo).do \notin {"prefsave", "prefswap"}, NoPref(todo'),
                UNCHANGED <<pref, prefFile>>
         PROVE  PrefInv'
    BY <1>10 DEF PrefInv, PrefCall, PrefsDurable, At
  <1>11. CASE StepRoot \/ StepDrop \/ StepRefresh \/ StepBase \/ StepOpen \/ StepRename
    BY <1>9, <1>10, <1>11 DEF StepRoot, StepDrop, StepRefresh, StepBase, StepOpen, StepRename, At
  <1>12. CASE StepFails
    <2>1. CASE At("rename")
      BY <1>9, <1>10, <1>12, <2>1 DEF StepFails, At
    <2>2. CASE At("prefsave")
      BY <1>1, <1>12, <2>2 DEF StepFails, At, PrefInv, PrefCall, PrefsDurable
    <2> QED  BY <1>12, <2>1, <2>2 DEF StepFails
  <1>13. CASE StepPrefSave
    <2>1. todo # <<>> /\ Head(todo) = todo[1] /\ todo[1].do = "prefsave" /\ Len(todo) \in Nat
      BY <1>13, TailSteps DEF StepPrefSave, At
    <2>2. Len(todo) = 2 /\ todo[2] = [do |-> "prefswap", value |-> todo[1].value]
      BY <2>1, TailSteps DEF PrefInv, PrefCall, NoPref
    <2>3. Len(todo') = 1 /\ todo'[1] = todo[2]
      <3>1. todo' = Tail(todo) /\ Len(Tail(todo)) = 1
        <4>1. Len(Tail(todo)) = Len(todo) - 1
          BY <2>1, TailSteps
        <4> QED  BY <1>13, <2>2, <4>1 DEF StepPrefSave
      <3>2. Tail(todo)[1] = todo[2]
        <4>1. \A n \in 1..Len(Tail(todo)) : Tail(todo)[n] = todo[n + 1]
          BY <2>1, TailSteps, Zenon
        <4>2. 1 \in 1..1 /\ 1 + 1 = 2
          OBVIOUS
        <4>3. 1 \in 1..Len(Tail(todo))
          BY <3>1, <4>2, Zenon
        <4> QED  BY <4>1, <4>2, <4>3
      <3> QED  BY <3>1, <3>2
    <2>4. At("prefswap")' /\ PrefCall'
      <3>1. todo' # <<>> /\ Head(todo') = todo'[1]
        <4>1. todo' = Tail(todo) /\ Tail(todo) \in Seq(Step)
          BY <1>13, <2>1, TailSteps DEF StepPrefSave
        <4>2. Tail(todo) # <<>>
          <5>1. Len(Tail(todo)) = 1
            BY <2>3, <4>1
          <5> QED  BY <5>1, EmptySeq
        <4> QED  BY <4>1, <4>2, TailSteps
      <3> QED  BY <1>13, <2>1, <2>2, <2>3, <3>1 DEF StepPrefSave, At, PrefCall
    <2> QED  BY <2>4 DEF PrefInv, PrefsDurable
  <1>14. CASE StepPrefSwap
    <2>1. todo # <<>> /\ Head(todo) = todo[1] /\ todo[1].do = "prefswap"
      BY <1>14, TailSteps DEF StepPrefSwap, At
    <2>2. Len(todo) = 1 /\ prefFile = todo[1].value
      BY <2>1, TailSteps DEF PrefInv, PrefCall, NoPref
    <2>3. pref' = prefFile'
      BY <1>14, <2>1, <2>2 DEF StepPrefSwap
    <2>4. NoPref(todo')
      BY <1>14, <2>1, <2>2, TailSteps DEF StepPrefSwap, NoPref
    <2> QED  BY <2>3, <2>4 DEF PrefInv, PrefCall, PrefsDurable
  \* The steps that leave the preferences alone.
  <1>15. ASSUME UNCHANGED <<todo, pref, prefFile>> PROVE PrefInv'
    BY <1>15 DEF PrefInv, PrefCall, PrefsDurable, At
  <1>16. ASSUME NEW w \in Worker,
                (\E k \in Key : EvaluatePath(w, k)) \/ ReadSecure(w) \/ SendTo(w) \/ Answered(w)
         PROVE  PrefInv'
    BY <1>15, <1>16 DEF EvaluatePath, ReadSecure, SendTo, Answered, jsVars
  <1>17. CASE Restart
    BY <1>1, <1>17 DEF Restart, PrefInv, PrefCall, PrefsDurable
  <1>18. CASE UNCHANGED vars
    BY <1>15, <1>18 DEF vars, jsVars
  <1> QED
    BY <1>3, <1>4, <1>5, <1>6, <1>7, <1>8, <1>11, <1>12, <1>13, <1>14, <1>16, <1>17, <1>18
    DEF Next

(* A preference that was read is one a restart finds, whichever save fails  *)
(* and whenever the process dies: commitPrefLocked replaces the object in   *)
(* memory only after the save.                                              *)
THEOREM PrefsAreDurable == Spec => []PrefsDurable
  <1>1. Init => PrefInv  BY PrefInit
  <1>2. TypeInv /\ PrefInv /\ [Next]_vars => PrefInv'  BY PrefNext
  <1>3. PrefInv => PrefsDurable  BY DEF PrefInv
  <1> QED  BY <1>1, <1>2, <1>3, TypesHold, PTL DEF Spec

-----------------------------------------------------------------------------
(* What is left of an ordered call is ordered.                              *)
LEMMA OrderedLeft ==
  ASSUME NEW s, NEW t, NEW d \in {1, 2}, Left(s, t, d), NEW id, Ordered(s, id)
  PROVE  Ordered(t, id)
  <1> USE DEF Left
  <1>1. RenamesOrdered(t, id)
    <2> SUFFICES ASSUME NEW i \in 1..Len(t), t[i].do = "rename"
                 PROVE  /\ i < Len(t) /\ t[i + 1].do = "drop"
                        /\ IF t[i + 1].global THEN t[i].file = Global /\ t[i].key = "sonovel_url"
                           ELSE t[i].file = id
                        /\ i > 1 => t[i - 1].do = "open"
                        /\ \A j \in 1..(i - 1) : t[j].do = "rename" => t[i + 1].global
      BY DEF RenamesOrdered
    <2> DEFINE m == i + d
    <2>1. m \in 1..Len(s) /\ m > 1 /\ s[m] = t[i]
      OBVIOUS
    <2>2. /\ m < Len(s) /\ s[m + 1].do = "drop"
          /\ IF s[m + 1].global THEN s[m].file = Global /\ s[m].key = "sonovel_url"
             ELSE s[m].file = id
          /\ s[m - 1].do = "open"
          /\ \A j \in 1..(m - 1) : s[j].do = "rename" => s[m + 1].global
      BY <2>1 DEF Ordered, RenamesOrdered
    <2>3. i < Len(t) /\ t[i + 1] = s[m + 1]
      BY <2>2
    <2>4. i > 1 => t[i - 1] = s[m - 1]
      OBVIOUS
    <2>5. \A j \in 1..(i - 1) : j + d \in 1..(m - 1) /\ t[j] = s[j + d]
      OBVIOUS
    <2> QED  BY <2>1, <2>2, <2>3, <2>4, <2>5
  <1>2. SecondSave(t)
    <2> SUFFICES ASSUME NEW i \in 4..Len(t), t[i].do = "rename", t[i + 1].global
                 PROVE  /\ t[i - 3].do = "rename" /\ t[i - 3].value = t[i].value
                        /\ t[i - 3].key = "sonovel_url" /\ ~t[i - 2].global
      BY DEF SecondSave
    <2>1. i < Len(t)
      BY <1>1 DEF RenamesOrdered
    <2>2. /\ t[i] = s[i + d] /\ t[i + 1] = s[(i + d) + 1]
          /\ t[i - 3] = s[(i + d) - 3] /\ t[i - 2] = s[(i + d) - 2]
          /\ i + d \in 4..Len(s)
      BY <2>1
    <2> QED  BY <2>2 DEF Ordered, SecondSave
  <1>3. OthersOrdered(t)
    <2> SUFFICES ASSUME NEW i \in 1..Len(t)
                 PROVE  /\ t[i].do = "drop" /\ t[i].global => i = Len(t)
                        /\ t[i].do # "root"
      BY DEF OthersOrdered
    <2>1. t[i] = s[i + d] /\ i + d \in 1..Len(s) /\ i + d # 1
      OBVIOUS
    <2> QED  BY <2>1 DEF Ordered, OthersOrdered
  <1> QED  BY <1>1, <1>2, <1>3 DEF Ordered

(* A step that saves nothing.                                               *)
LEMMA PendingLeft ==
  ASSUME NEW s, NEW t, Left(s, t, 1), NEW id, NEW f, Ordered(s, id), s[1].do # "rename",
         Pending(s, id, f, 0)
  PROVE  Pending(t, id, f, 0)
  <1> USE DEF Left
  <1>1. GlobalFollows(t, id, f)
    <2> SUFFICES ASSUME NEW i \in 1..Len(t), i <= 3, t[i].do = "rename", t[i + 1].global
                 PROVE  f[id]["sonovel_url"] = t[i].value
      BY DEF GlobalFollows
    <2>1. Ordered(t, id)
      BY OrderedLeft
    <2>2. i < Len(t)
      BY <2>1 DEF Ordered, RenamesOrdered
    <2>3. t[i] = s[i + 1] /\ t[i + 1] = s[(i + 1) + 1] /\ i + 1 \in 1..Len(s)
      BY <2>2
    <2>4. CASE i = 3
      <3>1. s[4 - 3].do = "rename"
        <4>1. 4 \in 4..Len(s) /\ s[4].do = "rename" /\ s[4 + 1].global
          BY <2>3, <2>4
        <4> QED  BY <4>1 DEF Ordered, SecondSave
      <3> QED  BY <3>1
    <2>5. CASE i < 3
      BY <2>3, <2>5 DEF Pending, GlobalFollows
    <2> QED  BY <2>4, <2>5
  <1>2. OpenSearchSaves(t, id, f)
    <2> SUFFICES ASSUME id = Global, ~GlobalDrop(t),
                        NEW i \in 1..Len(t), t[i].do = "rename", t[i].key = "sonovel_url",
                        ~t[i + 1].global
                 PROVE  t[i].value = f[Global]["sonovel_url"]
      BY DEF OpenSearchSaves
    <2>1. Ordered(t, id)
      BY OrderedLeft
    <2>2. i < Len(t)
      BY <2>1 DEF Ordered, RenamesOrdered
    <2>3. t[i] = s[i + 1] /\ t[i + 1] = s[(i + 1) + 1] /\ i + 1 \in 1..Len(s)
      BY <2>2
    <2>4. ~GlobalDrop(s)
      <3> SUFFICES ASSUME NEW j \in 1..Len(s), s[j].do = "drop", s[j].global PROVE FALSE
        BY DEF GlobalDrop
      <3>1. j = Len(s)
        BY DEF Ordered, OthersOrdered
      <3>2. j - 1 \in 1..Len(t) /\ t[j - 1] = s[j]
        BY <3>1, <2>2
      <3> QED  BY <3>2 DEF GlobalDrop
    <2> QED  BY <2>3, <2>4 DEF Pending, OpenSearchSaves
  <1> QED  BY <1>1, <1>2 DEF Pending

(* A save.                                                                  *)
LEMMA PendingRename ==
  ASSUME NEW s, NEW t, Left(s, t, 1), NEW id \in Root, Ordered(s, id), s[1].do = "rename",
         NEW f \in [Root -> Content], NEW g,
         g = [f EXCEPT ![s[1].file][s[1].key] = s[1].value]
  PROVE  Pending(t, id, g, 0)
  <1> USE DEF Left
  <1>0. 1 \in 1..Len(s) /\ 1 < Len(s) /\ s[2].do = "drop"
    <2>1. Len(s) >= 1
      OBVIOUS
    <2> QED  BY <2>1 DEF Ordered, RenamesOrdered
  <1>1. GlobalFollows(t, id, g)
    <2> SUFFICES ASSUME NEW i \in 1..Len(t), i <= 3, t[i].do = "rename", t[i + 1].global
                 PROVE  g[id]["sonovel_url"] = t[i].value
      BY DEF GlobalFollows
    <2>1. Ordered(t, id)
      BY OrderedLeft
    <2>2. i < Len(t)
      BY <2>1 DEF Ordered, RenamesOrdered
    <2>3. t[i] = s[i + 1] /\ t[i + 1] = s[(i + 1) + 1] /\ i + 1 \in 1..Len(s)
      BY <2>2
    <2>4. s[(i + 1) - 1].do = "open"
      BY <2>3 DEF Ordered, RenamesOrdered
    <2>5. i = 3
      BY <1>0, <2>3, <2>4
    <2>6. /\ s[1].do = "rename" /\ s[1].value = t[i].value /\ s[1].key = "sonovel_url"
          /\ ~s[2].global
      <3>1. 4 \in 4..Len(s) /\ s[4].do = "rename" /\ s[4 + 1].global /\ t[i] = s[4]
        BY <2>3, <2>5
      <3>2. 4 - 3 = 1 /\ 4 - 2 = 2
        OBVIOUS
      <3> QED  BY <3>1, <3>2 DEF Ordered, SecondSave
    <2>7. s[1].file = id
      BY <1>0, <2>6 DEF Ordered, RenamesOrdered
    <2> QED  BY <2>6, <2>7 DEF Content, Key
  <1>2. OpenSearchSaves(t, id, g)
    <2> SUFFICES ASSUME NEW i \in 1..Len(t), t[i].do = "rename", ~t[i + 1].global
                 PROVE  FALSE
      BY DEF OpenSearchSaves
    <2>1. Ordered(t, id)
      BY OrderedLeft
    <2>2. i < Len(t)
      BY <2>1 DEF Ordered, RenamesOrdered
    <2>3. t[i] = s[i + 1] /\ t[i + 1] = s[(i + 1) + 1] /\ i + 1 \in 1..Len(s)
      BY <2>2
    <2>4. 1 \in 1..((i + 1) - 1)
      OBVIOUS
    <2> QED  BY <2>3, <2>4 DEF Ordered, RenamesOrdered
  <1> QED  BY <1>1, <1>2 DEF Pending

(* The calls, as they begin.                                                *)
LEMMA NoRenames ==
  ASSUME NEW s \in Seq(Step), \A i \in 1..Len(s) : s[i].do # "rename", OthersOrdered(s),
         NEW id, NEW f, NEW n
  PROVE  Ordered(s, id) /\ Pending(s, id, f, n)
  <1>1. RenamesOrdered(s, id) /\ SecondSave(s)
    <2>1. Len(s) \in Nat
      BY LenProperties
    <2> QED  BY <2>1 DEF RenamesOrdered, SecondSave
  <1>2. GlobalFollows(s, id, f) /\ OpenSearchSaves(s, id, f)
    BY DEF GlobalFollows, OpenSearchSaves
  <1> QED  BY <1>1, <1>2 DEF Ordered, Pending

(* A call that sets an address begins ordered.                              *)
LEMMA BeginSet ==
  ASSUME NEW s, NEW k \in Key, NEW v, SetCall(s, k, v), NEW f,
         k = "talebook_url" \/ v = f[Global]["sonovel_url"]
  PROVE  Ordered(s, identity) /\ Pending(s, identity, f, 0)
  <1>1. \A i \in 1..Len(s) : i \in {1, 2, 3, 4}
    BY DEF SetCall
  <1>2. /\ s[1].do = "base" /\ s[2].do = "open" /\ s[3].do = "rename" /\ s[4].do = "drop"
        /\ s[3].file = identity /\ s[3].key = k /\ s[3].value = v /\ ~s[4].global
    BY DEF SetCall
  <1>3. Len(s) = 4 /\ \A i \in 1..Len(s) : s[i].do = "rename" => i = 3
    BY <1>1, <1>2 DEF SetCall
  <1>4. RenamesOrdered(s, identity)
    BY <1>2, <1>3 DEF RenamesOrdered
  <1>5. SecondSave(s) /\ OthersOrdered(s)
    BY <1>1, <1>2, <1>3 DEF SecondSave, OthersOrdered
  <1>6. GlobalFollows(s, identity, f) /\ OpenSearchSaves(s, identity, f)
    BY <1>2, <1>3 DEF GlobalFollows, OpenSearchSaves
  <1> QED  BY <1>4, <1>5, <1>6 DEF Ordered, Pending

(* A call that sets both copies begins ordered.                             *)
LEMMA BeginApply ==
  ASSUME NEW s, NEW v, ApplyCall(s, v), NEW f
  PROVE  Ordered(s, identity) /\ Pending(s, identity, f, 0) /\ GlobalDrop(s)
  <1>1. \A i \in 1..Len(s) : i \in {1, 2, 3, 4, 5, 6, 7}
    BY DEF ApplyCall
  <1>2. /\ s[1].do = "base" /\ s[2].do = "open" /\ s[3].do = "rename" /\ s[4].do = "drop"
        /\ s[5].do = "open" /\ s[6].do = "rename" /\ s[7].do = "drop"
        /\ s[3].file = identity /\ s[3].key = "sonovel_url" /\ s[3].value = v /\ ~s[4].global
        /\ s[6].file = Global /\ s[6].key = "sonovel_url" /\ s[6].value = v /\ s[7].global
    BY DEF ApplyCall
  <1>3. Len(s) = 7 /\ \A i \in 1..Len(s) : s[i].do = "rename" => i = 3 \/ i = 6
    BY <1>1, <1>2 DEF ApplyCall
  <1>4. RenamesOrdered(s, identity)
    <2> SUFFICES ASSUME NEW i \in 1..Len(s), i = 3 \/ i = 6
                 PROVE  /\ i < Len(s) /\ s[i + 1].do = "drop"
                        /\ IF s[i + 1].global THEN s[i].file = Global /\ s[i].key = "sonovel_url"
                           ELSE s[i].file = identity
                        /\ i > 1 => s[i - 1].do = "open"
                        /\ \A j \in 1..(i - 1) : s[j].do = "rename" => s[i + 1].global
      BY <1>3 DEF RenamesOrdered
    <2>1. CASE i = 3
      BY <1>2, <1>3, <2>1
    <2>2. CASE i = 6
      BY <1>2, <1>3, <2>2
    <2> QED  BY <2>1, <2>2
  <1>5. SecondSave(s)
    <2> SUFFICES ASSUME NEW i \in 4..Len(s), i = 6
                 PROVE  /\ s[i - 3].do = "rename" /\ s[i - 3].value = s[i].value
                        /\ s[i - 3].key = "sonovel_url" /\ ~s[i - 2].global
      BY <1>3 DEF SecondSave
    <2>1. i - 3 = 3 /\ i - 2 = 4
      OBVIOUS
    <2> QED  BY <1>2, <2>1
  <1>6. OthersOrdered(s)
    BY <1>1, <1>2, <1>3 DEF OthersOrdered
  <1>7. GlobalDrop(s)
    BY <1>2, <1>3 DEF GlobalDrop
  <1>8. GlobalFollows(s, identity, f)
    BY <1>2, <1>3 DEF GlobalFollows
  <1>9. OpenSearchSaves(s, identity, f)
    BY <1>7 DEF OpenSearchSaves
  <1> QED  BY <1>4, <1>5, <1>6, <1>7, <1>8, <1>9 DEF Ordered, Pending

(* Every other call begins ordered.                                         *)
LEMMA BeginOthers ==
  ASSUME NEW s, NEW r, NEW p, RootCall(s, r) \/ PrefsCall(s, p) \/ s = <<>>, NEW id, NEW f, NEW n
  PROVE  Ordered(s, id) /\ Pending(s, id, f, n)
  <1>1. CASE RootCall(s, r)
    <2>1. \A i \in 1..Len(s) : i \in {1, 2, 3}
      BY <1>1 DEF RootCall
    <2>2. OthersOrdered(s)
      BY <1>1, <2>1 DEF RootCall, OthersOrdered
    <2>3. \A i \in 1..Len(s) : s[i].do # "rename"
      BY <1>1, <2>1 DEF RootCall
    <2> QED  BY <1>1, <2>2, <2>3, NoRenames DEF RootCall
  <1>2. CASE PrefsCall(s, p)
    <2>1. \A i \in 1..Len(s) : i \in {1, 2}
      BY <1>2 DEF PrefsCall
    <2>2. OthersOrdered(s)
      BY <1>2, <2>1 DEF PrefsCall, OthersOrdered
    <2>3. \A i \in 1..Len(s) : s[i].do # "rename"
      BY <1>2, <2>1 DEF PrefsCall
    <2> QED  BY <1>2, <2>2, <2>3, NoRenames DEF PrefsCall
  <1>3. CASE s = <<>>
    <2>1. s \in Seq(Step) /\ Len(s) = 0
      BY <1>3
    <2>2. OthersOrdered(s) /\ \A i \in 1..Len(s) : s[i].do # "rename"
      BY <2>1 DEF OthersOrdered
    <2> QED  BY <2>1, <2>2, NoRenames
  <1> QED  BY <1>1, <1>2, <1>3

(* What is left after a step, and after a save that failed.                 *)
LEMMA TailLeft ==
  ASSUME NEW s \in Seq(Step), s # <<>>
  PROVE  Left(s, Tail(s), 1) /\ Head(s) = s[1] /\ s[1] \in Step
  <1>1. /\ Tail(s) \in Seq(Step)
        /\ Len(s) \in Nat /\ Len(s) >= 1
        /\ Len(Tail(s)) = Len(s) - 1
        /\ \A n \in 1..Len(Tail(s)) : Tail(s)[n] = s[n + 1]
    BY TailSteps, Zenon
  <1>2. Head(s) = s[1] /\ s[1] \in Step
    BY TailSteps, Zenon
  <1> DEFINE t == Tail(s)
  <1> HIDE DEF t
  <1>3. /\ t \in Seq(Step) /\ Len(s) \in Nat /\ Len(s) >= 1 /\ Len(t) = Len(s) - 1
        /\ \A n \in 1..Len(t) : t[n] = s[n + 1]
    BY <1>1, Zenon DEF t
  <1>4. Left(s, t, 1)
    BY <1>3 DEF Left
  <1> QED  BY <1>2, <1>4 DEF t

(* A failed write leaves an ordered call.                                   *)
LEMMA FailedLeft ==
  ASSUME NEW s \in Seq(Step), NEW t, t = SubSeq(s, 3, Len(s)), Len(s) >= 2
  PROVE  Left(s, t, 2)
  <1>1. s # <<>> /\ Len(s) \in Nat
    BY EmptySeq, LenProperties
  <1>2. t \in Seq(Step) /\ \A n \in 1..Len(t) : t[n] = s[n + 2]
    BY <1>1, FailedSteps
  <1>3. Len(t) \in Nat /\ Len(s) = Len(t) + 2
    <2>1. Len(t) = IF Len(s) < 3 THEN 0 ELSE Len(s) - 2
      BY <1>1, FailedSteps, Zenon
    <2>2. \A l \in Nat : l >= 2 =>
            (IF l < 3 THEN 0 ELSE l - 2) \in Nat /\ l = (IF l < 3 THEN 0 ELSE l - 2) + 2
      OBVIOUS
    <2> QED  BY <1>1, <2>1, <2>2, Zenon
  <1> QED  BY <1>1, <1>2, <1>3, Zenon DEF Left

(* A step that is no drop of the global cache leaves such a drop to come.   *)
LEMMA GlobalDropLeft ==
  ASSUME NEW s, NEW t, Left(s, t, 1), ~(s[1].do = "drop" /\ s[1].global), ~GlobalDrop(t)
  PROVE  ~GlobalDrop(s)
  <1> SUFFICES ASSUME NEW i \in 1..Len(s), s[i].do = "drop", s[i].global PROVE FALSE
    BY DEF GlobalDrop
  <1>1. i - 1 \in 1..Len(t) /\ t[i - 1] = s[(i - 1) + 1]
    BY DEF Left
  <1>2. (i - 1) + 1 = i
    OBVIOUS
  <1> QED  BY <1>1, <1>2 DEF GlobalDrop

-----------------------------------------------------------------------------
(* The caches agree with the files at start.                                *)
LEMMA CachesInit == Init => CachesInv
  <1> SUFFICES ASSUME Init PROVE CachesInv
    OBVIOUS
  <1>1. Ordered(todo, identity) /\ Pending(todo, identity, file, failures)
    BY BeginOthers DEF Init
  <1>2. ~cache.valid /\ ~gcache.valid
    BY NoCacheType DEF Init
  <1> QED  BY <1>1, <1>2 DEF CachesInv, CacheHolds, GlobalHolds

(* Every step keeps the caches in step with the files and the calls.        *)
LEMMA CachesNext == TypeInv /\ CachesInv /\ [Next]_vars => CachesInv'
  <1> SUFFICES ASSUME TypeInv, CachesInv, [Next]_vars PROVE CachesInv'
    OBVIOUS
  <1>1. /\ identity \in Root /\ file \in [Root -> Content] /\ todo \in Seq(Step)
        /\ cache \in Cache /\ gcache \in Cache /\ failures \in Nat /\ Global \in Root
    BY ConstantsOK DEF TypeInv, TypeOK
  <1>2. /\ Ordered(todo, identity)
        /\ Pending(todo, identity, file, failures)
        /\ CacheHolds(todo, identity, cache, file, failures)
        /\ GlobalHolds(todo, gcache, file, failures)
    BY DEF CachesInv
  \* The first step of a call.
  <1>3. ASSUME NEW s, Begin(s), Ordered(s, identity), Pending(s, identity, file, failures),
               UNCHANGED <<identity, file, cache, failures>>,
               gcache' = gcache \/ gcache' = Loaded(gcache, Global)
        PROVE  CachesInv'
    <2>1. todo = <<>> /\ todo' = s
      BY <1>3 DEF Begin
    <2>2. CacheHolds(s, identity, cache, file, failures)
      BY <1>2, <2>1 DEF CacheHolds
    <2>3. ~GlobalDrop(todo)
      BY <2>1 DEF GlobalDrop
    <2>4. gcache.valid /\ failures = 0 =>
            gcache.fields["sonovel_url"] = file[Global]["sonovel_url"]
      BY <1>2, <2>3 DEF GlobalHolds
    <2>5. failures = 0 => gcache'.fields["sonovel_url"] = file[Global]["sonovel_url"] \/ ~gcache'.valid
      BY <1>1, <1>3, <2>4, LoadedType
    <2>6. GlobalHolds(s, gcache', file, failures)
      BY <2>5 DEF GlobalHolds
    <2> QED  BY <1>3, <2>1, <2>2, <2>6 DEF CachesInv
  <1>4. ASSUME NEW r \in Root, SetIdentityDir(r) PROVE CachesInv'
    <2> DEFINE s == << [do |-> "root", root |-> r], [do |-> "drop", global |-> FALSE],
                       [do |-> "refresh"] >>
    <2>1. Ordered(s, identity) /\ Pending(s, identity, file, failures)
      <3>1. RootCall(s, r)
        BY RootSteps
      <3> QED  BY <3>1, BeginOthers
    <2>2. Begin(s)
      BY <1>4 DEF SetIdentityDir
    <2> QED  BY <1>3, <1>4, <2>1, <2>2 DEF SetIdentityDir
  <1>5. ASSUME NEW v \in Url, SetTalebookUrl(v) PROVE CachesInv'
    <2> DEFINE s == SetBaseUrl("talebook_url", v)
    <2>1. SetCall(s, "talebook_url", v) /\ "talebook_url" \in Key
      BY <1>1, SetSteps DEF Key
    <2>2. Ordered(s, identity) /\ Pending(s, identity, file, 0)
      BY <2>1, BeginSet
    <2>3. Pending(s, identity, file, failures)
      BY <2>2 DEF Pending
    <2> QED  BY <1>3, <1>5, <2>2, <2>3 DEF SetTalebookUrl
  <1>6. ASSUME NEW v \in Url, ApplySonovelUrl(v) PROVE CachesInv'
    <2> DEFINE s == SetBaseUrl("sonovel_url", v) \o WriteSecureGlobal("sonovel_url", v)
    <2>1. ApplyCall(s, v)
      BY <1>1, ApplySteps
    <2>2. Ordered(s, identity) /\ Pending(s, identity, file, 0)
      BY <2>1, BeginApply
    <2>3. Pending(s, identity, file, failures)
      BY <2>2 DEF Pending
    <2> QED  BY <1>3, <1>6, <2>2, <2>3 DEF ApplySonovelUrl
  <1>7. CASE OpenSearch
    <2> DEFINE v == Loaded(gcache, Global).fields["sonovel_url"]
               s == SetBaseUrl("sonovel_url", v)
    <2>1. v \in Url
      BY <1>1, <1>7, LoadedType DEF OpenSearch, Cache, Content, Field, Key
    <2>2. SetCall(s, "sonovel_url", v) /\ "sonovel_url" \in Key
      BY <1>1, <2>1, SetSteps DEF Key
    <2>3. Begin(s)
      BY <1>7 DEF OpenSearch
    <2>4. ~GlobalDrop(todo)
      BY <2>3 DEF Begin, GlobalDrop
    <2>5. failures = 0 => v = file[Global]["sonovel_url"]
      BY <1>1, <1>2, <2>4, LoadedType DEF GlobalHolds
    <2> HIDE DEF v
    <2>6. failures = 0 => Ordered(s, identity) /\ Pending(s, identity, file, 0)
      BY <2>2, <2>5, BeginSet
    <2>7. Ordered(s, identity)
      <3> DEFINE f == [r \in Root |-> [k \in Key |-> v]]
      <3>1. v = f[Global]["sonovel_url"]
        BY <1>1 DEF Key
      <3> HIDE DEF f
      <3> QED  BY <2>2, <3>1, BeginSet
    <2>8. Pending(s, identity, file, failures)
      BY <2>6 DEF Pending
    <2> QED  BY <1>3, <1>7, <2>3, <2>7, <2>8 DEF OpenSearch
  <1>8. CASE ReadPref
    BY <1>2, <1>8 DEF ReadPref, CachesInv
  <1>9. ASSUME NEW p \in Pref, SetPref(p) PROVE CachesInv'
    <2>1. PrefsCall(WritePref(p), p)
      BY PrefSteps
    <2>2. Ordered(WritePref(p), identity) /\ Pending(WritePref(p), identity, file, failures)
      BY <2>1, BeginOthers
    <2> QED  BY <1>3, <1>9, <2>2 DEF SetPref
  \* The steps of a call.
  <1>10. ASSUME todo # <<>>
         PROVE  /\ Left(todo, Tail(todo), 1) /\ Head(todo) = todo[1]
                /\ 1 \in 1..Len(todo)
                /\ Ordered(Tail(todo), identity)
    <2>1. Left(todo, Tail(todo), 1) /\ Head(todo) = todo[1]
      BY <1>1, <1>10, TailLeft
    <2>2. 1 \in 1..Len(todo)
      BY <2>1 DEF Left
    <2>3. Ordered(Tail(todo), identity)
      BY <1>2, <2>1, OrderedLeft
    <2> QED  BY <2>1, <2>2, <2>3
  <1>11. ASSUME todo # <<>>, Head(todo).do # "rename"
         PROVE  Pending(Tail(todo), identity, file, failures)
    <2>1. CASE failures = 0
      BY <1>2, <1>10, <1>11, <2>1, PendingLeft
    <2>2. CASE failures # 0
      BY <2>2 DEF Pending
    <2> QED  BY <2>1, <2>2
  <1>12. ASSUME todo # <<>>, ~(Head(todo).do = "drop" /\ Head(todo).global)
         PROVE  GlobalHolds(Tail(todo), gcache, file, failures)
    <2>1. ~GlobalDrop(Tail(todo)) => ~GlobalDrop(todo)
      BY <1>10, <1>12, GlobalDropLeft
    <2> QED  BY <1>2, <2>1 DEF GlobalHolds
  <1>13. ASSUME todo # <<>>, ~(Head(todo).do = "drop" /\ ~Head(todo).global), NEW s
         PROVE  CacheHolds(s, identity, cache, file, failures)
    BY <1>2, <1>13 DEF CacheHolds
  <1>14. ASSUME todo # <<>>, Head(todo).do \notin {"root", "drop", "rename"}, todo' = Tail(todo),
                UNCHANGED <<identity, file, failures>>,
                cache' = cache \/ cache' = Loaded(cache, identity),
                gcache' = gcache \/ gcache' = Loaded(gcache, Global)
         PROVE  CachesInv'
    <2>1. CacheHolds(Tail(todo), identity, cache', file, failures)
      <3>1. CASE cache' = cache
        BY <1>13, <1>14, <3>1
      <3>2. CASE cache' # cache
        <4>1. cache' = Loaded(cache, identity) /\ ~cache.valid
          BY <1>1, <1>14, <3>2, LoadedType
        <4>2. cache'.fields = file[identity]
          BY <1>1, <4>1, LoadedType
        <4> QED  BY <4>2 DEF CacheHolds
      <3> QED  BY <3>1, <3>2
    <2>2. GlobalHolds(Tail(todo), gcache', file, failures)
      <3>1. CASE gcache' = gcache
        BY <1>12, <1>14, <3>1
      <3>2. CASE gcache' # gcache
        <4>1. gcache' = Loaded(gcache, Global) /\ ~gcache.valid
          BY <1>1, <1>14, <3>2, LoadedType
        <4>2. gcache'.fields = file[Global]
          BY <1>1, <4>1, LoadedType
        <4> QED  BY <4>2 DEF GlobalHolds
      <3> QED  BY <3>1, <3>2
    <2> QED  BY <1>10, <1>11, <1>14, <2>1, <2>2 DEF CachesInv
  <1>15. CASE StepRoot
    <2> DEFINE t == Tail(todo)
    <2>1. /\ todo # <<>> /\ Head(todo).do = "root" /\ todo' = t
          /\ UNCHANGED <<file, cache, gcache, failures>>
      BY <1>15 DEF StepRoot, At
    <2>2. /\ Len(todo) = 3 /\ todo[2] = [do |-> "drop", global |-> FALSE]
          /\ todo[3].do = "refresh"
      BY <1>2, <1>10, <2>1 DEF Ordered, OthersOrdered
    <2>3. t \in Seq(Step) /\ Len(t) = 2 /\ t[1] = todo[2] /\ t[2] = todo[3]
      <3>1. Left(todo, t, 1)
        BY <1>10, <2>1
      <3> HIDE DEF t
      <3>2. t \in Seq(Step) /\ Len(t) \in Nat /\ 3 = Len(t) + 1
        BY <2>2, <3>1, Zenon DEF Left
      <3>3. Len(t) = 2
        <4>1. \A n \in Nat : 3 = n + 1 => n = 2
          OBVIOUS
        <4> QED  BY <3>2, <4>1, Zenon
      <3>4. t[1] = todo[2] /\ t[2] = todo[3]
        <4>1. 1 \in 1..2 /\ 2 \in 1..2 /\ 1 + 1 = 2 /\ 2 + 1 = 3
          OBVIOUS
        <4>2. t[1] = todo[1 + 1] /\ t[2] = todo[2 + 1]
          BY <3>1, <3>3, <4>1, Zenon DEF Left
        <4> QED  BY <4>1, <4>2, Zenon
      <3> QED  BY <3>2, <3>3, <3>4
    <2> HIDE DEF t
    <2>4. Ordered(t, identity') /\ Pending(t, identity', file, failures)
      <3>1. \A i \in 1..Len(t) : i \in {1, 2}
        BY <2>3
      <3>2. t[1].do = "drop" /\ ~t[1].global /\ t[2].do = "refresh"
        BY <2>2, <2>3
      <3>3. OthersOrdered(t) /\ \A i \in 1..Len(t) : t[i].do # "rename"
        BY <3>1, <3>2 DEF OthersOrdered
      <3> QED  BY <2>3, <3>3, NoRenames
    <2>5. CacheHolds(t, identity', cache, file, failures)
      <3>1. t # <<>> /\ Head(t) = t[1]
        <4>1. t # <<>>
          BY <2>3, EmptySeq
        <4> QED  BY <2>3, <4>1, TailLeft
      <3> QED  BY <2>2, <2>3, <3>1 DEF CacheHolds
    <2>6. GlobalHolds(t, gcache, file, failures)
      BY <1>12, <2>1 DEF t
    <2> QED  BY <2>1, <2>4, <2>5, <2>6 DEF CachesInv
  <1>16. CASE StepDrop
    <2>1. /\ todo # <<>> /\ Head(todo).do = "drop" /\ todo' = Tail(todo)
          /\ UNCHANGED <<identity, file, failures>>
      BY <1>16 DEF StepDrop, At
    <2>2. Ordered(Tail(todo), identity) /\ Pending(Tail(todo), identity, file, failures)
      BY <1>10, <1>11, <2>1
    <2>3. CASE Head(todo).global
      <3>1. CacheHolds(Tail(todo), identity, cache, file, failures)
        BY <1>13, <2>1, <2>3
      <3>2. GlobalHolds(Tail(todo), NoCache, file, failures)
        BY NoCacheType DEF GlobalHolds
      <3>3. gcache' = NoCache /\ cache' = cache
        BY <1>16, <2>3 DEF StepDrop
      <3> QED  BY <2>1, <2>2, <3>1, <3>2, <3>3 DEF CachesInv
    <2>4. CASE ~Head(todo).global
      <3>1. CacheHolds(Tail(todo), identity, NoCache, file, failures)
        BY NoCacheType DEF CacheHolds
      <3>2. GlobalHolds(Tail(todo), gcache, file, failures)
        BY <1>12, <2>1, <2>4
      <3>3. gcache' = gcache /\ cache' = NoCache
        BY <1>16, <2>4 DEF StepDrop
      <3> QED  BY <2>1, <2>2, <3>1, <3>2, <3>3 DEF CachesInv
    <2> QED  BY <2>3, <2>4
  <1>17. CASE StepRefresh
    BY <1>14, <1>17 DEF StepRefresh, At
  <1>18. CASE StepBase \/ StepPrefSave \/ StepPrefSwap
    BY <1>14, <1>18 DEF StepBase, StepPrefSave, StepPrefSwap, At
  <1>19. CASE StepOpen
    BY <1>14, <1>19 DEF StepOpen, At, WhileWriting
  <1>20. CASE StepRename
    <2> DEFINE t == Tail(todo)
               h == todo[1]
    <2>1. /\ todo # <<>> /\ h.do = "rename" /\ todo' = t
          /\ file' = [file EXCEPT ![h.file][h.key] = h.value]
          /\ UNCHANGED <<identity, cache, gcache, failures>>
      BY <1>10, <1>20 DEF StepRename, At
    <2>2. Left(todo, t, 1) /\ 1 \in 1..Len(todo) /\ Ordered(t, identity)
      BY <1>10, <2>1
    <2>3. h.file \in Root /\ h.key \in Key /\ h.value \in Url
      BY <1>1, <2>1, TailLeft, StepKinds
    <2> HIDE DEF t
    <2>4. Pending(t, identity, file', failures)
      <3>1. Pending(t, identity, file', 0)
        BY <1>1, <1>2, <2>1, <2>2, PendingRename
      <3> QED  BY <3>1 DEF Pending
    <2>5. /\ 1 < Len(todo) /\ todo[1 + 1].do = "drop"
          /\ IF todo[1 + 1].global THEN h.file = Global /\ h.key = "sonovel_url"
             ELSE h.file = identity
      BY <1>2, <2>1, <2>2 DEF Ordered, RenamesOrdered
    <2>6. /\ t[1] = todo[2] /\ Head(t) = t[1] /\ t # <<>> /\ 1 \in 1..Len(t)
          /\ todo[2].do = "drop"
          /\ IF todo[2].global THEN h.file = Global /\ h.key = "sonovel_url"
             ELSE h.file = identity
      <3>1. 1 \in 1..Len(t) /\ t \in Seq(Step)
        BY <2>2, <2>5 DEF Left
      <3>2. 1 + 1 = 2
        OBVIOUS
      <3>3. t[1] = todo[2]
        BY <2>2, <3>1, <3>2 DEF Left
      <3>4. t # <<>>
        BY <3>1, EmptySeq
      <3>5. Head(t) = t[1]
        BY <3>1, <3>4, TailLeft
      <3> QED  BY <2>5, <3>1, <3>2, <3>3, <3>4, <3>5, Zenon
    <2>7. /\ \A r \in Root, k \in Key :
               r # h.file \/ k # h.key => file'[r][k] = file[r][k]
          /\ file'[h.file][h.key] = h.value
      BY <1>1, <2>1, <2>3 DEF Content
    <2> HIDE DEF h
    <2>8. CacheHolds(t, identity, cache, file', failures)
      <3>1. CASE ~todo[2].global
        BY <2>6, <3>1 DEF CacheHolds
      <3>2. CASE todo[2].global
        <4> SUFFICES ASSUME cache.valid, cache.from = identity,
                            NEW k \in Key, k = "talebook_url" \/ failures = 0
                     PROVE  cache.fields[k] = file'[identity][k]
          BY DEF CacheHolds
        <4>1. cache.fields[k] = file[identity][k]
          <5>1. Head(todo).do = "rename"
            BY <1>10, <2>1 DEF h
          <5> QED  BY <1>2, <5>1 DEF CacheHolds
        <4>2. CASE identity # h.file \/ k # h.key
          BY <1>1, <2>7, <4>1, <4>2
        <4>3. CASE identity = h.file /\ k = h.key
          <5>1. failures = 0 /\ k = "sonovel_url"
            BY <2>6, <3>2, <4>3
          <5>2. file[identity]["sonovel_url"] = h.value
            <6>1. GlobalFollows(todo, identity, file)
              BY <1>2, <5>1 DEF Pending
            <6>2. 1 <= 3 /\ todo[1 + 1].global
              BY <3>2
            <6> QED  BY <2>1, <2>2, <6>1, <6>2 DEF GlobalFollows, h
          <5> QED  BY <2>7, <4>1, <4>3, <5>1, <5>2
        <4> QED  BY <4>2, <4>3
      <3> QED  BY <3>1, <3>2
    <2>9. GlobalHolds(t, gcache, file', failures)
      <3>1. CASE todo[2].global
        <4>1. GlobalDrop(t)
          BY <2>6, <3>1 DEF GlobalDrop
        <4> QED  BY <4>1 DEF GlobalHolds
      <3>2. CASE ~todo[2].global
        <4> SUFFICES ASSUME gcache.valid, failures = 0, ~GlobalDrop(t)
                     PROVE  gcache.fields["sonovel_url"] = file'[Global]["sonovel_url"]
          BY DEF GlobalHolds
        <4>1. ~GlobalDrop(todo)
          BY <2>1, <2>2, GlobalDropLeft DEF h
        <4>2. gcache.fields["sonovel_url"] = file[Global]["sonovel_url"]
          BY <1>2, <4>1 DEF GlobalHolds
        <4>3. CASE Global # h.file \/ "sonovel_url" # h.key
          BY <1>1, <2>7, <4>2, <4>3 DEF Key
        <4>4. CASE Global = h.file /\ "sonovel_url" = h.key
          <5>1. identity = Global /\ OpenSearchSaves(todo, identity, file)
            BY <1>2, <2>6, <3>2, <4>4 DEF Pending
          <5>2. ~todo[1 + 1].global
            BY <3>2
          <5>3. h.value = file[Global]["sonovel_url"]
            BY <2>1, <2>2, <4>1, <4>4, <5>1, <5>2 DEF OpenSearchSaves, h
          <5> QED  BY <2>7, <4>2, <4>4, <5>3
        <4> QED  BY <4>3, <4>4
      <3> QED  BY <3>1, <3>2
    <2> QED  BY <2>1, <2>2, <2>4, <2>8, <2>9 DEF CachesInv
  <1>21. CASE StepFails
    <2>1. /\ todo # <<>> /\ Head(todo).do \in {"rename", "prefsave"}
          /\ UNCHANGED <<identity, file, cache, gcache>>
          /\ failures' = failures + 1
      BY <1>21 DEF StepFails, At
    <2>2. failures' # 0
      BY <1>1, <2>1
    <2>3. Ordered(todo', identity)
      <3>1. CASE At("rename")
        <4>1. todo' = SubSeq(todo, 3, Len(todo))
          BY <1>21, <3>1 DEF StepFails, At
        <4>2. 1 < Len(todo) /\ Len(todo) \in Nat
          <5>1. todo[1].do = "rename" /\ 1 \in 1..Len(todo) /\ Len(todo) \in Nat
            BY <1>10, <2>1, <3>1 DEF At, Left
          <5> QED  BY <1>2, <5>1 DEF Ordered, RenamesOrdered
        <4>3. Len(todo) >= 2
          BY <4>2
        <4>4. Left(todo, SubSeq(todo, 3, Len(todo)), 2)
          BY <1>1, <4>3, FailedLeft
        <4>5. Ordered(SubSeq(todo, 3, Len(todo)), identity)
          BY <1>2, <4>4, OrderedLeft
        <4> QED  BY <4>1, <4>5
      <3>2. CASE At("prefsave")
        <4>1. todo' = <<>>
          BY <1>21, <3>2 DEF StepFails, At
        <4> QED  BY <4>1, BeginOthers
      <3> QED  BY <1>21, <3>1, <3>2 DEF StepFails
    <2>4. CacheHolds(todo', identity, cache, file, failures')
      <3>1. CacheHolds(todo', identity, cache, file, failures)
        BY <1>13, <2>1
      <3> QED  BY <1>2, <2>1, <2>2 DEF CacheHolds
    <2>5. Pending(todo', identity, file, failures') /\ GlobalHolds(todo', gcache, file, failures')
      BY <2>2 DEF Pending, GlobalHolds
    <2> QED  BY <2>1, <2>3, <2>4, <2>5 DEF CachesInv
  \* The worker threads.
  <1>22. ASSUME NEW w \in Worker, ReadSecure(w) PROVE CachesInv'
    <2> DEFINE p == worker[w].path
    <2>1. p \in Root
      BY DEF TypeInv, TypeOK
    <2>2. cache' = Loaded(cache, p) /\ UNCHANGED <<identity, file, todo, gcache, failures>>
      BY <1>22 DEF ReadSecure, jsVars
    <2> HIDE DEF p
    <2>3. CacheHolds(todo, identity, cache', file, failures)
      <3>1. CASE cache.valid
        <4>1. cache' = cache
          BY <1>1, <2>1, <2>2, <3>1, LoadedType
        <4> QED  BY <1>2, <4>1
      <3>2. CASE ~cache.valid
        <4>1. cache'.from = p /\ cache'.fields = file[p]
          BY <1>1, <2>1, <2>2, <3>2, LoadedType
        <4> QED  BY <4>1 DEF CacheHolds
      <3> QED  BY <3>1, <3>2
    <2> QED  BY <1>2, <2>2, <2>3 DEF CachesInv
  <1>23. ASSUME NEW w \in Worker, (\E k \in Key : EvaluatePath(w, k)) \/ SendTo(w) \/ Answered(w)
         PROVE  CachesInv'
    BY <1>2, <1>23 DEF EvaluatePath, SendTo, Answered, jsVars, CachesInv
  <1>24. CASE Restart
    <2>1. todo' = <<>> /\ cache' = NoCache /\ gcache' = NoCache
      BY <1>24 DEF Restart
    <2>2. Ordered(todo', identity') /\ Pending(todo', identity', file', failures')
      BY <2>1, BeginOthers
    <2>3. CacheHolds(todo', identity', cache', file', failures')
      BY <2>1, NoCacheType DEF CacheHolds
    <2>4. GlobalHolds(todo', gcache', file', failures')
      BY <2>1, NoCacheType DEF GlobalHolds
    <2> QED  BY <2>2, <2>3, <2>4 DEF CachesInv
  <1>25. CASE UNCHANGED vars
    BY <1>2, <1>25 DEF vars, jsVars, CachesInv
  <1> QED
    BY <1>4, <1>5, <1>6, <1>7, <1>8, <1>9, <1>15, <1>16, <1>17, <1>18, <1>19, <1>20, <1>21,
       <1>22, <1>23, <1>24, <1>25
    DEF Next

(* The two caches agree with their files whenever they are used: however    *)
(* the reads of worker threads fall between the steps of a save or of an    *)
(* account switch, and whichever write fails (readSecure, writeSecure and   *)
(* setIdentityDir of json_store.cpp).                                       *)
THEOREM CachesAreCurrent == Spec => []CachesCurrent
  <1>1. Init => CachesInv  BY CachesInit
  <1>2. TypeInv /\ CachesInv /\ [Next]_vars => CachesInv'  BY CachesNext
  <1>3. TypeInv /\ CachesInv => CachesCurrent
    <2> SUFFICES ASSUME TypeInv, CachesInv PROVE CachesCurrent
      OBVIOUS
    <2>1. CacheCurrent
      BY DEF CachesInv, CacheHolds, CacheCurrent, At
    <2>2. GlobalCacheCurrent
      <3>1. DOMAIN todo = 1..Len(todo)
        BY LenProperties DEF TypeInv
      <3> QED  BY <3>1 DEF CachesInv, GlobalHolds, GlobalDrop, GlobalCacheCurrent
    <2> QED  BY <2>1, <2>2 DEF CachesCurrent
  <1> QED  BY <1>1, <1>2, <1>3, TypesHold, PTL DEF Spec

-----------------------------------------------------------------------------
(* A read between its path and its lock never sees the root move: what      *)
(* readSecure would have if it evaluated securePath() under secureMutex_.   *)
PathsCurrent == \A w \in Worker : worker[w].pc = "path" => worker[w].path = identity

(* The cache is that of the identity root, except where a call is about to  *)
(* invalidate it, and a request that nothing disturbed has the address of   *)
(* the root's file.                                                         *)
CacheOfRoot == cache.valid /\ ~(At("drop") /\ ~Head(todo).global) => cache.from = identity

Undisturbed(w) ==
  worker[w].quiet /\ worker[w].pc # "idle" =>
    /\ todo = <<>>
    /\ worker[w].pc # "path" /\ worker[w].key = "talebook_url" =>
         worker[w].got = file[identity]["talebook_url"]

RootInv == CacheOfRoot /\ \A w \in Worker : Undisturbed(w)

-----------------------------------------------------------------------------
\* A call begins: no worker that runs stays undisturbed.
LEMMA BeginKeepsRoot ==
  ASSUME TypeInv, RootInv, NEW s, Begin(s), UNCHANGED <<identity, file, cache>>
  PROVE  RootInv'
  <1>1. /\ todo = <<>>
        /\ \A w \in Worker : ~worker'[w].quiet
    BY DEF Begin, TypeInv, TypeOK
  <1>2. CacheOfRoot'
    BY <1>1 DEF RootInv, CacheOfRoot, At
  <1> QED  BY <1>1, <1>2 DEF RootInv, Undisturbed

\* A step of a call: no worker that runs is undisturbed.
LEMMA StepKeepsRoot ==
  ASSUME TypeInv, RootInv, todo # <<>>, worker' = worker, CacheOfRoot'
  PROVE  RootInv'
  BY DEF RootInv, Undisturbed

LEMMA RootNext == TypeInv /\ CachesInv /\ RootInv /\ PathsCurrent /\ [Next]_vars => RootInv'
  <1> SUFFICES ASSUME TypeInv, CachesInv, RootInv, PathsCurrent, [Next]_vars PROVE RootInv'
    OBVIOUS
  <1>1. /\ todo \in Seq(Step) /\ identity \in Root /\ cache \in Cache /\ file \in [Root -> Content]
        /\ worker \in [Worker -> [pc : {"idle", "path", "read", "sent"}, key : Key, path : Root,
                                  got : Field, quiet : BOOLEAN]]
    BY DEF TypeInv, TypeOK
  <1>2. ~NoCache.valid
    BY NoCacheType
  \* The calls.
  <1>3. ASSUME NEW r \in Root, SetIdentityDir(r) PROVE RootInv'
    BY <1>3, BeginKeepsRoot DEF SetIdentityDir
  <1>4. ASSUME NEW v \in Url, SetTalebookUrl(v) PROVE RootInv'
    BY <1>4, BeginKeepsRoot DEF SetTalebookUrl
  <1>5. ASSUME NEW v \in Url, ApplySonovelUrl(v) PROVE RootInv'
    BY <1>5, BeginKeepsRoot DEF ApplySonovelUrl
  <1>6. CASE OpenSearch
    BY <1>6, BeginKeepsRoot DEF OpenSearch
  <1>7. CASE ReadPref
    BY <1>7 DEF ReadPref, RootInv, CacheOfRoot, Undisturbed, At
  <1>8. ASSUME NEW p \in Pref, SetPref(p) PROVE RootInv'
    BY <1>8, BeginKeepsRoot DEF SetPref
  \* The steps of a call.
  <1>9. CASE StepRoot
    <2>1. todo # <<>> /\ Head(todo).do = "root" /\ todo' = Tail(todo) /\ UNCHANGED <<cache, worker>>
      BY <1>9 DEF StepRoot, At
    <2>2. Left(todo, Tail(todo), 1) /\ Head(todo) = todo[1]
      BY <1>1, <2>1, TailLeft
    <2>3. /\ Len(todo) = 3 /\ todo[2] = [do |-> "drop", global |-> FALSE]
      <3>1. 1 \in 1..Len(todo)
        BY <2>2 DEF Left
      <3> QED  BY <2>1, <2>2, <3>1 DEF CachesInv, Ordered, OthersOrdered
    <2>4. Tail(todo) # <<>> /\ Head(Tail(todo)) = todo[2]
      <3> DEFINE t == Tail(todo)
      <3>1. t \in Seq(Step) /\ Len(t) = 2 /\ t[1] = todo[2]
        <4>1. Left(todo, t, 1)
          BY <2>2
        <4> HIDE DEF t
        <4>2. t \in Seq(Step) /\ Len(t) \in Nat /\ 3 = Len(t) + 1
          BY <2>3, <4>1, Zenon DEF Left
        <4>3. Len(t) = 2 /\ 1 \in 1..2 /\ 1 + 1 = 2
          <5>1. (\A n \in Nat : 3 = n + 1 => n = 2) /\ 1 \in 1..2 /\ 1 + 1 = 2
            OBVIOUS
          <5> QED  BY <4>2, <5>1, Zenon
        <4>4. t[1] = todo[1 + 1]
          BY <4>1, <4>3, Zenon DEF Left
        <4> QED  BY <4>2, <4>3, <4>4, Zenon
      <3> HIDE DEF t
      <3>2. t # <<>>
        BY <3>1, EmptySeq
      <3>3. Head(t) = t[1]
        BY <3>1, <3>2, TailLeft
      <3> QED  BY <3>1, <3>2, <3>3 DEF t
    <2>5. CacheOfRoot'
      BY <2>1, <2>3, <2>4 DEF CacheOfRoot, At
    <2> QED  BY <2>1, <2>5, StepKeepsRoot
  <1>10. CASE StepDrop
    <2>1. todo # <<>> /\ worker' = worker /\ identity' = identity
      BY <1>10 DEF StepDrop, At
    <2>2. CacheOfRoot'
      BY <1>2, <1>10 DEF StepDrop, RootInv, CacheOfRoot, At
    <2> QED  BY <2>1, <2>2, StepKeepsRoot
  <1>11. CASE StepRefresh
    <2>1. todo # <<>> /\ worker' = worker /\ identity' = identity /\ cache' = Loaded(cache, identity)
          /\ Head(todo).do = "refresh"
      BY <1>11 DEF StepRefresh, At
    <2>2. cache'.from = identity
      BY <1>1, <2>1, LoadedType DEF RootInv, CacheOfRoot, At
    <2> QED  BY <2>1, <2>2, StepKeepsRoot DEF CacheOfRoot
  <1>12. CASE StepBase \/ StepOpen \/ StepRename \/ StepFails \/ StepPrefSave \/ StepPrefSwap
    <2>1. todo # <<>> /\ worker' = worker /\ UNCHANGED <<identity, cache>> /\ Head(todo).do # "drop"
      BY <1>12 DEF StepBase, StepOpen, StepRename, StepFails, StepPrefSave, StepPrefSwap, At
    <2>2. CacheOfRoot'
      BY <2>1 DEF RootInv, CacheOfRoot, At
    <2> QED  BY <2>1, <2>2, StepKeepsRoot
  \* The worker threads.
  <1>13. ASSUME NEW w \in Worker, NEW k \in Key, EvaluatePath(w, k) PROVE RootInv'
    <2>1. /\ UNCHANGED <<identity, file, todo, cache>>
          /\ \A v \in Worker : v # w => worker'[v] = worker[v]
          /\ worker'[w].pc = "path" /\ (worker'[w].quiet => todo = <<>>)
      BY <1>1, <1>13 DEF EvaluatePath, jsVars
    <2> QED  BY <2>1 DEF RootInv, CacheOfRoot, Undisturbed, At
  <1>14. ASSUME NEW w \in Worker, ReadSecure(w) PROVE RootInv'
    <2>1. /\ UNCHANGED <<identity, file, todo>>
          /\ cache' = Loaded(cache, identity)
          /\ worker' = [worker EXCEPT ![w].pc = "read",
                                      ![w].got = cache'.fields[worker[w].key]]
      BY <1>14 DEF ReadSecure, jsVars, PathsCurrent
    <2>2. CacheOfRoot'
      BY <1>1, <2>1, LoadedType DEF RootInv, CacheOfRoot, At
    <2>3. todo = <<>> => cache'.fields["talebook_url"] = file[identity]["talebook_url"]
      <3> SUFFICES ASSUME todo = <<>> PROVE cache'.fields["talebook_url"] = file[identity]["talebook_url"]
        OBVIOUS
      <3>1. CASE cache.valid
        <4>1. cache' = cache /\ cache.from = identity
          BY <1>1, <2>1, <3>1, LoadedType DEF RootInv, CacheOfRoot, At
        <4> QED  BY <3>1, <4>1 DEF CachesInv, CacheHolds, Key
      <3>2. CASE ~cache.valid
        BY <1>1, <2>1, <3>2, LoadedType
      <3> QED  BY <3>1, <3>2
    <2>4. /\ \A v \in Worker : v # w => worker'[v] = worker[v]
          /\ worker'[w].quiet = worker[w].quiet /\ worker'[w].key = worker[w].key
          /\ worker'[w].got = cache'.fields[worker[w].key]
          /\ worker[w].pc = "path"
      BY <1>1, <1>14, <2>1 DEF ReadSecure
    <2> QED  BY <2>1, <2>2, <2>3, <2>4 DEF RootInv, Undisturbed
  <1>15. ASSUME NEW w \in Worker, SendTo(w) \/ Answered(w) PROVE RootInv'
    <2>1. /\ UNCHANGED <<identity, file, todo, cache>>
          /\ \A v \in Worker : v # w => worker'[v] = worker[v]
      BY <1>1, <1>15 DEF SendTo, Answered, jsVars
    <2>2. \/ worker'[w].pc = "idle"
          \/ /\ worker[w].pc = "read" /\ worker'[w].quiet = worker[w].quiet
             /\ worker'[w].key = worker[w].key /\ worker'[w].got = worker[w].got
      BY <1>1, <1>15 DEF SendTo, Answered, Resting
    <2> QED  BY <2>1, <2>2 DEF RootInv, CacheOfRoot, Undisturbed, At
  <1>16. CASE Restart
    BY <1>2, <1>16 DEF Restart, RootInv, CacheOfRoot, Undisturbed, Resting
  <1>17. CASE UNCHANGED vars
    BY <1>17 DEF vars, jsVars, RootInv, CacheOfRoot, Undisturbed, At
  <1> QED
    BY <1>3, <1>4, <1>5, <1>6, <1>7, <1>8, <1>9, <1>10, <1>11, <1>12, <1>13, <1>14, <1>15,
       <1>16, <1>17 DEF Next

(* ReadsOwnRoot, which the code breaks, has one cause: were the root never  *)
(* to move while a read is between its path and its lock, every request     *)
(* that nothing disturbs would get the address in the file of the active    *)
(* root, whatever saves, switches, failed writes and deaths came before.    *)
THEOREM OwnRootUnlessOvertaken == Spec /\ []PathsCurrent => []ReadsOwnRoot
  <1>1. Init => TypeInv /\ CachesInv /\ RootInv
    <2>1. Init => RootInv
      BY NoCacheType DEF Init, RootInv, CacheOfRoot, Undisturbed, Resting
    <2> QED  BY <2>1, TypeInit, CachesInit
  <1>2. TypeInv /\ CachesInv /\ RootInv /\ PathsCurrent /\ [Next]_vars
          => TypeInv' /\ CachesInv' /\ RootInv'
    BY TypeNext, CachesNext, RootNext
  <1>3. RootInv => ReadsOwnRoot
    BY DEF RootInv, Undisturbed, ReadsOwnRoot
  <1> QED  BY <1>1, <1>2, <1>3, PTL DEF Spec
=============================================================================
