-------------------------- MODULE DownloadListProofs --------------------------
(***************************************************************************)
(* Proofs about the list of DownloadQueue, for every set of tasks and      *)
(* every limit: it and the statuses never disagree, pruning drops settled  *)
(* tasks only, and what just settled is never what is dropped.             *)
(***************************************************************************)
EXTENDS DownloadQueueProofs, ListsProofs

(* What pruneTasks leaves: each task of the queue once, unfinished ones     *)
(* first, and no more settled ones than are to be kept.                     *)
Matched(st, l) ==
  l \in Seq(Task) /\ Simple(l) /\ Elems(l) = With(st, Live \cup Settled)

Ordered(st, l) ==
  \A i, j \in DOMAIN l : st[l[i]] \in Settled /\ i < j => st[l[j]] \in Settled

Fit(st, l) ==
  /\ Matched(st, l)
  /\ Ordered(st, l)
  /\ Cardinality(With(st, Settled)) <= MaxSettled

\* A task that left the queue does not come back from the file.
GoneForGood == \A t \in Task : disk.status[t] = "gone" => status[t] = "gone"

ListInv == Fit(status, list) /\ Fit(disk.status, disk.list) /\ GoneForGood

-----------------------------------------------------------------------------
\* The beginning of a list.
LEMMA FirstOf ==
  ASSUME NEW T, NEW l \in Seq(T), NEW n \in Nat
  PROVE  /\ First(n, l) \in Seq(T)
         /\ Len(First(n, l)) <= n
         /\ DOMAIN First(n, l) \subseteq DOMAIN l
         /\ \A i \in DOMAIN First(n, l) : First(n, l)[i] = l[i]
         /\ n > 0 /\ 1 \in DOMAIN l => 1 \in DOMAIN First(n, l)
<1> DEFINE k == IF Len(l) < n THEN Len(l) ELSE n
           f == First(n, l)
<1>1. Len(l) \in Nat /\ DOMAIN l = 1..Len(l) /\ \A i \in 1..Len(l) : l[i] \in T
  BY LenProperties, ElementOfSeq
<1>2. k \in Nat /\ k <= n /\ k <= Len(l) /\ (n > 0 /\ Len(l) > 0 => k > 0)
  BY <1>1
<1>3. f = SubSeq(l, 1, k)
  BY DEF First
<1> HIDE DEF k, f
<1>4. \A i \in 1..k : l[i] \in T
  BY <1>1, <1>2
<1>5. /\ f \in Seq(T) /\ Len(f) = IF 1 <= k THEN k - 1 + 1 ELSE 0
      /\ \A i \in 1..(k - 1 + 1) : f[i] = l[1 + i - 1]
  BY <1>2, <1>3, <1>4, SubSeqProperties
<1>6. Len(f) = k /\ \A i \in 1..k : f[i] = l[i]
  BY <1>2, <1>5
<1>7. DOMAIN f = 1..k
  BY <1>5, <1>6, LenProperties
<1> QED
  BY <1>1, <1>2, <1>5, <1>6, <1>7 DEF f

\* Two lists that have no element in common, one after the other.
LEMMA SimpleConcat ==
  ASSUME NEW T, NEW l \in Seq(T), NEW m \in Seq(T)
  PROVE  /\ l \o m \in Seq(T)
         /\ Elems(l \o m) = Elems(l) \cup Elems(m)
         /\ Simple(l) /\ Simple(m) /\ Elems(l) \cap Elems(m) = {} => Simple(l \o m)
         /\ \A i \in DOMAIN (l \o m) : IF i <= Len(l) THEN (l \o m)[i] \in Elems(l)
                                                      ELSE (l \o m)[i] \in Elems(m)
<1> DEFINE c == l \o m
<1>1. /\ Len(l) \in Nat /\ DOMAIN l = 1..Len(l)
      /\ Len(m) \in Nat /\ DOMAIN m = 1..Len(m)
  BY LenProperties
<1>2. /\ c \in Seq(T) /\ Len(c) = Len(l) + Len(m)
      /\ \A i \in 1..(Len(l) + Len(m)) : c[i] = IF i <= Len(l) THEN l[i] ELSE m[i - Len(l)]
  BY ConcatProperties
<1>3. DOMAIN c = 1..(Len(l) + Len(m))
  BY <1>2, LenProperties
<1> HIDE DEF c
<1>4. \A i \in DOMAIN c :
        \/ i <= Len(l) /\ i \in DOMAIN l /\ c[i] = l[i]
        \/ ~(i <= Len(l)) /\ i - Len(l) \in DOMAIN m /\ c[i] = m[i - Len(l)]
  BY <1>1, <1>2, <1>3
<1>5. \A i \in DOMAIN l : i \in DOMAIN c /\ c[i] = l[i]
  BY <1>1, <1>2, <1>3
<1>6. \A i \in DOMAIN m : i + Len(l) \in DOMAIN c /\ c[i + Len(l)] = m[i]
  <2> TAKE i \in DOMAIN m
  <2>1. /\ i + Len(l) \in 1..(Len(l) + Len(m)) /\ ~(i + Len(l) <= Len(l))
        /\ (i + Len(l)) - Len(l) = i
    BY <1>1
  <2> QED
    BY <1>2, <1>3, <2>1
<1>7. Elems(c) = Elems(l) \cup Elems(m)
  BY <1>4, <1>5, <1>6 DEF Elems
<1>8. \A i \in DOMAIN c : IF i <= Len(l) THEN c[i] \in Elems(l) ELSE c[i] \in Elems(m)
  BY <1>4 DEF Elems
<1>9. ASSUME Simple(l), Simple(m), Elems(l) \cap Elems(m) = {},
             NEW i \in DOMAIN c, NEW j \in DOMAIN c, c[i] = c[j]
      PROVE  i = j
  <2>1. i \in Nat /\ j \in Nat
    BY <1>3
  <2>2. CASE i <= Len(l) /\ j <= Len(l)
    BY <1>4, <1>9, <2>2 DEF Simple
  <2>3. CASE ~(i <= Len(l)) /\ ~(j <= Len(l))
    <3>1. i - Len(l) = j - Len(l)
      BY <1>4, <1>9, <2>3 DEF Simple
    <3> QED
      BY <1>1, <2>1, <3>1
  <2>4. (i <= Len(l)) <=> (j <= Len(l))
    BY <1>8, <1>9
  <2> QED
    BY <2>2, <2>3, <2>4
<1>10. Simple(l) /\ Simple(m) /\ Elems(l) \cap Elems(m) = {} => Simple(c)
  BY <1>9 DEF Simple
<1> QED
  BY <1>2, <1>7, <1>8, <1>10 DEF c

-----------------------------------------------------------------------------
\* The part of a list with given statuses.
LEMMA PartOf ==
  ASSUME NEW st, NEW l, Matched(st, l), NEW statuses, statuses \subseteq Live \cup Settled
  PROVE  /\ Only(l, With(st, statuses)) \in Seq(Task)
         /\ Simple(Only(l, With(st, statuses)))
         /\ Elems(Only(l, With(st, statuses))) = With(st, statuses)
<1>1. l \in Seq(Task) /\ Simple(l) /\ Elems(l) = With(st, Live \cup Settled)
  BY DEF Matched
<1> DEFINE S == With(st, statuses)
           o == Only(l, S)
<1>2. S \subseteq Elems(l)
  BY <1>1 DEF With
<1> HIDE DEF S
<1>3. o \in Seq(Task) /\ Elems(o) = Elems(l) \cap S
  BY <1>1, OnlyOrder
<1>4. Simple(o)
  BY <1>1, OnlyKeepsOrder
<1> QED
  BY <1>2, <1>3, <1>4 DEF S

\* What is kept of the settled tasks: some of them, each once, not too many.
LEMMA KeptSettled ==
  ASSUME NEW st, NEW l, Matched(st, l)
  PROVE  /\ Kept(st, l) \in Seq(Task) /\ Simple(Kept(st, l))
         /\ Elems(Kept(st, l)) \subseteq With(st, Settled)
         /\ Cardinality(Elems(Kept(st, l))) <= MaxSettled
<1> DEFINE o == Only(l, With(st, Settled))
           k == First(MaxSettled, o)
<1>1. o \in Seq(Task) /\ Simple(o) /\ Elems(o) = With(st, Settled)
  BY PartOf
<1> HIDE DEF o
<1>2. MaxSettled \in Nat
  BY ConstantsOK DEF ConstantsOK
<1>3. /\ k \in Seq(Task) /\ Len(k) <= MaxSettled
      /\ DOMAIN k \subseteq DOMAIN o /\ \A i \in DOMAIN k : k[i] = o[i]
  BY <1>1, <1>2, FirstOf
<1> HIDE DEF k
<1>4. Simple(k) /\ Elems(k) \subseteq Elems(o)
  BY <1>1, <1>3 DEF Simple, Elems
<1>5. /\ Cardinality(Elems(k)) = Len(k) /\ Len(k) \in Nat
  BY <1>3, <1>4, SimpleCardinality, LenProperties
<1>6. k = Kept(st, l)
  BY DEF k, o, Kept
<1> QED
  BY <1>1, <1>2, <1>3, <1>4, <1>5, <1>6

(* pruneTasks leaves a list that fits the statuses, whatever it is given,   *)
(* and takes no task out of the queue but settled ones.                     *)
LEMMA PrunedFits ==
  ASSUME NEW st \in [Task -> Status], NEW l, Matched(st, l)
  PROVE  Fit(PrunedStatus(st, l), PrunedList(st, l))
<1> DEFINE live == Only(l, With(st, Live))
           kept == Kept(st, l)
           new == PrunedStatus(st, l)
           all == PrunedList(st, l)
<1>1. live \in Seq(Task) /\ Simple(live) /\ Elems(live) = With(st, Live)
  BY PartOf
<1>2. /\ kept \in Seq(Task) /\ Simple(kept) /\ Elems(kept) \subseteq With(st, Settled)
      /\ Cardinality(Elems(kept)) <= MaxSettled
  BY KeptSettled
<1>3. all = live \o kept
  BY DEF PrunedList
<1>4. \A t \in Task : new[t] = IF st[t] \in Settled /\ t \notin Elems(kept) THEN "gone" ELSE st[t]
  BY DEF PrunedStatus
<1> HIDE DEF live, kept, new, all
<1>5. /\ With(new, Live) = With(st, Live) /\ With(new, Settled) = Elems(kept)
      /\ With(new, Live \cup Settled) = With(st, Live) \cup Elems(kept)
  <2>1. \A t \in Task : new[t] \in Live <=> st[t] \in Live
    BY <1>4 DEF Live, Settled
  <2>2. \A t \in Task : new[t] \in Settled <=> t \in Elems(kept)
    BY <1>2, <1>4 DEF With, Settled
  <2>3. Elems(kept) \subseteq Task
    BY <1>2 DEF With
  <2> QED
    BY <2>1, <2>2, <2>3 DEF With
<1>6. With(st, Live) \cap Elems(kept) = {}
  BY <1>2 DEF With, Live, Settled
<1>7. /\ all \in Seq(Task) /\ Simple(all) /\ Elems(all) = With(new, Live \cup Settled)
      /\ \A i \in DOMAIN all : IF i <= Len(live) THEN all[i] \in With(st, Live)
                                               ELSE all[i] \in Elems(kept)
  BY <1>1, <1>2, <1>3, <1>5, <1>6, SimpleConcat
<1>8. ASSUME NEW i \in DOMAIN all, NEW j \in DOMAIN all, new[all[i]] \in Settled, i < j
      PROVE  new[all[j]] \in Settled
  <2>1. i \in Nat /\ j \in Nat /\ Len(live) \in Nat
    BY <1>1, <1>7, LenProperties
  <2>2. all[i] \notin With(new, Live)
    BY <1>8 DEF With, Live, Settled
  <2>3. ~(i <= Len(live))
    BY <1>5, <1>7, <2>2
  <2>4. ~(j <= Len(live))
    BY <1>8, <2>1, <2>3
  <2> QED
    BY <1>5, <1>7, <2>4 DEF With
<1> QED
  BY <1>2, <1>5, <1>7, <1>8 DEF Fit, Matched, Ordered, new, all

\* What a turn hands out, with the statuses before the list is pruned.
Claimed(st, C) == [t \in Task |-> IF t \in C THEN "downloading" ELSE st[t]]

(* The end of a turn leaves a list that fits.  A task it takes out of the   *)
(* queue was settled, and older than those that are kept.                   *)
LEMMA DispatchFits ==
  ASSUME NEW st \in [Task -> Status], NEW l, NEW pr, NEW act, Matched(st, l),
         Dispatch(st, l, pr, act)
  PROVE  /\ Fit(status', list')
         /\ \A t \in Task : status'[t] = "gone" =>
              \/ st[t] = "gone"
              \/ st[t] \in Settled /\ t \notin Elems(Kept(st, l))
         /\ \A t \in Task : st[t] = "gone" => status'[t] = "gone"
<1>1. PICK C \in Claims(st, l, act) :
        /\ status' = PrunedStatus(Claimed(st, C), l)
        /\ list' = PrunedList(Claimed(st, C), l)
  BY Zenon DEF Dispatch, Claimed
<1> DEFINE c == Claimed(st, C)
<1>2. \A t \in C : t \in Task /\ st[t] = "pending"
  BY DEF Claims, With
<1>3. c \in [Task -> Status] /\ \A t \in Task : c[t] = IF t \in C THEN "downloading" ELSE st[t]
  BY DEF Claimed, Status, Live
<1> HIDE DEF c
<1>4. With(c, Live \cup Settled) = With(st, Live \cup Settled) /\ With(c, Settled) = With(st, Settled)
  <2>1. ASSUME NEW t \in Task
        PROVE  /\ c[t] \in Live \cup Settled <=> st[t] \in Live \cup Settled
               /\ c[t] \in Settled <=> st[t] \in Settled
    <3>1. CASE t \in C
      BY <1>2, <1>3, <3>1 DEF Live, Settled
    <3>2. CASE t \notin C
      BY <1>3, <3>2
    <3> QED
      BY <3>1, <3>2
  <2> QED
    BY <2>1 DEF With
<1>5. Matched(c, l) /\ Kept(c, l) = Kept(st, l)
  BY <1>4 DEF Matched, Kept
<1>6. Fit(status', list')
  BY <1>1, <1>3, <1>5, PrunedFits DEF c
<1>7. \A t \in Task : status'[t] = IF c[t] \in Settled /\ t \notin Elems(Kept(st, l))
                                 THEN "gone" ELSE c[t]
  BY <1>1, <1>5 DEF PrunedStatus, c
<1> QED
  BY <1>2, <1>3, <1>6, <1>7 DEF Settled

-----------------------------------------------------------------------------
\* A save, whether it succeeds or not, leaves a file that fits.
LEMMA PersistFits ==
  ASSUME ListInv, Fit(status', list'),
         \A t \in Task : status[t] = "gone" => status'[t] = "gone",
         NEW attempt, Persist(attempt)
  PROVE  ListInv'
<1>1. disk' = disk \/ disk' = Snapshot'
  BY DEF Persist
<1>2. CASE disk' = disk
  BY <1>2 DEF ListInv, GoneForGood
<1>3. CASE disk' = Snapshot'
  <2>1. disk'.status = status' /\ disk'.list = list'
    BY <1>3 DEF Snapshot
  <2> QED
    BY <2>1 DEF ListInv, GoneForGood
<1> QED
  BY <1>1, <1>2, <1>3

(* processQueue: the tasks of another account are the only unfinished ones  *)
(* that it may take out of the queue.                                       *)
LEMMA ProcessedFits ==
  ASSUME ListInv, NEW st \in [Task -> Status], NEW l, NEW pr, NEW own, Matched(st, l),
         \A t \in Task : status[t] = "gone" => st[t] = "gone",
         Processed(st, l, pr, own)
  PROVE  /\ ListInv'
         /\ \A t \in Task : status'[t] = "gone" /\ st[t] \in Live =>
                            IsBook(t) /\ own[t] # account
<1> DEFINE ready == ForeignFailed(Recovered(st), own)
           reset == [t \in Task |-> IF t \in Stale(st) THEN 0 ELSE pr[t]]
<1>1. Dispatch(ready, l, reset, active) /\ \E attempt : Persist(attempt)
  BY Zenon DEF Processed
<1>2. \A t \in Task : Recovered(st)[t] = IF t \in Stale(st) THEN "pending" ELSE st[t]
  BY DEF Recovered
<1>3. \A t \in Task : ready[t] = IF Recovered(st)[t] = "pending" /\ IsBook(t) /\ own[t] # account
                                THEN "failed" ELSE Recovered(st)[t]
  BY DEF ForeignFailed
<1>4. \A t \in Stale(st) : st[t] = "downloading"
  BY DEF Stale
<1>5. ready \in [Task -> Status]
  BY DEF ForeignFailed, Recovered, Status, Live, Settled
<1> HIDE DEF ready, reset
<1>6. ASSUME NEW t \in Task
      PROVE  /\ ready[t] \in Live \cup Settled <=> st[t] \in Live \cup Settled
             /\ ready[t] = "gone" <=> st[t] = "gone"
             /\ st[t] \in Live /\ ready[t] \in Settled => IsBook(t) /\ own[t] # account
  BY <1>2, <1>3, <1>4 DEF Live, Settled
<1>7. Matched(ready, l)
  BY <1>6 DEF Matched, With
<1>8. /\ Fit(status', list')
      /\ \A t \in Task : status'[t] = "gone" => ready[t] = "gone" \/ ready[t] \in Settled
      /\ \A t \in Task : ready[t] = "gone" => status'[t] = "gone"
  BY <1>1, <1>5, <1>7, DispatchFits
<1>9. ListInv'
  BY <1>1, <1>6, <1>8, PersistFits
<1> QED
  BY <1>6, <1>8, <1>9 DEF Live

\* A new task goes in front of the list, and is not in it.
LEMMA EnqueuedMatches ==
  ASSUME Types, ListInv, NEW t \in Task, status[t] = "fresh"
  PROVE  /\ [status EXCEPT ![t] = "pending"] \in [Task -> Status]
         /\ Matched([status EXCEPT ![t] = "pending"], <<t>> \o list)
<1> DEFINE st == [status EXCEPT ![t] = "pending"]
           one == <<t>>
<1>1. /\ status \in [Task -> Status] /\ list \in Seq(Task) /\ Simple(list)
      /\ Elems(list) = With(status, Live \cup Settled)
  BY DEF Types, ListInv, Fit, Matched
<1>2. st \in [Task -> Status] /\ \A u \in Task : st[u] = IF u = t THEN "pending" ELSE status[u]
  BY <1>1 DEF Status, Live
<1>3. one \in Seq(Task) /\ Elems(one) = {t} /\ Simple(one)
  <2>1. one \in Seq(Task) /\ DOMAIN one = {1} /\ one[1] = t
    OBVIOUS
  <2> HIDE DEF one
  <2> QED
    BY <2>1 DEF Elems, Simple
<1> HIDE DEF st, one
<1>4. t \notin Elems(list)
  BY <1>1 DEF With, Live, Settled
<1>5. /\ one \o list \in Seq(Task) /\ Simple(one \o list)
      /\ Elems(one \o list) = {t} \cup Elems(list)
  BY <1>1, <1>3, <1>4, SimpleConcat
<1>6. With(st, Live \cup Settled) = {t} \cup With(status, Live \cup Settled)
  BY <1>2 DEF With, Live
<1> QED
  BY <1>1, <1>2, <1>5, <1>6 DEF Matched, st, one

\* A task that ends stays in the list, unless it was taken out of it before.
LEMMA MarkedMatches ==
  ASSUME Types, ListInv, NEW t \in Task, NEW s \in {"completed", "failed"},
         status[t] \in {"downloading", "gone"}
  PROVE  /\ Marked(t, s) \in [Task -> Status]
         /\ Matched(Marked(t, s), list)
         /\ \A u \in Task : Marked(t, s)[u] = IF u = t /\ status[t] # "gone" THEN s ELSE status[u]
<1> DEFINE st == Marked(t, s)
<1>1. status \in [Task -> Status] /\ Matched(status, list)
  BY DEF Types, ListInv, Fit
<1>2. /\ st \in [Task -> Status]
      /\ \A u \in Task : st[u] = IF u = t /\ status[t] # "gone" THEN s ELSE status[u]
  BY <1>1 DEF Marked, Status, Settled
<1> HIDE DEF st
<1>3. With(st, Live \cup Settled) = With(status, Live \cup Settled)
  BY <1>2 DEF With, Live, Settled
<1> QED
  BY <1>1, <1>2, <1>3 DEF Matched, st

\* The end of a download keeps the list and the file as they are to be.
LEMMA SettleFits ==
  ASSUME Types, ListInv, NEW t \in Task, NEW s \in {"completed", "failed"},
         status[t] \in {"downloading", "gone"}, Settle(t, s)
  PROVE  ListInv'
<1> DEFINE reset == IF s = "completed" /\ status[t] # "gone" THEN [prog EXCEPT ![t] = 2] ELSE prog
<1>1. Dispatch(Marked(t, s), list, reset, active \ {t}) /\ \E attempt : Persist(attempt)
  BY Zenon DEF Settle
<1> HIDE DEF reset
<1>2. /\ Marked(t, s) \in [Task -> Status] /\ Matched(Marked(t, s), list)
      /\ \A u \in Task : Marked(t, s)[u] = IF u = t /\ status[t] # "gone" THEN s ELSE status[u]
  BY MarkedMatches
<1>3. /\ Fit(status', list')
      /\ \A u \in Task : Marked(t, s)[u] = "gone" => status'[u] = "gone"
  BY <1>1, <1>2, DispatchFits
<1>4. \A u \in Task : status[u] = "gone" => status'[u] = "gone"
  BY <1>2, <1>3
<1> QED
  BY <1>1, <1>3, <1>4, PersistFits

\* remove and clearCompleted.
LEMMA DropFits ==
  ASSUME Types, ListInv, NEW S, Drop(S)
  PROVE  ListInv'
<1> DEFINE others == Task \ S
           rest == Only(list, others)
<1>1. /\ status' = [t \in Task |-> IF t \in S THEN "gone" ELSE status[t]]
      /\ list' = rest /\ Persist(TRUE)
  BY DEF Drop
<1>2. /\ status \in [Task -> Status] /\ list \in Seq(Task) /\ Simple(list)
      /\ Elems(list) = With(status, Live \cup Settled) /\ Ordered(status, list)
      /\ Cardinality(With(status, Settled)) <= MaxSettled
  BY DEF Types, ListInv, Fit, Matched
<1> HIDE DEF others
<1>3. /\ rest \in Seq(Task) /\ Elems(rest) = Elems(list) \cap others
      /\ Simple(rest) /\ InOrderOf(rest, list)
  <2>1. rest \in Seq(Task) /\ Elems(rest) = Elems(list) \cap others
    BY <1>2, OnlyOrder
  <2>2. Simple(rest) /\ InOrderOf(rest, list)
    BY <1>2, OnlyKeepsOrder
  <2> QED
    BY <2>1, <2>2
<1> HIDE DEF rest
<1>4. Elems(rest) = With(status', Live \cup Settled)
  <2>1. \A t \in Task : status'[t] \in Live \cup Settled <=> t \notin S /\ status[t] \in Live \cup Settled
    BY <1>1 DEF Live, Settled
  <2> QED
    BY <1>2, <1>3, <2>1 DEF With, others
<1>5. \A n \in DOMAIN rest : rest[n] \in Task \ S
  BY <1>3 DEF Elems, others
<1>6. Ordered(status', rest)
  <2> SUFFICES ASSUME NEW m \in DOMAIN rest, NEW n \in DOMAIN rest, m < n,
                      status'[rest[m]] \in Settled
               PROVE  status'[rest[n]] \in Settled
    BY DEF Ordered
  <2>1. status'[rest[m]] = status[rest[m]] /\ status'[rest[n]] = status[rest[n]]
    BY <1>1, <1>5
  <2> QED
    BY <1>2, <1>3, <2>1 DEF Ordered, InOrderOf
<1>7. Cardinality(With(status', Settled)) <= MaxSettled
  <2>1. With(status', Settled) \in SUBSET With(status, Settled)
    BY <1>1 DEF With, Settled
  <2>2. /\ IsFiniteSet(With(status, Settled)) /\ Cardinality(With(status, Settled)) \in Nat
        /\ Cardinality(With(status', Settled)) \in Nat
    BY <2>1, WithFinite
  <2>3. Cardinality(With(status', Settled)) <= Cardinality(With(status, Settled))
    BY <2>1, <2>2, FS_Subset
  <2> QED
    BY <1>2, <2>2, <2>3, ConstantsOK DEF ConstantsOK
<1>8. Fit(status', list')
  BY <1>1, <1>3, <1>4, <1>6, <1>7 DEF Fit, Matched
<1>9. \A t \in Task : status[t] = "gone" => status'[t] = "gone"
  BY <1>1
<1> QED
  BY <1>1, <1>8, <1>9, PersistFits

\* The list is empty at first, and no task is in the queue.
LEMMA ListInvInit == Init => ListInv
<1> SUFFICES ASSUME Init PROVE ListInv
  OBVIOUS
<1>1. status = [t \in Task |-> "fresh"] /\ list = <<>> /\ disk.status = status /\ disk.list = list
  BY DEF Init, Snapshot
<1>2. With(status, Live \cup Settled) = {} /\ With(status, Settled) = {}
  BY <1>1 DEF With, Live, Settled
<1>3. list \in Seq(Task) /\ DOMAIN list = {}
  BY <1>1
<1>4. Cardinality({}) <= MaxSettled
  BY FS_EmptySet, ConstantsOK DEF ConstantsOK
<1>5. Fit(status, list)
  <2>1. Elems(list) = {} /\ Simple(list) /\ Ordered(status, list)
    BY <1>3 DEF Elems, Simple, Ordered
  <2> QED
    BY <1>2, <1>3, <1>4, <2>1 DEF Fit, Matched
<1> QED
  BY <1>1, <1>5 DEF ListInv, GoneForGood

(* Every turn, save and restart keeps the list with the statuses, in memory *)
(* and in the file.                                                         *)
LEMMA ListInvStep == ListInv /\ WorkerInv /\ [Next]_vars => ListInv'
<1> SUFFICES ASSUME ListInv, WorkerInv, [Next]_vars
             PROVE  ListInv'
  OBVIOUS
<1>0. /\ Types /\ status \in [Task -> Status] /\ Matched(status, list)
      /\ \A t \in Task : phase[t] # "idle" => status[t] \in {"downloading", "gone"}
  BY DEF WorkerInv, Types, ChainsOfWorkers, WorkersMatchTasks, ListInv, Fit
<1>1. CASE ProcessQueue
  BY <1>0, <1>1, ProcessedFits DEF ProcessQueue
<1>2. CASE ClearCompleted
  BY <1>0, <1>2, DropFits DEF ClearCompleted
<1>3. CASE PersistTimer
  <2>1. UNCHANGED <<status, list>> /\ Persist(TRUE)
    BY <1>3 DEF PersistTimer, queueVars
  <2>2. Fit(status', list')
    BY <2>1 DEF ListInv
  <2> QED
    BY <2>1, <2>2, PersistFits
<1>4. CASE Reload
  BY <1>4 DEF Reload, ListInv, GoneForGood
<1>5. ASSUME NEW t \in Task, Enqueue(t)
      PROVE  ListInv'
  <2> DEFINE st == [status EXCEPT ![t] = "pending"]
             own == [owner EXCEPT ![t] = IF IsBook(t) THEN account ELSE Legacy]
  <2>1. status[t] = "fresh" /\ Processed(st, <<t>> \o list, [prog EXCEPT ![t] = 0], own)
    BY <1>5 DEF Enqueue
  <2>2. st \in [Task -> Status] /\ Matched(st, <<t>> \o list)
    BY <1>0, <2>1, EnqueuedMatches
  <2>3. \A u \in Task : status[u] = "gone" => st[u] = "gone"
    BY <1>0, <2>1
  <2> HIDE DEF st, own
  <2> QED
    BY <2>1, <2>2, <2>3, ProcessedFits
<1>6. ASSUME NEW t \in Task, Retry(t)
      PROVE  ListInv'
  <2> DEFINE st == [status EXCEPT ![t] = "pending"]
  <2>1. status[t] = "failed" /\ Processed(st, list, [prog EXCEPT ![t] = 0], owner)
    BY <1>6 DEF Retry
  <2>2. /\ st \in [Task -> Status]
        /\ \A u \in Task : st[u] = IF u = t THEN "pending" ELSE status[u]
    BY <1>0 DEF Status, Live
  <2> HIDE DEF st
  <2>3. With(st, Live \cup Settled) = With(status, Live \cup Settled)
    BY <2>1, <2>2 DEF With, Live, Settled
  <2>4. Matched(st, list) /\ \A u \in Task : status[u] = "gone" => st[u] = "gone"
    BY <1>0, <2>1, <2>2, <2>3 DEF Matched
  <2> QED
    BY <2>1, <2>2, <2>4, ProcessedFits
<1>7. ASSUME NEW t \in Task, Remove(t)
      PROVE  ListInv'
  BY <1>0, <1>7, DropFits DEF Remove
<1>8. ASSUME NEW t \in Task, Complete(t) \/ Fail(t)
      PROVE  ListInv'
  BY <1>0, <1>8, SettleFits DEF Complete, Fail
<1>9. CASE UNCHANGED <<status, list, disk>>
  BY <1>9 DEF ListInv, GoneForGood
<1> QED
  BY <1>1, <1>2, <1>3, <1>4, <1>5, <1>6, <1>7, <1>8, <1>9
     DEF Next, Restart, RestartAfterRecord, StartTransfer, Progress, SwitchAccount, vars,
         queueVars, diskVars

(* The invariants of the workers and of the list, for every reachable state.*)
LEMMA ListInvariant == Spec => [](ListInv /\ WorkerInv)
BY ListInvInit, ListInvStep, WorkerInvInit, WorkerInvStep, PTL DEF Spec

(* However turns, failed saves and restarts follow each other, the list     *)
(* holds each task of the queue once, unfinished ones first, and pruneTasks *)
(* keeps to its limit.                                                      *)
THEOREM ListSafe == Spec => []ListMatchesStatus
<1>1. ListInv => ListMatchesStatus
  <2> SUFFICES ASSUME ListInv PROVE ListMatchesStatus
    OBVIOUS
  <2>1. list \in Seq(Task) /\ Simple(list)
    BY DEF ListInv, Fit, Matched
  <2>2. Cardinality(Elems(list)) = Len(list)
    BY <2>1, SimpleCardinality
  <2> QED
    BY <2>2 DEF ListInv, Fit, Matched, Ordered, ListMatchesStatus
<1> QED
  BY <1>1, ListInvariant, PTL

-----------------------------------------------------------------------------
(* What is left of the types.                                               *)
Typed ==
  /\ prog \in [Task -> 0..2]
  /\ owner \in [Task -> Account] /\ home \in [Task -> Account]
  /\ disk \in [status : [Task -> Status], list : Seq(Task), prog : [Task -> 0..2]]
  /\ unsaved \in BOOLEAN /\ wroteOk \in BOOLEAN
  /\ restarts \in 0..MaxRestarts /\ switches \in 0..MaxSwitches

\* The saved queue is a queue, and the result of a save is known.
LEMMA PersistTyped ==
  ASSUME Typed, status' \in [Task -> Status], list' \in Seq(Task), prog' \in [Task -> 0..2],
         NEW attempt \in BOOLEAN, Persist(attempt)
  PROVE  /\ disk' \in [status : [Task -> Status], list : Seq(Task), prog : [Task -> 0..2]]
         /\ wroteOk' \in BOOLEAN
<1>1. PICK ok \in BOOLEAN :
        /\ disk' = IF attempt /\ ok THEN Snapshot' ELSE disk
        /\ wroteOk' = IF attempt THEN ok ELSE wroteOk
  BY DEF Persist
<1>2. Snapshot' \in [status : [Task -> Status], list : Seq(Task), prog : [Task -> 0..2]]
  BY DEF Snapshot
<1>3. wroteOk' \in BOOLEAN
  BY <1>1 DEF Typed
<1> QED
  BY <1>1, <1>2, <1>3 DEF Typed

\* A turn that hands out slots resets the progress of what it starts.
LEMMA DispatchTyped ==
  ASSUME NEW st, NEW l, NEW pr \in [Task -> 0..2], NEW act, Dispatch(st, l, pr, act)
  PROVE  prog' \in [Task -> 0..2]
<1>1. PICK C \in Claims(st, l, act) : prog' = [t \in Task |-> IF t \in C THEN 0 ELSE pr[t]]
  BY Zenon DEF Dispatch
<1>2. 0 \in 0..2
  OBVIOUS
<1> HIDE DEF Claims
<1> QED
  BY <1>1, <1>2

\* processQueue keeps the types of what its caller hands it.
LEMMA ProcessedTyped ==
  ASSUME Typed, status' \in [Task -> Status], list' \in Seq(Task),
         NEW st, NEW l, NEW pr \in [Task -> 0..2], NEW own \in [Task -> Account],
         Processed(st, l, pr, own), home' \in [Task -> Account],
         UNCHANGED <<restarts, switches>>
  PROVE  Typed'
<1> DEFINE ready == ForeignFailed(Recovered(st), own)
           reset == [t \in Task |-> IF t \in Stale(st) THEN 0 ELSE pr[t]]
           claimed == active' \ active
           saved == claimed # {} \/ Snapshot' # Snapshot
           novel == \E c \in claimed : ~IsBook(c) /\ \A d \in claimed : ~Before(l, c, d)
<1>1. /\ Dispatch(ready, l, reset, active) /\ owner' = own
      /\ Persist(saved) /\ unsaved' = IF saved THEN novel ELSE unsaved
  BY DEF Processed
<1>2. saved \in BOOLEAN /\ novel \in BOOLEAN
  OBVIOUS
<1>3. reset \in [Task -> 0..2]
  <2> HIDE DEF Stale
  <2>1. 0 \in 0..2
    OBVIOUS
  <2> QED
    BY <2>1
<1> HIDE DEF ready, reset, saved, novel
<1>4. prog' \in [Task -> 0..2]
  BY <1>1, <1>3, DispatchTyped
<1>5. /\ disk' \in [status : [Task -> Status], list : Seq(Task), prog : [Task -> 0..2]]
      /\ wroteOk' \in BOOLEAN
  BY <1>1, <1>2, <1>4, PersistTyped
<1>6. unsaved' \in BOOLEAN
  BY <1>1, <1>2 DEF Typed
<1> QED
  BY <1>1, <1>4, <1>5, <1>6 DEF Typed

\* So does the end of a download.
LEMMA SettleTyped ==
  ASSUME Typed, status' \in [Task -> Status], list' \in Seq(Task),
         NEW t \in Task, NEW s \in {"completed", "failed"}, Settle(t, s)
  PROVE  Typed'
<1> DEFINE reset == IF s = "completed" /\ status[t] # "gone" THEN [prog EXCEPT ![t] = 2] ELSE prog
           attempt == unsaved \/ Snapshot' # Snapshot
<1>1. /\ Dispatch(Marked(t, s), list, reset, active \ {t}) /\ Persist(attempt)
      /\ unsaved' = FALSE /\ UNCHANGED <<owner, home, restarts, switches>>
  BY DEF Settle
<1>2. attempt \in BOOLEAN
  OBVIOUS
<1>3. reset \in [Task -> 0..2]
  <2>1. 2 \in 0..2 /\ prog \in [Task -> 0..2]
    BY DEF Typed
  <2> QED
    BY <2>1
<1> HIDE DEF reset, attempt
<1>4. prog' \in [Task -> 0..2]
  BY <1>1, <1>3, DispatchTyped
<1>5. /\ disk' \in [status : [Task -> Status], list : Seq(Task), prog : [Task -> 0..2]]
      /\ wroteOk' \in BOOLEAN
  BY <1>1, <1>2, <1>4, PersistTyped
<1> QED
  BY <1>1, <1>4, <1>5 DEF Typed

\* The types hold at first.
LEMMA TypedInit == Init => Typed
<1> SUFFICES ASSUME Init PROVE Typed
  OBVIOUS
<1>1. 0 \in 0..2 /\ 0 \in 0..MaxRestarts /\ 0 \in 0..MaxSwitches /\ Legacy \in Account
  BY ConstantsOK DEF ConstantsOK
<1>2. /\ status \in [Task -> Status] /\ list \in Seq(Task) /\ prog \in [Task -> 0..2]
      /\ disk = [status |-> status, list |-> list, prog |-> prog]
  BY <1>1 DEF Init, Status, Snapshot
<1>3. disk \in [status : [Task -> Status], list : Seq(Task), prog : [Task -> 0..2]]
  BY <1>2
<1>4. /\ prog \in [Task -> 0..2] /\ owner \in [Task -> Account] /\ home \in [Task -> Account]
      /\ unsaved \in BOOLEAN /\ wroteOk \in BOOLEAN /\ restarts = 0 /\ switches = 0
  BY <1>1 DEF Init
<1> QED
  BY <1>1, <1>3, <1>4 DEF Typed

\* Every step keeps them.
LEMMA TypedStep ==
  ASSUME Typed, Types, status' \in [Task -> Status], list' \in Seq(Task), [Next]_vars
  PROVE  Typed'
<1>0. /\ prog \in [Task -> 0..2] /\ owner \in [Task -> Account] /\ home \in [Task -> Account]
      /\ account \in Account /\ Legacy \in Account /\ 0 \in 0..2 /\ 1 \in 0..2
  BY ConstantsOK DEF Typed, Types, ConstantsOK
<1>1. CASE ProcessQueue
  BY <1>0, <1>1, ProcessedTyped DEF ProcessQueue
<1>2. ASSUME NEW S, Drop(S) PROVE Typed'
  <2>1. /\ Persist(TRUE) /\ unsaved' = FALSE
        /\ UNCHANGED <<prog, owner, home, restarts, switches>>
    BY <1>2 DEF Drop
  <2> QED
    BY <1>0, <2>1, PersistTyped DEF Typed
<1>3. CASE PersistTimer
  <2>1. /\ Persist(TRUE) /\ unsaved' = FALSE
        /\ UNCHANGED <<prog, owner, home, restarts, switches>>
    BY <1>3 DEF PersistTimer, queueVars
  <2> QED
    BY <1>0, <2>1, PersistTyped DEF Typed
<1>4. CASE Reload
  <2>1. /\ prog' = disk.prog /\ disk' = disk /\ owner' = [t \in Task |-> Legacy]
        /\ unsaved' = FALSE /\ wroteOk' = TRUE /\ UNCHANGED <<home, switches>>
    BY <1>4 DEF Reload
  <2>2. restarts' \in 0..MaxRestarts
    BY <1>4, ConstantsOK DEF Reload, Typed, ConstantsOK
  <2> QED
    BY <1>0, <2>1, <2>2 DEF Typed
<1>5. ASSUME NEW t \in Task, Enqueue(t)
      PROVE  Typed'
  <2> DEFINE st == [status EXCEPT ![t] = "pending"]
             own == [owner EXCEPT ![t] = IF IsBook(t) THEN account ELSE Legacy]
             pr == [prog EXCEPT ![t] = 0]
  <2>1. /\ Processed(st, <<t>> \o list, pr, own)
        /\ home' = [home EXCEPT ![t] = account] /\ UNCHANGED <<restarts, switches>>
    BY <1>5 DEF Enqueue
  <2>2. own \in [Task -> Account] /\ pr \in [Task -> 0..2] /\ home' \in [Task -> Account]
    BY <1>0, <2>1
  <2> HIDE DEF st, own, pr
  <2> QED
    BY <2>1, <2>2, ProcessedTyped
<1>6. ASSUME NEW t \in Task, Retry(t)
      PROVE  Typed'
  <2> DEFINE st == [status EXCEPT ![t] = "pending"]
             pr == [prog EXCEPT ![t] = 0]
  <2>1. Processed(st, list, pr, owner) /\ UNCHANGED <<home, restarts, switches>>
    BY <1>6 DEF Retry
  <2>2. pr \in [Task -> 0..2]
    BY <1>0
  <2> HIDE DEF st, pr
  <2> QED
    BY <1>0, <2>1, <2>2, ProcessedTyped
<1>7. ASSUME NEW t \in Task, Complete(t) \/ Fail(t)
      PROVE  Typed'
  BY <1>7, SettleTyped DEF Complete, Fail
<1>8. ASSUME NEW t \in Task, Progress(t)
      PROVE  Typed'
  <2>1. prog' \in [Task -> 0..2]
    BY <1>0, <1>8 DEF Progress
  <2> QED
    BY <1>8, <2>1 DEF Progress, Typed
<1>9. ASSUME NEW a \in Account, SwitchAccount(a)
      PROVE  Typed'
  <2>1. switches' \in 0..MaxSwitches
    BY <1>9, ConstantsOK DEF SwitchAccount, Typed, ConstantsOK
  <2> QED
    BY <1>9, <2>1 DEF SwitchAccount, Typed, queueVars, diskVars
<1>10. CASE UNCHANGED <<prog, owner, home, diskVars, restarts, switches>>
  BY <1>10 DEF Typed, diskVars
<1> QED
  BY <1>1, <1>2, <1>3, <1>4, <1>5, <1>6, <1>7, <1>8, <1>9, <1>10
     DEF Next, Restart, RestartAfterRecord, StartTransfer, ClearCompleted, Remove, vars, queueVars

\* All invariants of the queue together.
LEMMA QueueInvariant == Spec => [](Typed /\ ListInv /\ WorkerInv)
<1>1. Typed /\ ListInv /\ WorkerInv /\ [Next]_vars => (Typed /\ ListInv /\ WorkerInv)'
  <2> SUFFICES ASSUME Typed, ListInv, WorkerInv, [Next]_vars
               PROVE  (Typed /\ ListInv /\ WorkerInv)'
    OBVIOUS
  <2>1. ListInv' /\ WorkerInv'
    BY ListInvStep, WorkerInvStep
  <2>2. Types /\ status' \in [Task -> Status] /\ list' \in Seq(Task)
    BY <2>1 DEF WorkerInv, Types, ListInv, Fit, Matched
  <2> QED
    BY <2>1, <2>2, TypedStep
<1> QED
  BY <1>1, TypedInit, ListInvInit, WorkerInvInit, PTL DEF Spec

(* The types of the whole queue, its list and its file, for any numbers.    *)
THEOREM QueueTyped == Spec => []TypeOK
<1>1. Typed /\ ListInv /\ WorkerInv => TypeOK
  BY DEF Typed, ListInv, Fit, Matched, WorkerInv, Types, TypeOK
<1> QED
  BY <1>1, QueueInvariant, PTL

-----------------------------------------------------------------------------
(* A task that settles stands before those that settled before it, so it is *)
(* the first of those that are kept.                                        *)
LEMMA SettledFirst ==
  ASSUME Types, ListInv, NEW t \in Task, NEW s \in {"completed", "failed"},
         status[t] = "downloading"
  PROVE  t \in Elems(Kept(Marked(t, s), list))
<1> DEFINE st == Marked(t, s)
           S == With(st, Settled)
           o == Only(list, S)
<1>1. /\ list \in Seq(Task) /\ Simple(list) /\ Ordered(status, list)
      /\ Elems(list) = With(status, Live \cup Settled)
  BY DEF ListInv, Fit, Matched
<1>2. \A u \in Task : st[u] = IF u = t THEN s ELSE status[u]
  BY MarkedMatches
<1> HIDE DEF st
<1>3. t \in S /\ t \in Elems(list) /\ \A u \in S : st[u] \in Settled
  BY <1>1, <1>2 DEF With, Live, Settled
<1> HIDE DEF S
<1>4. /\ o \in Seq(Task) /\ Elems(o) = Elems(list) \cap S
      /\ Simple(o) /\ InOrderOf(o, list)
  BY <1>1, OnlyOrder, OnlyKeepsOrder
<1>5. DOMAIN o = 1..Len(o) /\ Len(o) \in Nat
  BY <1>4, LenProperties
<1> HIDE DEF o
<1>6. PICK p \in DOMAIN o : o[p] = t
  BY <1>3, <1>4 DEF Elems
<1>7. 1 \in DOMAIN o /\ (p # 1 => 1 < p)
  BY <1>5
<1>8. p = 1
  <2> SUFFICES ASSUME 1 < p PROVE FALSE
    BY <1>7
  <2>1. PICK i \in DOMAIN list, j \in DOMAIN list : i < j /\ list[i] = o[1] /\ list[j] = t
    BY <1>4, <1>6, <1>7 DEF InOrderOf
  <2>2. o[1] # t
    BY <1>4, <1>6, <1>7 DEF Simple
  <2>3. o[1] \in S /\ o[1] \in Task
    BY <1>1, <1>4, <1>7 DEF Elems, With
  <2>4. status[list[i]] \in Settled
    BY <1>2, <1>3, <2>1, <2>2, <2>3
  <2>5. status[t] \in Settled
    BY <1>1, <2>1, <2>4 DEF Ordered
  <2> QED
    BY <2>5 DEF Settled
<1>9. MaxSettled \in Nat /\ MaxSettled > 0
  BY ConstantsOK DEF ConstantsOK
<1>10. 1 \in DOMAIN First(MaxSettled, o) /\ First(MaxSettled, o)[1] = t
  BY <1>4, <1>6, <1>7, <1>8, <1>9, FirstOf
<1>11. Kept(st, list) = First(MaxSettled, o)
  BY DEF Kept, o, S
<1> QED
  BY <1>10, <1>11 DEF Elems, st

\* The end of a download takes no unfinished task out of the queue.
LEMMA SettleDropsNone ==
  ASSUME Types, ListInv, NEW t \in Task, NEW s \in {"completed", "failed"},
         status[t] \in {"downloading", "gone"}, Settle(t, s),
         NEW u \in Task, status[u] \in Live
  PROVE  status'[u] # "gone"
<1> DEFINE reset == IF s = "completed" /\ status[t] # "gone" THEN [prog EXCEPT ![t] = 2] ELSE prog
<1>1. Dispatch(Marked(t, s), list, reset, active \ {t})
  BY Zenon DEF Settle
<1> HIDE DEF reset
<1>2. /\ Marked(t, s) \in [Task -> Status] /\ Matched(Marked(t, s), list)
      /\ Marked(t, s)[u] = IF u = t /\ status[t] # "gone" THEN s ELSE status[u]
  BY MarkedMatches
<1>3. status'[u] = "gone" => \/ Marked(t, s)[u] = "gone"
                            \/ /\ Marked(t, s)[u] \in Settled
                               /\ u \notin Elems(Kept(Marked(t, s), list))
  BY <1>1, <1>2, DispatchFits
<1>4. CASE u = t
  <2>1. status[t] = "downloading"
    BY <1>4 DEF Live
  <2> QED
    BY <1>2, <1>3, <1>4, <2>1, SettledFirst
<1>5. CASE u # t
  BY <1>2, <1>3, <1>5 DEF Live, Settled
<1> QED
  BY <1>4, <1>5

(* Nothing but the user's swipe takes an unfinished task of this account    *)
(* out of the queue: no prune, no claim, no failed save and no restart.     *)
THEOREM UnfinishedSafe == Spec => UnfinishedNeverDropped
<1>1. Typed /\ ListInv /\ WorkerInv /\ [Next]_vars =>
        [\A t \in Task : status[t] \in Live /\ status'[t] = "gone" =>
            Remove(t) \/ (IsBook(t) /\ owner[t] # account)]_vars
  <2> SUFFICES ASSUME Typed, ListInv, WorkerInv, Next, NEW t \in Task,
                      status[t] \in Live, status'[t] = "gone"
               PROVE  Remove(t) \/ (IsBook(t) /\ owner[t] # account)
    BY DEF vars
  <2>0. /\ Types /\ status \in [Task -> Status] /\ Matched(status, list)
        /\ \A u \in Task : phase[u] # "idle" => status[u] \in {"downloading", "gone"}
    BY DEF WorkerInv, Types, ChainsOfWorkers, WorkersMatchTasks, ListInv, Fit
  <2>1. CASE ProcessQueue
    BY <2>0, <2>1, ProcessedFits DEF ProcessQueue
  <2>2. CASE Reload
    BY <2>2 DEF Reload, ListInv, GoneForGood, Live
  <2>3. CASE ClearCompleted
    BY <2>0, <2>3 DEF ClearCompleted, Drop, With, Live
  <2>4. ASSUME NEW u \in Task, Enqueue(u)
        PROVE  IsBook(t) /\ owner[t] # account
    <3> DEFINE st == [status EXCEPT ![u] = "pending"]
               own == [owner EXCEPT ![u] = IF IsBook(u) THEN account ELSE Legacy]
    <3>1. status[u] = "fresh" /\ Processed(st, <<u>> \o list, [prog EXCEPT ![u] = 0], own)
      BY <2>4 DEF Enqueue
    <3>2. st \in [Task -> Status] /\ Matched(st, <<u>> \o list)
      BY <2>0, <3>1, EnqueuedMatches
    <3>3. t # u
      BY <3>1 DEF Live
    <3>4. st[t] = status[t]
      BY <2>0, <3>3
    <3>5. \A v \in Task : status[v] = "gone" => st[v] = "gone"
      BY <2>0, <3>1
    <3>6. own[t] = owner[t]
      BY <3>3 DEF Typed
    <3> HIDE DEF st, own
    <3>7. IsBook(t) /\ own[t] # account
      BY <3>1, <3>2, <3>4, <3>5, ProcessedFits
    <3> QED
      BY <3>6, <3>7
  <2>5. ASSUME NEW u \in Task, Retry(u)
        PROVE  IsBook(t) /\ owner[t] # account
    <3> DEFINE st == [status EXCEPT ![u] = "pending"]
    <3>1. status[u] = "failed" /\ Processed(st, list, [prog EXCEPT ![u] = 0], owner)
      BY <2>5 DEF Retry
    <3>2. /\ st \in [Task -> Status]
          /\ \A v \in Task : st[v] = IF v = u THEN "pending" ELSE status[v]
      BY <2>0 DEF Status, Live
    <3> HIDE DEF st
    <3>3. With(st, Live \cup Settled) = With(status, Live \cup Settled)
      BY <3>1, <3>2 DEF With, Live, Settled
    <3>4. /\ Matched(st, list) /\ st[t] = status[t]
          /\ \A v \in Task : status[v] = "gone" => st[v] = "gone"
      BY <2>0, <3>1, <3>2, <3>3 DEF Matched, Live
    <3> QED
      BY <3>1, <3>2, <3>4, ProcessedFits
  <2>6. ASSUME NEW u \in Task, Remove(u)
        PROVE  u = t
    BY <2>0, <2>6 DEF Remove, Drop, Live
  <2>7. ASSUME NEW u \in Task, Complete(u) \/ Fail(u)
        PROVE  FALSE
    BY <2>0, <2>7, SettleDropsNone DEF Complete, Fail
  <2>8. CASE UNCHANGED status
    BY <2>8 DEF Live
  <2> QED
    BY <2>1, <2>2, <2>3, <2>4, <2>5, <2>6, <2>7, <2>8
       DEF Next, Restart, RestartAfterRecord, PersistTimer, StartTransfer, Progress,
           SwitchAccount, queueVars
<1> QED
  BY <1>1, QueueInvariant, PTL DEF Spec, UnfinishedNeverDropped

-----------------------------------------------------------------------------
\* What an account switch would do if AccountManager failed the waiting tasks
\* of the account it leaves: no talebook task waits when it comes.
NoneWaitsAtSwitch == account' # account => \A t \in Task : IsBook(t) => status[t] # "pending"

\* What a restart finds if only the legacy account has tasks in the file, the
\* one account whose tasks normalizeTask reads as what they are.
OnlyLegacySaved ==
  restarts' # restarts =>
    \A t \in Task : IsBook(t) /\ disk.status[t] \in Live \cup Settled => home[t] = Legacy

WaitingOwn == mode = "run" => \A t \in Task : IsBook(t) /\ status[t] = "pending" => owner[t] = account

OwnedByHome == \A t \in Task : IsBook(t) /\ status[t] \in Live \cup Settled => owner[t] = home[t]

\* The workers that a turn adds are of the current account.
ClaimsOwn == \A t \in active' \ active : IsBook(t) => owner'[t] = account

-----------------------------------------------------------------------------
(* A turn claims what waited, and lets nothing else wait, fail or come to   *)
(* the queue.                                                               *)
LEMMA DispatchClaims ==
  ASSUME NEW st \in [Task -> Status], NEW l, NEW pr, NEW act, Dispatch(st, l, pr, act)
  PROVE  /\ \A t \in Task : status'[t] = "pending" => st[t] = "pending"
         /\ \A t \in Task : status'[t] = "failed" => st[t] = "failed"
         /\ \A t \in Task : status'[t] \in Live \cup Settled => st[t] \in Live \cup Settled
         /\ \A t \in active' \ act : t \in Task /\ st[t] = "pending"
<1>1. PICK C \in Claims(st, l, act) :
        /\ active' = act \cup C
        /\ status' = PrunedStatus([u \in Task |-> IF u \in C THEN "downloading" ELSE st[u]], l)
  BY Zenon DEF Dispatch
<1>2. C \subseteq With(st, {"pending"})
  BY DEF Claims
<1> QED
  BY <1>1, <1>2 DEF PrunedStatus, With, Live, Settled

\* processQueue never claims a task of another account.
LEMMA ProcessedClaimsOwn ==
  ASSUME NEW st \in [Task -> Status], NEW l, NEW pr, NEW own, Processed(st, l, pr, own)
  PROVE  /\ owner' = own
         /\ \A t \in Task : IsBook(t) /\ status'[t] = "pending" => own[t] = account
         /\ \A t \in active' \ active : IsBook(t) => own[t] = account
         /\ \A t \in Task : status'[t] \in Live \cup Settled => st[t] \in Live \cup Settled
         /\ \A t \in Task : status'[t] = "failed" =>
              st[t] = "failed" \/ (IsBook(t) /\ own[t] # account)
<1> DEFINE ready == ForeignFailed(Recovered(st), own)
           reset == [u \in Task |-> IF u \in Stale(st) THEN 0 ELSE pr[u]]
<1>1. Dispatch(ready, l, reset, active) /\ owner' = own
  BY DEF Processed
<1>2. /\ ready \in [Task -> Status]
      /\ \A t \in Task : IsBook(t) /\ ready[t] = "pending" => own[t] = account
      /\ \A t \in Task : ready[t] \in Live \cup Settled => st[t] \in Live \cup Settled
      /\ \A t \in Task : ready[t] = "failed" =>
           st[t] = "failed" \/ (IsBook(t) /\ own[t] # account)
  BY DEF ForeignFailed, Recovered, Stale, Status, Live, Settled
<1> HIDE DEF ready, reset
<1>3. /\ \A t \in Task : status'[t] = "pending" => ready[t] = "pending"
      /\ \A t \in Task : status'[t] = "failed" => ready[t] = "failed"
      /\ \A t \in Task : status'[t] \in Live \cup Settled => ready[t] \in Live \cup Settled
      /\ \A t \in active' \ active : t \in Task /\ ready[t] = "pending"
  BY <1>1, <1>2, DispatchClaims
<1> QED
  BY <1>1, <1>2, <1>3

\* The three operations that process the queue.
LEMMA QueueTurns ==
  ASSUME Typed, WorkerInv,
         ProcessQueue \/ (\E t \in Task : Enqueue(t)) \/ (\E t \in Task : Retry(t))
  PROVE  /\ account' = account /\ restarts' = restarts
         /\ \A t \in Task : IsBook(t) /\ status'[t] = "pending" => owner'[t] = account
         /\ ClaimsOwn
         /\ OwnedByHome => OwnedByHome'
         /\ \A t \in Task : status'[t] = "failed" =>
              status[t] = "failed" \/ (IsBook(t) /\ owner'[t] # account)
         /\ \A t \in Task : status[t] \in Live => owner'[t] = owner[t]
<1>0. /\ status \in [Task -> Status]
      /\ owner \in [Task -> Account] /\ home \in [Task -> Account]
  BY DEF WorkerInv, Types, Typed
<1>1. CASE ProcessQueue
  BY <1>0, <1>1, ProcessedClaimsOwn DEF ProcessQueue, ClaimsOwn, OwnedByHome
<1>2. CASE \E t \in Task : Enqueue(t)
  <2>1. PICK u \in Task : Enqueue(u)
    BY <1>2
  <2> DEFINE st == [status EXCEPT ![u] = "pending"]
             own == [owner EXCEPT ![u] = IF IsBook(u) THEN account ELSE Legacy]
  <2>2. /\ status[u] = "fresh" /\ Processed(st, <<u>> \o list, [prog EXCEPT ![u] = 0], own)
        /\ home' = [home EXCEPT ![u] = account] /\ account' = account /\ restarts' = restarts
    BY <2>1 DEF Enqueue
  <2>3. /\ st \in [Task -> Status]
        /\ \A v \in Task : st[v] = IF v = u THEN "pending" ELSE status[v]
        /\ \A v \in Task : own[v] = IF v = u THEN (IF IsBook(u) THEN account ELSE Legacy)
                                    ELSE owner[v]
        /\ \A v \in Task : home'[v] = IF v = u THEN account ELSE home[v]
    BY <1>0, <2>2 DEF Status, Live
  <2> HIDE DEF st, own
  <2>4. /\ owner' = own
        /\ \A t \in Task : IsBook(t) /\ status'[t] = "pending" => own[t] = account
        /\ \A t \in active' \ active : IsBook(t) => own[t] = account
        /\ \A t \in Task : status'[t] \in Live \cup Settled => st[t] \in Live \cup Settled
        /\ \A t \in Task : status'[t] = "failed" =>
             st[t] = "failed" \/ (IsBook(t) /\ own[t] # account)
    BY <2>2, <2>3, ProcessedClaimsOwn
  <2>5. \A t \in Task : status'[t] = "failed" =>
          status[t] = "failed" \/ (IsBook(t) /\ owner'[t] # account)
    BY <2>3, <2>4
  <2>6. \A t \in Task : status[t] \in Live => owner'[t] = owner[t]
    BY <2>2, <2>3, <2>4 DEF Live
  <2>7. OwnedByHome => OwnedByHome'
    BY <2>3, <2>4 DEF OwnedByHome
  <2> QED
    BY <2>2, <2>4, <2>5, <2>6, <2>7 DEF ClaimsOwn
<1>3. CASE \E t \in Task : Retry(t)
  <2>1. PICK u \in Task : Retry(u)
    BY <1>3
  <2> DEFINE st == [status EXCEPT ![u] = "pending"]
  <2>2. /\ status[u] = "failed" /\ Processed(st, list, [prog EXCEPT ![u] = 0], owner)
        /\ UNCHANGED <<home, account, restarts>>
    BY <2>1 DEF Retry
  <2>3. /\ st \in [Task -> Status]
        /\ \A v \in Task : st[v] = IF v = u THEN "pending" ELSE status[v]
    BY <1>0 DEF Status, Live
  <2> HIDE DEF st
  <2>4. /\ owner' = owner
        /\ \A t \in Task : IsBook(t) /\ status'[t] = "pending" => owner[t] = account
        /\ \A t \in active' \ active : IsBook(t) => owner[t] = account
        /\ \A t \in Task : status'[t] \in Live \cup Settled => st[t] \in Live \cup Settled
        /\ \A t \in Task : status'[t] = "failed" =>
             st[t] = "failed" \/ (IsBook(t) /\ owner[t] # account)
    BY <2>2, <2>3, ProcessedClaimsOwn
  <2> QED
    BY <2>2, <2>3, <2>4 DEF ClaimsOwn, OwnedByHome, Live, Settled
<1> QED
  BY <1>1, <1>2, <1>3

\* The end of runTask claims what waited, whose ever it is.
LEMMA EndsOfRuns ==
  ASSUME Typed, WorkerInv, NEW u \in Task, Complete(u) \/ Fail(u)
  PROVE  /\ UNCHANGED <<owner, home, account, restarts>> /\ mode = "run" /\ u \in active
         /\ \A t \in Task : status'[t] = "pending" => status[t] = "pending"
         /\ \A t \in Task : status'[t] = "failed" => status[t] = "failed" \/ t = u
         /\ \A t \in Task : status'[t] \in Live \cup Settled => status[t] \in Live \cup Settled
         /\ \A t \in active' \ active : t \in Task /\ status[t] = "pending"
<1>0. /\ status \in [Task -> Status] /\ phase[u] # "idle" /\ mode \in {"boot", "run"}
  BY DEF WorkerInv, Types, Complete, Fail
<1>1. u \in active /\ mode = "run" /\ status[u] \in {"downloading", "gone"}
  BY <1>0 DEF WorkerInv, ChainsOfWorkers, WorkersMatchTasks
<1>2. PICK s \in {"completed", "failed"} : Settle(u, s)
  BY DEF Complete, Fail
<1> DEFINE reset == IF s = "completed" /\ status[u] # "gone" THEN [prog EXCEPT ![u] = 2] ELSE prog
<1>3. /\ Dispatch(Marked(u, s), list, reset, active \ {u})
      /\ UNCHANGED <<owner, home, account, restarts>>
  BY <1>2 DEF Settle
<1>4. /\ Marked(u, s) \in [Task -> Status]
      /\ \A t \in Task : t # u => Marked(u, s)[t] = status[t]
      /\ Marked(u, s)[u] # "pending"
      /\ Marked(u, s)[u] \in Live \cup Settled => status[u] \in Live \cup Settled
  BY <1>0, <1>1 DEF Marked, Status, Settled, Live
<1> HIDE DEF reset
<1>5. /\ \A t \in Task : status'[t] = "pending" => Marked(u, s)[t] = "pending"
      /\ \A t \in Task : status'[t] = "failed" => Marked(u, s)[t] = "failed"
      /\ \A t \in Task : status'[t] \in Live \cup Settled => Marked(u, s)[t] \in Live \cup Settled
      /\ \A t \in active' \ (active \ {u}) : t \in Task /\ Marked(u, s)[t] = "pending"
  BY <1>3, <1>4, DispatchClaims
<1> QED
  BY <1>1, <1>3, <1>4, <1>5

(* The remaining steps of a process: a task may leave the queue, and        *)
(* nothing else changes of what waits and who owns it.                      *)
LEMMA OtherSteps ==
  ASSUME Typed, WorkerInv,
         \/ ClearCompleted \/ PersistTimer \/ UNCHANGED vars
         \/ \E t \in Task : Remove(t) \/ StartTransfer(t) \/ Progress(t)
         \/ \E a \in Account : SwitchAccount(a)
  PROVE  /\ UNCHANGED <<owner, home, active, mode, restarts>>
         /\ account' # account => status' = status
         /\ \A t \in Task : status'[t] = status[t] \/ status'[t] = "gone"
<1>0. status \in [Task -> Status]
  BY DEF WorkerInv, Types
<1>1. CASE \E S : Drop(S)
  BY <1>0, <1>1 DEF Drop, workerVars
<1>2. CASE \/ PersistTimer \/ UNCHANGED vars
           \/ \E t \in Task : StartTransfer(t) \/ Progress(t)
           \/ \E a \in Account : SwitchAccount(a)
  BY <1>2 DEF PersistTimer, vars, queueVars, workerVars, StartTransfer, Progress, SwitchAccount
<1> QED
  BY <1>1, <1>2 DEF ClearCompleted, Remove

(* Who claims a foreign task: never processQueue, which fails them first,   *)
(* but the end of runTask, which hands its slot on without that.            *)
ForeignClaimAtEndOnly == [][(\E t \in Task : Complete(t) \/ Fail(t)) \/ ClaimsOwn]_vars

THEOREM ForeignClaimsAtEnd == Spec => ForeignClaimAtEndOnly
<1>1. Typed /\ WorkerInv /\ [Next]_vars => [(\E t \in Task : Complete(t) \/ Fail(t)) \/ ClaimsOwn]_vars
  <2> SUFFICES ASSUME Typed, WorkerInv, Next, ~\E t \in Task : Complete(t) \/ Fail(t) PROVE ClaimsOwn
    OBVIOUS
  <2>1. CASE ProcessQueue \/ (\E t \in Task : Enqueue(t)) \/ (\E t \in Task : Retry(t))
    BY <2>1, QueueTurns
  <2>2. CASE Reload
    BY <2>2 DEF Reload, ClaimsOwn
  <2>3. CASE \/ ClearCompleted \/ PersistTimer
             \/ \E t \in Task : Remove(t) \/ StartTransfer(t) \/ Progress(t)
             \/ \E a \in Account : SwitchAccount(a)
    BY <2>3, OtherSteps DEF ClaimsOwn
  <2> QED
    BY <2>1, <2>2, <2>3 DEF Next, Restart, RestartAfterRecord
<1> QED
  BY <1>1, QueueInvariant, PTL DEF Spec, ForeignClaimAtEndOnly

\* What waits stays the current account's, and so does what is claimed.
LEMMA WaitingOwnStep ==
  ASSUME Typed, WorkerInv, WaitingOwn, NoneWaitsAtSwitch, [Next]_vars
  PROVE  WaitingOwn' /\ ClaimsOwn
<1>1. CASE ProcessQueue \/ (\E t \in Task : Enqueue(t)) \/ (\E t \in Task : Retry(t))
  BY <1>1, QueueTurns DEF WaitingOwn
<1>2. CASE Reload
  BY <1>2 DEF Reload, WaitingOwn, ClaimsOwn
<1>3. CASE \/ ClearCompleted \/ PersistTimer \/ UNCHANGED vars
           \/ \E t \in Task : Remove(t) \/ StartTransfer(t) \/ Progress(t)
           \/ \E a \in Account : SwitchAccount(a)
  <2>1. /\ UNCHANGED <<owner, active, mode>>
        /\ account' # account => status' = status
        /\ \A t \in Task : status'[t] = status[t] \/ status'[t] = "gone"
    BY <1>3, OtherSteps
  <2> QED
    BY <2>1 DEF WaitingOwn, ClaimsOwn, NoneWaitsAtSwitch
<1>4. CASE \E u \in Task : Complete(u) \/ Fail(u)
  <2>1. /\ UNCHANGED <<owner, account>> /\ mode = "run"
        /\ \A t \in Task : status'[t] = "pending" => status[t] = "pending"
        /\ \A t \in active' \ active : t \in Task /\ status[t] = "pending"
    BY <1>4, EndsOfRuns
  <2> QED
    BY <2>1 DEF WaitingOwn, ClaimsOwn
<1> QED
  BY <1>1, <1>2, <1>3, <1>4 DEF Next, Restart, RestartAfterRecord

(* NoForeignClaim, which the code breaks, has one cause: were no talebook   *)
(* task waiting whenever the account is switched, no turn would ever start  *)
(* one of another account, whatever fails, is retried or removed, and       *)
(* whatever the file brings back after a death.                             *)
THEOREM NoForeignClaimUnlessLeftWaiting == Spec /\ [][NoneWaitsAtSwitch]_vars => NoForeignClaim
<1>1. Init => WaitingOwn
  BY DEF Init, WaitingOwn
<1>2. Typed /\ WorkerInv /\ WaitingOwn /\ [Next]_vars /\ [NoneWaitsAtSwitch]_vars
        => WaitingOwn' /\ ClaimsOwn
  <2>1. UNCHANGED vars => NoneWaitsAtSwitch
    BY DEF vars, NoneWaitsAtSwitch
  <2> QED
    BY <2>1, WaitingOwnStep
<1>3. ClaimsOwn => [\A t \in active' \ active : IsBook(t) => owner'[t] = account]_vars
  BY DEF ClaimsOwn
<1> QED
  BY <1>1, <1>2, <1>3, QueueInvariant, PTL DEF Spec, NoForeignClaim

\* The owner of a task is who enqueued it, unless a restart forgets that.
LEMMA OwnedStep ==
  ASSUME Typed, WorkerInv, OwnedByHome, OnlyLegacySaved, [Next]_vars
  PROVE  /\ OwnedByHome'
         /\ restarts' = restarts =>
              \A t \in Task : IsBook(t) /\ home[t] = account /\ t \notin active /\ status[t] \in Live
                              => status'[t] # "failed"
<1>0. restarts \in 0..MaxRestarts
  BY DEF Typed
<1>1. CASE ProcessQueue \/ (\E t \in Task : Enqueue(t)) \/ (\E t \in Task : Retry(t))
  <2>1. /\ OwnedByHome'
        /\ \A t \in Task : status'[t] = "failed" =>
             status[t] = "failed" \/ (IsBook(t) /\ owner'[t] # account)
        /\ \A t \in Task : status[t] \in Live => owner'[t] = owner[t]
    BY <1>1, QueueTurns
  <2> QED
    BY <2>1 DEF OwnedByHome, Live
<1>2. CASE Reload
  <2>1. restarts' # restarts
    BY <1>0, <1>2 DEF Reload
  <2>2. OwnedByHome'
    BY <1>2, <2>1 DEF Reload, OwnedByHome, OnlyLegacySaved
  <2> QED
    BY <2>1, <2>2
<1>3. CASE \/ ClearCompleted \/ PersistTimer \/ UNCHANGED vars
           \/ \E t \in Task : Remove(t) \/ StartTransfer(t) \/ Progress(t)
           \/ \E a \in Account : SwitchAccount(a)
  <2>1. /\ UNCHANGED <<owner, home>>
        /\ \A t \in Task : status'[t] = status[t] \/ status'[t] = "gone"
    BY <1>3, OtherSteps
  <2> QED
    BY <2>1 DEF OwnedByHome, Live, Settled
<1>4. CASE \E u \in Task : Complete(u) \/ Fail(u)
  <2>1. PICK u \in Task : Complete(u) \/ Fail(u)
    BY <1>4
  <2>2. /\ UNCHANGED <<owner, home>> /\ u \in active
        /\ \A t \in Task : status'[t] = "failed" => status[t] = "failed" \/ t = u
        /\ \A t \in Task : status'[t] \in Live \cup Settled => status[t] \in Live \cup Settled
    BY <2>1, EndsOfRuns
  <2> QED
    BY <2>2 DEF OwnedByHome, Live
<1> QED
  BY <1>1, <1>2, <1>3, <1>4 DEF Next, Restart, RestartAfterRecord

(* OwnTaskNotFailedAsForeign, which the code breaks, has one cause: the     *)
(* owner that a restart loses.  Were every talebook task in the file at a   *)
(* process death one of the legacy account, for which the lost accountId    *)
(* stands, no task of the current account would fail before it runs.        *)
THEOREM OwnTaskSafeUnlessForgotten ==
  Spec /\ [][OnlyLegacySaved]_vars => OwnTaskNotFailedAsForeign
<1>1. Init => OwnedByHome
  BY DEF Init, OwnedByHome, Live, Settled
<1>2. Typed /\ WorkerInv /\ OwnedByHome /\ [Next]_vars /\ [OnlyLegacySaved]_vars
        => /\ OwnedByHome'
           /\ [restarts' = restarts =>
                 \A t \in Task : IsBook(t) /\ home[t] = account /\ t \notin active /\ status[t] \in Live
                                 => status'[t] # "failed"]_vars
  <2>1. UNCHANGED vars => OnlyLegacySaved
    BY DEF vars, OnlyLegacySaved
  <2> QED
    BY <2>1, OwnedStep
<1> QED
  BY <1>1, <1>2, QueueInvariant, PTL DEF Spec, OwnTaskNotFailedAsForeign
=============================================================================
