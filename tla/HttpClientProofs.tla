---------------------------- MODULE HttpClientProofs ----------------------------
(***************************************************************************)
(* Proofs about HttpClient, for any number of worker threads, accounts,    *)
(* calls, sessions, failed saves and process deaths.                       *)
(***************************************************************************)
EXTENDS HttpClient, SequenceTheorems, TLAPS

Handle == [live : Cookie, read : Cookie]

(* Work that is queued or runs on a thread of the pool has a promise.       *)
Items ==
  /\ \A n \in 1..Len(queue) : queue[n].item \in Item
  /\ \A w \in Worker : call[w].pc # "idle" => call[w].item \in Item

(* A file is half written only while a transfer writes to it.               *)
BookInv ==
  /\ book # "page"
  /\ book = "partial" =>
       \E t \in Thread : call[t].pc = "sent" /\ WritesBook(call[t]) /\ call[t].linked /\ call[t].clean

(* Who saves holds cookies that an answer left, and finds what it flushed   *)
(* as long as the other library does not come between.                      *)
SaveInv ==
  \A l \in Lib : save[l].by # None =>
    /\ call[save[l].by].lib = l /\ call[save[l].by].pc \in {"answered", "again"}
    /\ save[l].sole => tmp[save[l].root] = SentCookie(handle[l][save[l].by])

(* A session that is held anywhere is one the server gave.                  *)
Known(c, given) == c \in Session => c.no <= given[c.of]

CookiesKnown ==
  /\ \A r \in Root : Known(jar[r], logins) /\ Known(tmp[r], logins)
  /\ \A l \in Lib : Known(persisted[l], logins)
  /\ \A l \in Lib, t \in Thread :
       Known(handle[l][t].live, logins) /\ Known(handle[l][t].read, logins)

(* What "alone" says of a call.                                             *)
Quiet(t) == \A u \in Thread \ {t} : ~InRequest(u)

AloneInv ==
  /\ \A n \in 1..Len(queue) :
       queue[n].alone => \A l \in Lib : dir[l] = queue[n].account
  /\ \A n \in 1..Len(queue) : queue[n].pc = "start" /\ queue[n].got = "lost"
  /\ \A t \in Thread : call[t].alone =>
       /\ \A l \in Lib : dir[l] = call[t].account
       /\ InRequest(t) \/ (call[t].pc = "over" /\ call[t].got = "ok") => Quiet(t)

(* The session of a sign-in that the server accepted.                       *)
New(t) == [of |-> call[t].account, no |-> logins[call[t].account]]

Signed(t) == call[t].op = "signin" /\ call[t].got = "ok" /\ call[t].alone

LoginInv ==
  \A t \in Thread :
    /\ call[t].op = "signin" /\ call[t].pc = "again" => call[t].got # "ok"
    /\ Signed(t) /\ call[t].pc = "answered" =>
         /\ SentCookie(handle[call[t].lib][t]) = New(t) /\ \A l \in Lib : persisted[l] # New(t)
         /\ save[call[t].lib].by = t =>
              save[call[t].lib].sole /\ save[call[t].lib].root = call[t].account
    /\ Signed(t) /\ call[t].pc = "over" => jar[call[t].account] = New(t)

Saves == [by : Thread \cup {None}, root : Root, sole : BOOLEAN]

(* The types of the parts that the steps of a request change.               *)
LEMMA SmallTypes ==
  /\ Js \in Thread /\ Worker \subseteq Thread /\ "entry" \in Lib
  /\ NoSession \in Cookie /\ NoSession \in Cookie \cup {Absent} /\ Session \subseteq Cookie
  /\ NoCookies \in Handle
  /\ NoSave \in Saves /\ NoSave.by = None /\ None \notin Thread
  /\ Resting \in Call
  /\ \A l \in Lib : Op(l) \subseteq Op("entry")
  <1>1. Js \in Thread /\ Worker \subseteq Thread /\ "entry" \in Lib
    BY ConstantsOK DEF Thread
  <1>2. NoSession \in Cookie /\ Session \subseteq Cookie
    BY DEF Cookie
  <1>3. NoCookies \in Handle
    BY <1>2 DEF NoCookies, Handle
  <1>4. Resting \in Call
    BY <1>1, ConstantsOK DEF Resting, Call, Op, Answer
  <1>5. \A l \in Lib : Op(l) \subseteq Op("entry")
    BY ConstantsOK DEF Op
  <1>6. NoSave \in Saves /\ NoSave.by = None /\ None \notin Thread
    BY ConstantsOK DEF NoSave, Saves, Thread
  <1> QED  BY <1>1, <1>2, <1>3, <1>4, <1>5, <1>6

(* What a step makes of a call is a call.                                   *)
LEMMA CallUpdates ==
  ASSUME NEW c \in Call, NEW pc \in {"idle", "start", "sent", "answered", "again", "over"},
         NEW got \in Answer, NEW try \in {1, 2},
         NEW p \in BOOLEAN, NEW q \in BOOLEAN
  PROVE  /\ [c EXCEPT !.alone = p] \in Call
         /\ [c EXCEPT !.linked = p] \in Call
         /\ [c EXCEPT !.clean = p] \in Call
         /\ [c EXCEPT !.pc = pc, !.got = got] \in Call
         /\ [c EXCEPT !.pc = pc, !.linked = p, !.clean = q] \in Call
  BY DEF Call

(* The call that begins a request is a call.                                *)
LEMMA BeginUpdates ==
  ASSUME NEW c \in Call, NEW p \in BOOLEAN, NEW q \in BOOLEAN
  PROVE  [c EXCEPT !.pc = "sent", !.linked = p, !.clean = p, !.alone = q] \in Call
  BY DEF Call

(* A call that another one overlaps is a call.                              *)
LEMMA DisturbUpdates ==
  ASSUME NEW c \in Call, NEW p \in BOOLEAN
  PROVE  [c EXCEPT !.clean = p, !.alone = FALSE] \in Call
  BY DEF Call

(* A call that goes on after its save is a call.                            *)
LEMMA ProceedUpdates ==
  ASSUME NEW c \in Call, NEW pc \in {"start", "over"}, NEW try \in {1, 2}, NEW p \in BOOLEAN
  PROVE  [c EXCEPT !.pc = pc, !.try = try, !.alone = p] \in Call
  BY DEF Call

(* A new call is a call.                                                    *)
LEMMA NewCallType ==
  ASSUME NEW l \in Lib, NEW op \in Op("entry"), NEW i \in Item \cup {None}, dir \in [Lib -> Root]
  PROVE  NewCall(l, op, i) \in Call
  BY ConstantsOK DEF NewCall, Resting, Call, Op, Answer

(* Reading the file keeps a handle one; what it sends is a cookie.          *)
LEMMA CookieTypes ==
  ASSUME NEW h \in Handle
  PROVE  SentCookie(h) \in Cookie /\ \A c : ReadFile(h, c) \in Handle
  <1>1. SentCookie(h) \in Cookie
    BY DEF SentCookie, Handle
  <1>2. ASSUME NEW c PROVE ReadFile(h, c) \in Handle
    BY SmallTypes DEF ReadFile, Handle
  <1> QED  BY <1>1, <1>2

(* An answer leaves a handle one.                                           *)
LEMMA ReceivedType ==
  ASSUME NEW h \in Handle, NEW op, NEW account \in Root, NEW a,
         logins \in [Root -> 0..MaxLogins],
         op = "signin" /\ a = "ok" => logins[account] < MaxLogins
  PROVE  Received(h, op, account, a) \in Handle
  <1>1. CASE op = "signin" /\ a = "ok"
    <2> DEFINE s == [of |-> account, no |-> logins[account] + 1]
    <2>1. s \in Session
      BY <1>1, ConstantsOK DEF Session
    <2>2. [h EXCEPT !.live = s] \in Handle
      BY <2>1, SmallTypes DEF Handle
    <2> QED  BY <1>1, <2>2 DEF Received
  <1>2. CASE ~(op = "signin" /\ a = "ok")
    BY <1>2, SmallTypes DEF Received
  <1> QED  BY <1>1, <1>2

(* The clients have their types at start.                                   *)
LEMMA TypeInit == Init => TypeOK
  <1> SUFFICES ASSUME Init PROVE TypeOK
    OBVIOUS
  <1>1. dir \in [Lib -> Root] /\ written \in [Lib -> Root \cup {None}]
    BY ConstantsOK DEF Init
  <1>2. /\ jar \in [Root -> Cookie \cup {Absent}] /\ persisted \in [Lib -> Cookie]
        /\ tmp \in [Root -> Cookie \cup {Absent}] /\ save \in [Lib -> Saves]
    BY SmallTypes DEF Init
  <1>3. handle \in [Lib -> [Thread -> [live : Cookie, read : Cookie]]]
    BY SmallTypes DEF Init, Handle
  <1>4. call \in [Thread -> Call]
    BY SmallTypes DEF Init
  <1>5. logins \in [Root -> 0..MaxLogins] /\ events \in 0..MaxEvents
    BY ConstantsOK DEF Init
  <1>6. /\ queue \in Seq(Call) /\ finished \in Seq(Item) /\ promises \subseteq Item
        /\ book \in {"absent", "partial", "whole", "other", "page", "cut"}
    BY DEF Init
  <1> QED  BY <1>1, <1>2, <1>3, <1>4, <1>5, <1>6 DEF TypeOK, Saves

(* Every step keeps the types.                                              *)
LEMMA TypeNext == TypeOK /\ Items /\ [Next]_vars => TypeOK'
  <1> SUFFICES ASSUME TypeOK, Items, [Next]_vars PROVE TypeOK'
    OBVIOUS
  <1>0. /\ dir \in [Lib -> Root]
        /\ jar \in [Root -> Cookie \cup {Absent}]
        /\ tmp \in [Root -> Cookie \cup {Absent}]
        /\ save \in [Lib -> Saves]
        /\ persisted \in [Lib -> Cookie]
        /\ written \in [Lib -> Root \cup {None}]
        /\ handle \in [Lib -> [Thread -> Handle]]
        /\ call \in [Thread -> Call]
        /\ queue \in Seq(Call)
        /\ finished \in Seq(Item)
        /\ promises \subseteq Item
        /\ book \in {"absent", "partial", "whole", "other", "page", "cut"}
        /\ logins \in [Root -> 0..MaxLogins]
        /\ events \in 0..MaxEvents
    BY DEF TypeOK, Handle, Saves
  <1>e. Event \/ UNCHANGED events => events' \in 0..MaxEvents
    BY <1>0, ConstantsOK DEF Event
  \* Steps that leave the types of what they do not name.
  <1>t. ASSUME dir' \in [Lib -> Root],
               jar' \in [Root -> Cookie \cup {Absent}],
               tmp' \in [Root -> Cookie \cup {Absent}],
               save' \in [Lib -> Saves],
               persisted' \in [Lib -> Cookie],
               written' \in [Lib -> Root \cup {None}],
               handle' \in [Lib -> [Thread -> Handle]],
               call' \in [Thread -> Call],
               queue' \in Seq(Call),
               finished' \in Seq(Item),
               promises' \subseteq Item,
               book' \in {"absent", "partial", "whole", "other", "page", "cut"},
               logins' \in [Root -> 0..MaxLogins],
               events' \in 0..MaxEvents
        PROVE  TypeOK'
    BY <1>t DEF TypeOK, Handle, Saves
  <1>1. ASSUME NEW l \in Lib, NEW r \in Root, SetIdentityDir(l, r) PROVE TypeOK'
    <2>1. dir' \in [Lib -> Root] /\ events' \in 0..MaxEvents
      BY <1>0, <1>1, <1>e DEF SetIdentityDir
    <2>2. call' \in [Thread -> Call]
      BY <1>0, <1>1 DEF SetIdentityDir, Call
    <2>3. queue' \in Seq(Call)
      <3>1. \A n \in 1..Len(queue) : [queue[n] EXCEPT !.alone = FALSE] \in Call
        <4>1. \A n \in 1..Len(queue) : queue[n] \in Call
          BY <1>0, ElementOfSeq
        <4> QED  BY <4>1 DEF Call
      <3>2. DOMAIN queue = 1..Len(queue) /\ Len(queue) \in Nat
        BY <1>0, LenProperties
      <3>3. queue' = [n \in 1..Len(queue) |-> [queue[n] EXCEPT !.alone = FALSE]]
        BY <1>1, <3>2 DEF SetIdentityDir
      <3> QED  BY <3>1, <3>2, <3>3, SeqDef
    <2> QED  BY <1>0, <1>1, <1>t, <2>1, <2>2, <2>3 DEF SetIdentityDir, jars
  <1>2. ASSUME NEW l \in Lib, NEW op \in AsyncOp(l), Enqueue(l, op) PROVE TypeOK'
    <2> DEFINE i == CHOOSE i \in Item : i \notin promises
    <2>1. i \in Item
      BY <1>0, <1>2 DEF Enqueue
    <2>2. NewCall(l, op, i) \in Call
      BY <1>0, <2>1, NewCallType, SmallTypes DEF AsyncOp
    <2>3. queue' = Append(queue, NewCall(l, op, i)) /\ promises' = promises \cup {i}
      BY <1>2 DEF Enqueue
    <2> HIDE DEF i
    <2>4. queue' \in Seq(Call) /\ promises' \subseteq Item
      BY <1>0, <2>1, <2>2, <2>3, AppendProperties
    <2> QED  BY <1>0, <1>2, <1>e, <1>t, <2>4 DEF Enqueue, jars
  <1>3. ASSUME NEW l \in Lib, NEW op \in SyncOp(l), CallNow(l, op) PROVE TypeOK'
    <2>1. NewCall(l, op, None) \in Call
      BY <1>0, NewCallType, SmallTypes DEF SyncOp
    <2>2. call' \in [Thread -> Call]
      BY <1>0, <1>3, <2>1 DEF CallNow
    <2> QED  BY <1>0, <1>3, <1>e, <1>t, <2>2 DEF CallNow, jars
  <1>4. ASSUME NEW w \in Worker, Execute(w) PROVE TypeOK'
    <2>1. Head(queue) \in Call /\ Tail(queue) \in Seq(Call)
      BY <1>0, <1>4, HeadTailProperties DEF Execute
    <2>2. call' \in [Thread -> Call] /\ queue' \in Seq(Call)
      BY <1>0, <1>4, <2>1 DEF Execute
    <2> QED  BY <1>0, <1>4, <1>t, <2>2 DEF Execute, jars
  <1>5. ASSUME NEW t \in Thread, NotSent(t) PROVE TypeOK'
    <2>1. call' \in [Thread -> Call]
      <3>1. [call[t] EXCEPT !.pc = "over", !.got = "lost"] \in Call
        BY <1>0, CallUpdates DEF Answer
      <3> QED  BY <1>0, <1>5, <3>1 DEF NotSent
    <2> QED  BY <1>0, <1>5, <1>t, <2>1 DEF NotSent, jars
  <1>6. ASSUME NEW t \in Thread, Begin(t) PROVE TypeOK'
    <2> DEFINE l == call[t].lib
    <2>1. l \in Lib /\ call[t].op \in Op("entry")
      BY <1>0 DEF Call
    <2>2. ReadFile(handle[l][t], jar[dir[l]]) \in Handle
      BY <1>0, <2>1, CookieTypes
    <2>3. handle' \in [Lib -> [Thread -> Handle]]
      BY <1>0, <1>6, <2>1, <2>2 DEF Begin
    <2>4. call' \in [Thread -> Call]
      <3> DEFINE W == WritesBook(call[t])
                 A == call[t].alone /\ \A v \in Thread \ {t} : ~InRequest(v)
                 C(u) == call[u].clean /\ ~(W /\ call[u].linked)
      <3>1. W \in BOOLEAN /\ A \in BOOLEAN /\ \A u \in Thread : C(u) \in BOOLEAN
        BY DEF WritesBook
      <3>2. call' = [u \in Thread |->
              IF u = t THEN [call[t] EXCEPT !.pc = "sent", !.linked = W, !.clean = W, !.alone = A]
              ELSE [call[u] EXCEPT !.clean = C(u), !.alone = FALSE]]
        BY <1>6 DEF Begin
      <3> HIDE DEF W, A, C
      <3>3. [call[t] EXCEPT !.pc = "sent", !.linked = W, !.clean = W, !.alone = A] \in Call
        <4>1. call[t] \in Call
          BY <1>0
        <4> QED  BY <3>1, <4>1, BeginUpdates, Zenon
      <3>4. ASSUME NEW u \in Thread
            PROVE  [call[u] EXCEPT !.clean = C(u), !.alone = FALSE] \in Call
        <4>1. call[u] \in Call /\ FALSE \in BOOLEAN
          BY <1>0
        <4> QED  BY <3>1, <4>1, DisturbUpdates, Zenon
      <3> QED  BY <3>2, <3>3, <3>4
    <2>5. book' \in {"absent", "partial", "whole", "other", "page", "cut"}
      BY <1>0, <1>6 DEF Begin
    <2> QED  BY <1>0, <1>6, <1>t, <2>3, <2>4, <2>5 DEF Begin, jars
  <1>7. ASSUME NEW t \in Thread, NEW a \in Answer, Answered(t, a) PROVE TypeOK'
    <2> DEFINE c == call[t]
    <2>1. c.lib \in Lib /\ c.account \in Root /\ c \in Call
      BY <1>0 DEF Call
    <2>2. Received(handle[c.lib][t], c.op, c.account, a) \in Handle
      <3>1. handle[c.lib][t] \in Handle
        BY <1>0, <2>1
      <3>2. c.op = "signin" /\ a = "ok" => logins[c.account] < MaxLogins
        BY <1>7 DEF Answered
      <3> HIDE DEF c
      <3> QED  BY <1>0, <2>1, <3>1, <3>2, ReceivedType
    <2>3. handle' \in [Lib -> [Thread -> Handle]]
      BY <1>0, <1>7, <2>1, <2>2 DEF Answered
    <2>4. logins' \in [Root -> 0..MaxLogins]
      BY <1>0, <1>7, <2>1, ConstantsOK DEF Answered
    <2>5. call' \in [Thread -> Call]
      <3>1. PICK retry \in Retries(c.op) :
              call' = [call EXCEPT ![t] = [c EXCEPT
                        !.pc = IF retry /\ ~Success(c.op, a) /\ MayRetry(c.try) THEN "again"
                               ELSE "answered",
                        !.got = IF c.op = "signin" THEN a ELSE @]]
        BY <1>7 DEF Answered
      <3> DEFINE pc == IF retry /\ ~Success(c.op, a) /\ MayRetry(c.try) THEN "again" ELSE "answered"
                 got == IF c.op = "signin" THEN a ELSE c.got
      <3>2. pc \in {"again", "answered"} /\ got \in Answer
        BY <1>0 DEF Call
      <3>3. call' = [call EXCEPT ![t] = [c EXCEPT !.pc = pc, !.got = got]]
        BY <3>1
      <3> HIDE DEF pc, got, c
      <3>4. [c EXCEPT !.pc = pc, !.got = got] \in Call
        BY <2>1, <3>2, CallUpdates
      <3> QED  BY <1>0, <3>3, <3>4
    <2> QED  BY <1>0, <1>7, <1>t, <2>3, <2>4, <2>5 DEF Answered, jars
  <1>8. ASSUME NEW t \in Thread, NEW a \in Answer, Downloaded(t, a) PROVE TypeOK'
    <2>1. call' \in [Thread -> Call]
      <3> DEFINE K(u) == call[u].linked /\ Keeps(a)
      <3>1. \A u \in Thread : K(u) \in BOOLEAN
        OBVIOUS
      <3>2. call' = [u \in Thread |->
              IF u = t THEN [call[t] EXCEPT !.pc = "answered", !.linked = FALSE, !.clean = FALSE]
              ELSE [call[u] EXCEPT !.linked = K(u)]]
        BY <1>8 DEF Downloaded
      <3> HIDE DEF K
      <3>3. [call[t] EXCEPT !.pc = "answered", !.linked = FALSE, !.clean = FALSE] \in Call
        BY <1>0, CallUpdates
      <3>4. \A u \in Thread : [call[u] EXCEPT !.linked = K(u)] \in Call
        BY <1>0, <3>1, CallUpdates
      <3> QED  BY <3>2, <3>3, <3>4
    <2>2. book' \in {"absent", "partial", "whole", "other", "page", "cut"}
      BY <1>0, <1>8 DEF Downloaded, Left, Body
    <2>3. events' \in 0..MaxEvents
      BY <1>8, <1>e DEF Downloaded
    <2> QED  BY <1>0, <1>8, <1>t, <2>1, <2>2, <2>3 DEF Downloaded, jars
  \* A call that proceeds is one; so is a save.
  <1>p. ASSUME NEW t \in Thread, NEW saved \in BOOLEAN, Proceed(t, saved)
        PROVE  call' \in [Thread -> Call]
    <2> DEFINE again == call[t].pc = "again"
               pc == IF again THEN "start" ELSE "over"
               try == IF again THEN 2 ELSE call[t].try
               A == call[t].alone /\ saved
    <2>1. pc \in {"start", "over"} /\ try \in {1, 2} /\ A \in BOOLEAN
      BY <1>0 DEF Call
    <2>2. call' = [call EXCEPT ![t] = [call[t] EXCEPT !.pc = pc, !.try = try, !.alone = A]]
      BY <1>p, Zenon DEF Proceed
    <2> HIDE DEF pc, try, A
    <2>3. [call[t] EXCEPT !.pc = pc, !.try = try, !.alone = A] \in Call
      <3>1. call[t] \in Call
        BY <1>0
      <3> QED  BY <2>1, <3>1, ProceedUpdates, Zenon
    <2> QED  BY <1>0, <2>2, <2>3
  <1>o. \A l \in Lib, r \in Root, x \in Saves : Overlapping(l, r, x) \in [Lib -> Saves]
    BY <1>0 DEF Overlapping, Saves
  <1>9. ASSUME NEW t \in Thread, Flush(t) PROVE TypeOK'
    <2> DEFINE l == call[t].lib
               lines == SentCookie(handle[l][t])
    <2>1. l \in Lib /\ lines \in Cookie /\ dir[l] \in Root
      BY <1>0, CookieTypes DEF Call
    <2>2. tmp' \in [Root -> Cookie \cup {Absent}] /\ save' \in [Lib -> Saves]
      <3>1. CASE UNCHANGED <<tmp, save>>
        BY <1>0, <3>1
      <3>2. CASE Flushed(t, l, dir[l], lines)
        <4> DEFINE s == [by |-> t, root |-> dir[l], sole |-> TRUE]
        <4>1. s \in Saves
          BY <2>1 DEF Saves
        <4>2. save' = Overlapping(l, dir[l], s) /\ tmp' = [tmp EXCEPT ![dir[l]] = lines]
          BY <3>2 DEF Flushed
        <4> HIDE DEF s, l, lines
        <4> QED  BY <1>0, <1>o, <2>1, <4>1, <4>2
      <3> QED  BY <1>9, <3>1, <3>2 DEF Flush
    <2>3. call' \in [Thread -> Call]
      BY <1>0, <1>9, <1>p DEF Flush
    <2>4. events' \in 0..MaxEvents
      BY <1>9, <1>e DEF Flush
    <2> QED  BY <1>0, <1>9, <1>t, <2>2, <2>3, <2>4 DEF Flush, NotWritten
  <1>16. ASSUME NEW t \in Thread, Rename(t) PROVE TypeOK'
    <2> DEFINE l == call[t].lib
               r == save[l].root
               lines == SentCookie(handle[l][t])
    <2>1. l \in Lib /\ lines \in Cookie /\ r \in Root
      BY <1>0, CookieTypes DEF Call, Saves
    <2>2. tmp' = [tmp EXCEPT ![r] = Absent] /\ save' = Overlapping(l, r, NoSave)
      BY <1>16 DEF Rename
    <2>3. \/ tmp[r] # Absent /\ Written(l, r, lines) /\ Proceed(t, TRUE)
          \/ UNCHANGED <<jar, persisted, written>> /\ Proceed(t, FALSE)
      BY <1>16 DEF Rename, NotWritten
    <2>4. events' \in 0..MaxEvents
      BY <1>16, <1>e DEF Rename
    <2>u. UNCHANGED <<dir, handle, queue, finished, promises, book, logins>>
      BY <1>16 DEF Rename
    <2> HIDE DEF l, r, lines
    <2>5. tmp' \in [Root -> Cookie \cup {Absent}] /\ save' \in [Lib -> Saves]
      BY <1>0, <1>o, <2>1, <2>2, SmallTypes
    <2>6. /\ jar' \in [Root -> Cookie \cup {Absent}]
          /\ persisted' \in [Lib -> Cookie]
          /\ written' \in [Lib -> Root \cup {None}]
      <3>1. CASE UNCHANGED <<jar, persisted, written>>
        BY <1>0, <3>1
      <3>2. CASE Written(l, r, lines)
        <4>1. /\ jar' = [jar EXCEPT ![r] = tmp[r]] /\ persisted' = [persisted EXCEPT ![l] = lines]
              /\ \A k \in Lib : written'[k] \in {r, None, written[k]}
              /\ written' = [k \in Lib |-> written'[k]]
          BY <3>2 DEF Written
        <4> QED  BY <1>0, <2>1, <4>1
      <3> QED  BY <2>3, <3>1, <3>2
    <2>7. call' \in [Thread -> Call]
      BY <1>p, <2>3
    <2> QED  BY <1>0, <1>t, <2>4, <2>5, <2>6, <2>7, <2>u
  <1>17. ASSUME NEW t \in Thread, NoHandle(t) PROVE TypeOK'
    <2>1. call' \in [Thread -> Call]
      <3> DEFINE C(u) == call[u].clean /\ ~call[u].linked
      <3>1. /\ [call[t] EXCEPT !.pc = "over", !.got = "lost"] \in Call
            /\ \A u \in Thread : [call[u] EXCEPT !.clean = C(u)] \in Call
        BY <1>0, CallUpdates DEF Answer
      <3>2. call' = [u \in Thread |->
                      IF u = t THEN [call[t] EXCEPT !.pc = "over", !.got = "lost"]
                      ELSE [call[u] EXCEPT !.clean = C(u)]]
        BY <1>17 DEF NoHandle
      <3> HIDE DEF C
      <3> QED  BY <3>1, <3>2
    <2> QED  BY <1>0, <1>17, <1>e, <1>t, <2>1 DEF NoHandle, jars
  <1>10. ASSUME NEW t \in Thread, ClearCookies(t) PROVE TypeOK'
    <2>1. jar' \in [Root -> Cookie \cup {Absent}] /\ written' \in [Lib -> Root \cup {None}]
      BY <1>0, <1>10 DEF ClearCookies
    <2>2. call' \in [Thread -> Call]
      <3>1. \A u \in Thread : [call[u] EXCEPT !.alone = FALSE] \in Call
        BY <1>0, CallUpdates DEF Answer
      <3> QED  BY <1>10, <3>1, SmallTypes DEF ClearCookies
    <2> QED  BY <1>0, <1>10, <1>t, <2>1, <2>2 DEF ClearCookies
  <1>11. CASE Return
    <2>1. call' \in [Thread -> Call]
      BY <1>0, <1>11, SmallTypes DEF Return
    <2> QED  BY <1>0, <1>11, <1>t, <2>1 DEF Return, jars
  <1>12. ASSUME NEW w \in Worker, Ran(w) PROVE TypeOK'
    <2>1. call' \in [Thread -> Call]
      BY <1>0, <1>12, SmallTypes DEF Ran
    <2>2. finished' \in Seq(Item)
      <3>1. call[w].item \in Item
        BY <1>12 DEF Ran, Items
      <3> QED  BY <1>0, <1>12, <3>1, AppendProperties DEF Ran
    <2> QED  BY <1>0, <1>12, <1>t, <2>1, <2>2 DEF Ran, jars
  <1>13. CASE Complete
    <2>1. finished' \in Seq(Item) /\ promises' \subseteq Item
      BY <1>0, <1>13, HeadTailProperties DEF Complete
    <2> QED  BY <1>0, <1>13, <1>t, <2>1 DEF Complete, jars
  <1>14. CASE Restart
    <2>1. dir' \in [Lib -> Root] /\ written' \in [Lib -> Root \cup {None}] /\ save' \in [Lib -> Saves]
      BY <1>14, ConstantsOK, SmallTypes DEF Restart
    <2>2. persisted' \in [Lib -> Cookie] /\ handle' \in [Lib -> [Thread -> Handle]]
      BY <1>14, SmallTypes DEF Restart
    <2>3. call' \in [Thread -> Call]
      BY <1>14, SmallTypes DEF Restart
    <2>4. /\ queue' \in Seq(Call) /\ finished' \in Seq(Item) /\ promises' \subseteq Item
          /\ book' \in {"absent", "partial", "whole", "other", "page", "cut"}
      BY <1>0, <1>14 DEF Restart
    <2> QED  BY <1>0, <1>14, <1>e, <1>t, <2>1, <2>2, <2>3, <2>4 DEF Restart
  <1>15. CASE UNCHANGED vars
    BY <1>0, <1>15, <1>t DEF vars, jars
  <1> QED
    BY <1>1, <1>2, <1>3, <1>4, <1>5, <1>6, <1>7, <1>8, <1>9, <1>10, <1>11, <1>12, <1>13,
       <1>14, <1>15, <1>16, <1>17
    DEF Next, Step

-----------------------------------------------------------------------------
(* What each step does to the calls.                                        *)
Same(u) ==
  /\ call'[u].item = call[u].item /\ call'[u].op = call[u].op
  /\ call'[u].lib = call[u].lib /\ call'[u].account = call[u].account

(* The types of the call of one thread.                                     *)
LEMMA FieldTypes ==
  ASSUME TypeOK, NEW t \in Thread
  PROVE  /\ call[t] \in Call /\ call \in [Thread -> Call]
         /\ call[t].lib \in Lib /\ call[t].account \in Root
         /\ call[t].alone \in BOOLEAN /\ call[t].linked \in BOOLEAN /\ call[t].clean \in BOOLEAN
         /\ handle[call[t].lib][t] \in Handle
  BY DEF TypeOK, Call, Handle

(* What a request that is not sent changes.                                 *)
LEMMA NotSentStep ==
  ASSUME TypeOK, NEW t \in Thread, NotSent(t)
  PROVE  /\ \A u \in Thread : Same(u)
         /\ \A u \in Thread \ {t} : call'[u] = call[u]
         /\ call[t].pc = "start" /\ call'[t].pc = "over" /\ call'[t].got = "lost"
         /\ call'[t].alone = call[t].alone /\ call'[t].linked = call[t].linked
         /\ call'[t].clean = call[t].clean
  BY FieldTypes DEF NotSent, Same, Call

(* What a download that gets no handle changes.                             *)
LEMMA NoHandleStep ==
  ASSUME TypeOK, NEW t \in Thread, NoHandle(t)
  PROVE  /\ \A u \in Thread : Same(u)
         /\ \A u \in Thread \ {t} :
              call'[u].pc = call[u].pc /\ call'[u].got = call[u].got /\ call'[u].alone = call[u].alone
         /\ call[t].pc = "start" /\ call'[t].pc = "over" /\ call'[t].got = "lost"
         /\ call'[t].alone = call[t].alone
         /\ book' = "cut" /\ UNCHANGED <<dir, jars, handle, queue, finished, promises, logins>>
  BY FieldTypes DEF NoHandle, Same, Call

(* What the beginning of a request changes.                                 *)
LEMMA BeginStep ==
  ASSUME TypeOK, NEW t \in Thread, Begin(t)
  PROVE  /\ \A u \in Thread : Same(u) /\ call'[u].got = call[u].got
         /\ \A u \in Thread \ {t} : call'[u].pc = call[u].pc /\ ~call'[u].alone
         /\ call[t].pc = "start" /\ call'[t].pc = "sent"
         /\ call'[t].alone => call[t].alone /\ Quiet(t)
         /\ WritesBook(call[t]) => call'[t].linked /\ call'[t].clean
         /\ ~WritesBook(call[t]) =>
              \A u \in Thread \ {t} :
                call'[u].linked = call[u].linked /\ (call[u].clean => call'[u].clean)
  BY FieldTypes DEF Begin, Same, Call, Quiet, WritesBook

(* What an answer changes.                                                  *)
LEMMA AnsweredStep ==
  ASSUME TypeOK, NEW t \in Thread, NEW a \in Answer, Answered(t, a)
  PROVE  /\ \A u \in Thread : Same(u)
         /\ \A u \in Thread \ {t} : call'[u] = call[u]
         /\ call[t].pc = "sent" /\ call'[t].pc \in {"answered", "again"}
         /\ ~WritesBook(call[t])
         /\ call'[t].alone = call[t].alone
         /\ call[t].op = "signin" => call'[t].got = a
         /\ call[t].op # "signin" => call'[t].got = call[t].got
         /\ call'[t].pc = "again" => a # "ok"
  BY FieldTypes DEF Answered, Same, Call, Success

(* What the end of a download changes.                                      *)
LEMMA DownloadedStep ==
  ASSUME TypeOK, NEW t \in Thread, NEW a \in Answer, Downloaded(t, a)
  PROVE  /\ \A u \in Thread : Same(u) /\ call'[u].got = call[u].got
         /\ \A u \in Thread : call'[u].alone = call[u].alone
         /\ \A u \in Thread \ {t} : call'[u].pc = call[u].pc /\ call'[u].clean = call[u].clean
         /\ call[t].pc = "sent" /\ call'[t].pc = "answered" /\ WritesBook(call[t])
         /\ Keeps(a) => \A u \in Thread \ {t} : call[u].linked => call'[u].linked
  BY FieldTypes DEF Downloaded, Same, Call

(* How a call goes on after its save.                                       *)
LEMMA ProceedStep ==
  ASSUME TypeOK, NEW t \in Thread, NEW saved \in BOOLEAN, Proceed(t, saved)
  PROVE  /\ \A u \in Thread : Same(u) /\ call'[u].got = call[u].got
         /\ \A u \in Thread \ {t} : call'[u] = call[u]
         /\ call[t].pc = "again" => call'[t].pc = "start"
         /\ call[t].pc = "answered" => call'[t].pc = "over"
         /\ call'[t].pc \in {"start", "over"}
         /\ call'[t].alone => call[t].alone /\ saved
         /\ call'[t].linked = call[t].linked /\ call'[t].clean = call[t].clean
  BY FieldTypes DEF Proceed, Same, Call

(* What the first half of a save changes: the lines are flushed, or there   *)
(* is nothing to save, or the flush fails.                                  *)
LEMMA FlushStep ==
  ASSUME TypeOK, NEW t \in Thread, Flush(t)
  PROVE  /\ \A u \in Thread : Same(u) /\ call'[u].got = call[u].got
         /\ \A u \in Thread \ {t} : call'[u] = call[u]
         /\ call[t].pc \in {"answered", "again"} /\ save[call[t].lib].by = None
         /\ call'[t].alone => call[t].alone
         /\ UNCHANGED <<dir, jar, persisted, written, handle, queue, finished, promises, book, logins>>
         /\ LET l == call[t].lib
                lines == SentCookie(handle[l][t])
            IN  \/ call' = call /\ Flushed(t, l, dir[l], lines)
                \/ /\ UNCHANGED <<tmp, save>>
                   /\ call[t].pc = "again" => call'[t].pc = "start"
                   /\ call[t].pc = "answered" => call'[t].pc = "over"
                   /\ call'[t].alone => lines = persisted[l]
  <1>1. /\ call[t].pc \in {"answered", "again"} /\ save[call[t].lib].by = None
        /\ UNCHANGED <<dir, jar, persisted, written, handle, queue, finished, promises, book, logins>>
    BY DEF Flush, NotWritten
  <1>2. CASE Proceed(t, TRUE) /\ UNCHANGED <<tmp, save>>
             /\ SentCookie(handle[call[t].lib][t]) = persisted[call[t].lib]
    BY <1>1, <1>2, ProceedStep
  <1>3. CASE Proceed(t, FALSE) /\ UNCHANGED <<tmp, save>>
    BY <1>1, <1>3, ProceedStep
  <1>4. CASE UNCHANGED call /\ Flushed(t, call[t].lib, dir[call[t].lib],
                                       SentCookie(handle[call[t].lib][t]))
    BY <1>1, <1>4 DEF Same
  <1> QED  BY <1>2, <1>3, <1>4 DEF Flush

(* What the second half of a save changes.                                  *)
LEMMA RenameStep ==
  ASSUME TypeOK, SaveInv, NEW t \in Thread, Rename(t)
  PROVE  /\ \A u \in Thread : Same(u) /\ call'[u].got = call[u].got
         /\ \A u \in Thread \ {t} : call'[u] = call[u]
         /\ call[t].pc \in {"answered", "again"} /\ save[call[t].lib].by = t
         /\ call[t].pc = "again" => call'[t].pc = "start"
         /\ call[t].pc = "answered" => call'[t].pc = "over"
         /\ call'[t].alone => call[t].alone
         /\ UNCHANGED <<dir, handle, queue, finished, promises, book, logins>>
         /\ LET l == call[t].lib
                r == save[l].root
                lines == SentCookie(handle[l][t])
            IN  /\ tmp' = [tmp EXCEPT ![r] = Absent] /\ save' = Overlapping(l, r, NoSave)
                /\ \/ tmp[r] # Absent /\ Written(l, r, lines)
                   \/ ~call'[t].alone /\ UNCHANGED <<jar, persisted, written>>
  <1> DEFINE l == call[t].lib
             r == save[l].root
             lines == SentCookie(handle[l][t])
  <1>1. PICK saved \in BOOLEAN :
          /\ Proceed(t, saved)
          /\ \/ tmp[r] # Absent /\ Written(l, r, lines)
             \/ ~saved /\ UNCHANGED <<jar, persisted, written>>
    BY DEF Rename, NotWritten
  <1>2. save[l].by = t /\ l \in Lib /\ t # None
    BY FieldTypes, SmallTypes DEF Rename
  <1>3. call[t].pc \in {"answered", "again"}
    BY <1>2 DEF SaveInv
  <1>4. /\ UNCHANGED <<dir, handle, queue, finished, promises, book, logins>>
        /\ tmp' = [tmp EXCEPT ![r] = Absent] /\ save' = Overlapping(l, r, NoSave)
    BY DEF Rename
  <1> HIDE DEF r, lines
  <1>5. call'[t].alone => saved
    BY <1>1, ProceedStep
  <1> QED  BY <1>1, <1>2, <1>3, <1>4, <1>5, ProceedStep DEF r, lines

(* What the end of a sign-out changes.                                      *)
LEMMA ClearStep ==
  ASSUME TypeOK, NEW t \in Thread, ClearCookies(t)
  PROVE  /\ call'[t] = Resting
         /\ \A u \in Thread \ {t} :
              Same(u) /\ call'[u].got = call[u].got /\ call'[u].pc = call[u].pc
         /\ \A u \in Thread : ~call'[u].alone
         /\ \A u \in Thread \ {t} :
              call'[u].linked = call[u].linked /\ call'[u].clean = call[u].clean
         /\ call[t].pc = "over"
  BY FieldTypes DEF ClearCookies, Same, Call, Resting

(* What a switch changes of calls and queued work.                          *)
LEMMA SwitchStep ==
  ASSUME TypeOK, NEW l \in Lib, NEW r \in Root, SetIdentityDir(l, r)
  PROVE  /\ \A u \in Thread :
              /\ Same(u) /\ call'[u].got = call[u].got /\ call'[u].pc = call[u].pc /\ ~call'[u].alone
              /\ call'[u].linked = call[u].linked /\ call'[u].clean = call[u].clean
         /\ Len(queue') = Len(queue)
         /\ \A n \in 1..Len(queue) :
              /\ queue'[n].item = queue[n].item /\ queue'[n].pc = queue[n].pc
              /\ queue'[n].got = queue[n].got /\ ~queue'[n].alone
  <1>1. \A u \in Thread :
          /\ Same(u) /\ call'[u].got = call[u].got /\ call'[u].pc = call[u].pc /\ ~call'[u].alone
          /\ call'[u].linked = call[u].linked /\ call'[u].clean = call[u].clean
    BY FieldTypes DEF SetIdentityDir, Same, Call
  <1>2. queue \in Seq(Call) /\ DOMAIN queue = 1..Len(queue) /\ Len(queue) \in Nat
    BY LenProperties DEF TypeOK
  <1>3. queue' = [n \in 1..Len(queue) |-> [queue[n] EXCEPT !.alone = FALSE]]
    BY <1>2 DEF SetIdentityDir
  <1>4. \A n \in 1..Len(queue) : queue[n] \in Call
    BY <1>2, ElementOfSeq
  <1>5. Len(queue') = Len(queue)
    BY <1>2, <1>3
  <1>6. ASSUME NEW n \in 1..Len(queue)
        PROVE  /\ queue'[n].item = queue[n].item /\ queue'[n].pc = queue[n].pc
               /\ queue'[n].got = queue[n].got /\ ~queue'[n].alone
    BY <1>3, <1>4 DEF Call
  <1> QED  BY <1>1, <1>5, <1>6

(* What queueing work changes.                                              *)
LEMMA EnqueueStep ==
  ASSUME TypeOK, NEW l \in Lib, NEW op \in AsyncOp(l), Enqueue(l, op)
  PROVE  /\ \E i \in Item :
              \A n \in 1..Len(queue') :
                \/ n \in 1..Len(queue) /\ queue'[n] = queue[n]
                \/ queue'[n] = NewCall(l, op, i)
         /\ JsFree /\ call' = call /\ dir' = dir
  <1> DEFINE i == CHOOSE i \in Item : i \notin promises
             c == NewCall(l, op, i)
  <1>1. i \in Item
    BY DEF TypeOK, Enqueue
  <1>2. queue' = Append(queue, c) /\ queue \in Seq(Call) /\ c \in Call
    BY <1>1, NewCallType, SmallTypes DEF TypeOK, Enqueue, AsyncOp
  <1> HIDE DEF i, c
  <1>3. \A n \in 1..Len(queue') : (n \in 1..Len(queue) /\ queue'[n] = queue[n]) \/ queue'[n] = c
    <2>1. /\ Len(queue) \in Nat
          /\ Len(queue') = Len(queue) + 1
          /\ \A n \in 1..Len(queue) : queue'[n] = queue[n]
          /\ queue'[Len(queue) + 1] = c
      BY <1>2, AppendProperties, LenProperties
    <2> QED  BY <2>1
  <1> QED  BY <1>1, <1>3 DEF Enqueue, c

(* What taking work from the queue changes.                                 *)
LEMMA ExecuteStep ==
  ASSUME TypeOK, NEW w \in Worker, Execute(w)
  PROVE  /\ 1 \in 1..Len(queue) /\ call'[w] = queue[1]
         /\ \A u \in Thread \ {w} : call'[u] = call[u]
         /\ call[w].pc = "idle" /\ dir' = dir
         /\ \A n \in 1..Len(queue') : n + 1 \in 1..Len(queue) /\ queue'[n] = queue[n + 1]
  <1>1. queue \in Seq(Call) /\ queue # <<>> /\ call \in [Thread -> Call] /\ w \in Thread
    BY SmallTypes DEF TypeOK, Execute
  <1>2. Len(queue) \in Nat /\ Len(queue) # 0
    BY <1>1, EmptySeq, LenProperties
  <1>3. queue' = Tail(queue) /\ Head(queue) = queue[1]
    BY <1>1 DEF Execute
  <1>4. Tail(queue) \in Seq(Call) /\ Len(Tail(queue)) = Len(queue) - 1
    BY <1>1, HeadTailProperties
  <1>5. \A n \in 1..Len(queue') : n + 1 \in 1..Len(queue) /\ queue'[n] = queue[n + 1]
    BY <1>1, <1>2, <1>3, <1>4, HeadTailProperties
  <1> QED  BY <1>1, <1>2, <1>3, <1>5 DEF Execute

(* The other steps on a call: it begins on the JS thread, or is over.       *)
LEMMA OtherSteps ==
  ASSUME TypeOK, NEW t \in Thread
  PROVE  /\ \A l \in Lib : \A op \in SyncOp(l) : CallNow(l, op) =>
              /\ call' = [call EXCEPT ![Js] = NewCall(l, op, None)]
              /\ call[Js].pc = "idle" /\ JsFree /\ dir' = dir /\ queue' = queue
         /\ Return => call' = [call EXCEPT ![Js] = Resting]
         /\ Ran(t) => call' = [call EXCEPT ![t] = Resting]
         /\ Restart => queue' = <<>> /\ call' = [u \in Thread |-> Resting]
  BY DEF CallNow, JsFree, Return, Ran, Restart

(* What a new call begins with.                                             *)
LEMMA NewCallFields ==
  ASSUME NEW l, NEW op, NEW i
  PROVE  LET c == NewCall(l, op, i)
         IN  /\ c.pc = "start" /\ c.got = "lost" /\ c.item = i /\ c.op = op
             /\ ~c.linked /\ ~c.clean /\ c.account = dir["entry"]
  BY DEF NewCall, Resting

-----------------------------------------------------------------------------
(* Every step keeps the promises with their work.                           *)
LEMMA ItemsNext == TypeOK /\ SaveInv /\ Items /\ [Next]_vars => Items'
  <1> SUFFICES ASSUME TypeOK, SaveInv, Items, [Next]_vars PROVE Items'
    OBVIOUS
  <1>0. /\ Js \notin Worker /\ Js \in Thread /\ Worker \subseteq Thread /\ Resting.pc = "idle"
        /\ call \in [Thread -> Call]
    BY ConstantsOK, SmallTypes DEF Resting, TypeOK
  <1>1. ASSUME NEW l \in Lib, NEW r \in Root, SetIdentityDir(l, r) PROVE Items'
    BY <1>0, <1>1, SwitchStep DEF Items, Same
  <1>2. ASSUME NEW l \in Lib, NEW op \in AsyncOp(l), Enqueue(l, op) PROVE Items'
    BY <1>2, EnqueueStep, NewCallFields DEF Items
  <1>3. ASSUME NEW l \in Lib, NEW op \in SyncOp(l), CallNow(l, op) PROVE Items'
    BY <1>0, <1>3, OtherSteps DEF Items
  <1>4. ASSUME NEW w \in Worker, Execute(w) PROVE Items'
    BY <1>0, <1>4, ExecuteStep DEF Items
  <1>5. ASSUME NEW t \in Thread, Step(t) PROVE Items'
    <2>1. queue' = queue
      BY <1>5 DEF Step, NotSent, NoHandle, Begin, Answered, Downloaded, Flush, Rename
    <2>2. \A u \in Thread : call'[u].item = call[u].item /\ (call'[u].pc # "idle" => call[u].pc # "idle")
      <3>1. CASE NotSent(t)
        BY <3>1, NotSentStep DEF Same
      <3>2. CASE Begin(t)
        BY <3>2, BeginStep DEF Same
      <3>3. ASSUME NEW a \in Answer, Answered(t, a)
            PROVE  \A u \in Thread : call'[u].item = call[u].item
                                    /\ (call'[u].pc # "idle" => call[u].pc # "idle")
        BY <3>3, AnsweredStep DEF Same
      <3>4. ASSUME NEW a \in Answer, Downloaded(t, a)
            PROVE  \A u \in Thread : call'[u].item = call[u].item
                                    /\ (call'[u].pc # "idle" => call[u].pc # "idle")
        BY <3>4, DownloadedStep DEF Same
      <3>5. CASE Flush(t)
        BY <3>5, FlushStep DEF Same
      <3>6. CASE Rename(t)
        BY <3>6, RenameStep DEF Same
      <3>7. CASE NoHandle(t)
        BY <3>7, NoHandleStep DEF Same
      <3> QED  BY <1>5, <3>1, <3>2, <3>3, <3>4, <3>5, <3>6, <3>7 DEF Step
    <2> QED  BY <1>0, <2>1, <2>2 DEF Items
  <1>6. ASSUME NEW t \in Thread, ClearCookies(t) PROVE Items'
    <2>1. queue' = queue
      BY <1>6 DEF ClearCookies
    <2> QED  BY <1>0, <1>6, <2>1, ClearStep DEF Items, Same
  <1>7. CASE Return
    <2>1. queue' = queue
      BY <1>7 DEF Return
    <2> QED  BY <1>0, <1>7, <2>1, OtherSteps DEF Items
  <1>8. ASSUME NEW w \in Worker, Ran(w) PROVE Items'
    <2>1. queue' = queue
      BY <1>8 DEF Ran
    <2> QED  BY <1>0, <1>8, <2>1, OtherSteps DEF Items
  <1>9. CASE Complete \/ UNCHANGED vars
    BY <1>9 DEF Complete, vars, Items
  <1>10. CASE Restart
    BY <1>0, <1>10, OtherSteps DEF Items
  <1> QED
    BY <1>1, <1>2, <1>3, <1>4, <1>5, <1>6, <1>7, <1>8, <1>9, <1>10 DEF Next

(* There is no work at start.                                               *)
LEMMA ItemsInit == Init => Items
  BY SmallTypes DEF Init, Items, Resting

(* Nobody saves at start.                                                   *)
LEMMA SaveInit == Init => SaveInv
  BY SmallTypes DEF Init, SaveInv

(* Every step keeps the saves what they are.                                *)
LEMMA SaveNext == TypeOK /\ SaveInv /\ [Next]_vars => SaveInv'
  <1> SUFFICES ASSUME TypeOK, SaveInv, [Next]_vars PROVE SaveInv'
    OBVIOUS
  <1>0. /\ save \in [Lib -> Saves] /\ tmp \in [Root -> Cookie \cup {Absent}]
        /\ dir \in [Lib -> Root] /\ call \in [Thread -> Call]
        /\ Js \in Thread /\ Worker \subseteq Thread
        /\ \A l \in Lib : save[l].by \in Thread \cup {None} /\ save[l].root \in Root
    BY SmallTypes DEF TypeOK, Saves
  <1> DEFINE Saving(u) == call[u].pc \in {"answered", "again"}
             Holds(l) == call[save[l].by].lib = l /\ Saving(save[l].by)
             Found(l) == save[l].sole => tmp[save[l].root] = SentCookie(handle[l][save[l].by])
  <1>i. \A l \in Lib : save[l].by # None => Holds(l) /\ Found(l)
    BY DEF SaveInv
  <1>a. ASSUME \A l \in Lib : save'[l].by # None => Holds(l)' /\ Found(l)' PROVE SaveInv'
    BY <1>a DEF SaveInv
  \* Steps that are no part of a save.
  <1>b. ASSUME UNCHANGED <<tmp, save>>,
               \A u \in Thread : Saving(u) =>
                 /\ call'[u].lib = call[u].lib /\ Saving(u)'
                 /\ \A l \in Lib : handle'[l][u] = handle[l][u]
        PROVE  SaveInv'
    <2>1. ASSUME NEW l \in Lib, save[l].by # None PROVE Holds(l)' /\ Found(l)'
      <3>1. save[l].by \in Thread /\ Saving(save[l].by) /\ Holds(l) /\ Found(l)
        BY <1>0, <1>i, <2>1
      <3> QED  BY <1>b, <3>1
    <2> QED  BY <1>a, <1>b, <2>1
  <1>1. ASSUME NEW l \in Lib, NEW r \in Root, SetIdentityDir(l, r) PROVE SaveInv'
    <2>1. UNCHANGED <<tmp, save, handle>>
      BY <1>1 DEF SetIdentityDir, jars
    <2> QED  BY <1>1, <1>b, <2>1, SwitchStep DEF Same
  <1>2. ASSUME NEW l \in Lib, NEW op \in SyncOp(l), CallNow(l, op) PROVE SaveInv'
    <2>1. UNCHANGED <<tmp, save, handle>> /\ call[Js].pc = "idle"
      BY <1>2 DEF CallNow, JsFree, jars
    <2> QED  BY <1>0, <1>2, <1>b, <2>1, OtherSteps
  <1>3. ASSUME NEW w \in Worker, Execute(w) PROVE SaveInv'
    <2>1. UNCHANGED <<tmp, save, handle>>
      BY <1>3 DEF Execute, jars
    <2> QED  BY <1>0, <1>3, <1>b, <2>1, ExecuteStep
  <1>4. ASSUME NEW t \in Thread, NotSent(t) PROVE SaveInv'
    <2>1. UNCHANGED <<tmp, save, handle>>
      BY <1>4 DEF NotSent, jars
    <2> QED  BY <1>4, <1>b, <2>1, NotSentStep
  <1>5. ASSUME NEW t \in Thread, NoHandle(t) PROVE SaveInv'
    <2>1. UNCHANGED <<tmp, save, handle>>
      BY <1>5 DEF NoHandle, jars
    <2> QED  BY <1>5, <1>b, <2>1, NoHandleStep DEF Same
  \* A step that changes the handle of a thread that does not save.
  <1>h. ASSUME NEW t \in Thread, ~Saving(t), NEW k \in Lib, NEW h,
               handle' = [handle EXCEPT ![k][t] = h]
        PROVE  \A u \in Thread : Saving(u) => \A l \in Lib : handle'[l][u] = handle[l][u]
    BY <1>h DEF TypeOK
  <1>6. ASSUME NEW t \in Thread, Begin(t) PROVE SaveInv'
    <2>1. UNCHANGED <<tmp, save>>
      BY <1>6 DEF Begin, jars
    <2>2. ~Saving(t)
      BY <1>6 DEF Begin
    <2>3. \A u \in Thread : Saving(u) => \A l \in Lib : handle'[l][u] = handle[l][u]
      BY <1>6, <1>h, <2>2, FieldTypes DEF Begin
    <2> QED  BY <1>6, <1>b, <2>1, <2>2, <2>3, BeginStep DEF Same
  <1>7. ASSUME NEW t \in Thread, NEW a \in Answer, Answered(t, a) PROVE SaveInv'
    <2>1. UNCHANGED <<tmp, save>>
      BY <1>7 DEF Answered, jars
    <2>2. ~Saving(t)
      BY <1>7 DEF Answered
    <2>3. \A u \in Thread : Saving(u) => \A l \in Lib : handle'[l][u] = handle[l][u]
      BY <1>7, <1>h, <2>2, FieldTypes DEF Answered
    <2> QED  BY <1>7, <1>b, <2>1, <2>2, <2>3, AnsweredStep DEF Same
  <1>8. ASSUME NEW t \in Thread, NEW a \in Answer, Downloaded(t, a) PROVE SaveInv'
    <2>1. UNCHANGED <<tmp, save, handle>>
      BY <1>8 DEF Downloaded, jars
    <2> QED  BY <1>8, <1>b, <2>1, DownloadedStep DEF Same
  <1>9. ASSUME NEW t \in Thread, Flush(t) PROVE SaveInv'
    <2> DEFINE k == call[t].lib
               lines == SentCookie(handle[k][t])
    <2>0. k \in Lib /\ save[k].by = None /\ Saving(t) /\ handle' = handle /\ dir[k] \in Root
      BY <1>0, <1>9, FieldTypes, FlushStep
    <2>1. CASE UNCHANGED <<tmp, save>>
      <3> SUFFICES ASSUME NEW l \in Lib, save[l].by # None PROVE Holds(l)' /\ Found(l)'
        BY <1>a, <2>1
      <3>1. save[l].by \in Thread /\ Holds(l) /\ Found(l)
        BY <1>0, <1>i
      <3>2. save[l].by # t
        BY <2>0, <3>1
      <3>3. call'[save[l].by] = call[save[l].by]
        BY <1>9, <3>1, <3>2, FlushStep
      <3> QED  BY <2>0, <2>1, <3>1, <3>3
    <2>2. CASE call' = call /\ Flushed(t, k, dir[k], lines)
      <3> DEFINE s == [by |-> t, root |-> dir[k], sole |-> TRUE]
      <3>1. tmp' = [tmp EXCEPT ![dir[k]] = lines] /\ save' = Overlapping(k, dir[k], s)
        BY <2>2 DEF Flushed
      <3>2. save'[k] = s /\ tmp'[dir[k]] = lines
        BY <1>0, <2>0, <3>1 DEF Overlapping
      <3>3. Holds(k)' /\ Found(k)'
        BY <2>0, <2>2, <3>2
      <3>4. ASSUME NEW l \in Lib, l # k, save'[l].by # None PROVE Holds(l)' /\ Found(l)'
        <4>1. /\ save'[l].by = save[l].by /\ save'[l].root = save[l].root
              /\ save'[l].sole => save[l].sole /\ save[l].root # dir[k]
          BY <1>0, <3>1, <3>4 DEF Overlapping, Saves
        <4>2. Holds(l) /\ Found(l)
          BY <1>i, <3>4, <4>1
        <4>3. save'[l].sole => tmp'[save[l].root] = tmp[save[l].root]
          BY <1>0, <3>1, <4>1
        <4> QED  BY <2>0, <2>2, <4>1, <4>2, <4>3
      <3>5. \A l \in Lib : save'[l].by # None => Holds(l)' /\ Found(l)'
        <4>1. k' = k
          BY <2>2
        <4> HIDE DEF k, Holds, Found, s
        <4> QED  BY <3>3, <3>4, <4>1
      <3> QED  BY <1>a, <3>5
    <2> QED  BY <1>9, <2>1, <2>2, FlushStep
  <1>10. ASSUME NEW t \in Thread, Rename(t) PROVE SaveInv'
    <2> DEFINE k == call[t].lib
               r == save[k].root
    <2>0. /\ k \in Lib /\ save[k].by = t /\ handle' = handle /\ r \in Root
          /\ tmp' = [tmp EXCEPT ![r] = Absent] /\ save' = Overlapping(k, r, NoSave)
      BY <1>0, <1>10, FieldTypes, RenameStep
    <2>1. save'[k].by = None
      BY <2>0, SmallTypes DEF Overlapping
    <2>2. ASSUME NEW l \in Lib, l # k, save'[l].by # None PROVE Holds(l)' /\ Found(l)'
      <3>1. /\ save'[l].by = save[l].by /\ save'[l].root = save[l].root
            /\ save'[l].sole => save[l].sole /\ save[l].root # r
        BY <1>0, <2>0, <2>2 DEF Overlapping, Saves
      <3>2. Holds(l) /\ Found(l) /\ save[l].by \in Thread
        BY <1>0, <1>i, <2>2, <3>1
      <3>3. save[l].by # t
        BY <2>2, <3>2
      <3>4. call'[save[l].by] = call[save[l].by]
        BY <1>10, <3>2, <3>3, RenameStep
      <3>5. save'[l].sole => tmp'[save[l].root] = tmp[save[l].root]
        BY <1>0, <2>0, <3>1
      <3> QED  BY <2>0, <3>1, <3>2, <3>4, <3>5
    <2> QED  BY <1>a, <2>1, <2>2
  <1>11. ASSUME NEW t \in Thread, ClearCookies(t) PROVE SaveInv'
    <2>1. UNCHANGED <<tmp, save, handle>>
      BY <1>11 DEF ClearCookies
    <2> QED  BY <1>11, <1>b, <2>1, ClearStep DEF Same
  <1>12. CASE Return
    <2>1. UNCHANGED <<tmp, save, handle>> /\ call[Js].pc = "over"
      BY <1>12 DEF Return, jars
    <2> QED  BY <1>0, <1>12, <1>b, <2>1, OtherSteps
  <1>13. ASSUME NEW w \in Worker, Ran(w) PROVE SaveInv'
    <2>1. UNCHANGED <<tmp, save, handle>> /\ call[w].pc = "over" /\ w \in Thread
      BY <1>0, <1>13 DEF Ran, jars
    <2> QED  BY <1>0, <1>13, <1>b, <2>1, OtherSteps
  <1>14. CASE Restart
    BY <1>14, SmallTypes DEF Restart, SaveInv
  <1>15. CASE (\E l \in Lib : \E op \in AsyncOp(l) : Enqueue(l, op)) \/ Complete \/ UNCHANGED vars
    BY <1>15, <1>b DEF Enqueue, Complete, vars, jars
  <1> QED
    BY <1>1, <1>2, <1>3, <1>4, <1>5, <1>6, <1>7, <1>8, <1>9, <1>10, <1>11, <1>12, <1>13, <1>14,
       <1>15
    DEF Next, Step

(* Every variable of the two clients keeps its type, whatever the threads,  *)
(* the server and the switches do: http_client.cpp and the work items of    *)
(* napi_init.cpp.                                                           *)
THEOREM TypesHold == Spec => [](TypeOK /\ Items)
  <1>1. Init => TypeOK /\ Items /\ SaveInv  BY TypeInit, ItemsInit, SaveInit
  <1>2. TypeOK /\ Items /\ SaveInv /\ [Next]_vars => (TypeOK /\ Items /\ SaveInv)'
    BY TypeNext, ItemsNext, SaveNext
  <1> QED  BY <1>1, <1>2, PTL DEF Spec

(* The mutex of persistCookiesIfChanged: who holds it has an answer to      *)
(* save, and its temporary file is as it flushed it while nobody else       *)
(* touched it.                                                              *)
THEOREM SavesHold == Spec => []SaveInv
  <1>1. Init => SaveInv  BY SaveInit
  <1>2. TypeOK /\ SaveInv /\ [Next]_vars => SaveInv'  BY SaveNext
  <1> QED  BY <1>1, <1>2, TypesHold, PTL DEF Spec

-----------------------------------------------------------------------------
(* Every step keeps the saved lines in their file.                          *)
LEMMA LinesNext == TypeOK /\ SaveInv /\ LinesInFile /\ [Next]_vars => LinesInFile'
  <1> SUFFICES ASSUME TypeOK, SaveInv, LinesInFile, [Next]_vars PROVE LinesInFile'
    OBVIOUS
  <1>0. /\ dir \in [Lib -> Root] /\ written \in [Lib -> Root \cup {None}]
        /\ jar \in [Root -> Cookie \cup {Absent}] /\ persisted \in [Lib -> Cookie]
        /\ None \notin Root
    BY ConstantsOK DEF TypeOK
  <1>1. ASSUME NEW t \in Thread, Rename(t) PROVE LinesInFile'
    <2> DEFINE l == call[t].lib
               r == save[l].root
               lines == SentCookie(handle[l][t])
    <2>1. l \in Lib /\ r \in Root /\ save[l].by = t /\ t # None
      BY <1>1, FieldTypes, RenameStep, SmallTypes DEF TypeOK
    <2>2. CASE UNCHANGED <<jar, persisted, written>>
      BY <2>2 DEF LinesInFile
    <2>3. CASE Written(l, r, lines)
      <3>1. save[l].sole => tmp[r] = lines
        BY <2>1 DEF SaveInv
      <3>2. ASSUME NEW k \in Lib, written'[k] # None PROVE jar'[written'[k]] = persisted'[k]
        <4> HIDE DEF r, lines, l
        <4>1. CASE k = l
          BY <1>0, <2>1, <2>3, <3>1, <3>2, <4>1 DEF Written
        <4>2. CASE k # l
          <5>1. written'[k] = written[k] /\ written[k] # r /\ persisted'[k] = persisted[k]
            BY <1>0, <2>1, <2>3, <3>2, <4>2 DEF Written
          <5>2. jar'[written[k]] = jar[written[k]] /\ jar[written[k]] = persisted[k]
            BY <1>0, <2>1, <2>3, <3>2, <5>1 DEF Written, LinesInFile
          <5> QED  BY <5>1, <5>2
        <4> QED  BY <4>1, <4>2
      <3> QED  BY <3>2 DEF LinesInFile
    <2> QED  BY <1>1, <2>2, <2>3, RenameStep
  <1>2. ASSUME NEW t \in Thread, ClearCookies(t) PROVE LinesInFile'
    <2> DEFINE r == dir["entry"]
    <2>1. r \in Root
      BY <1>0, SmallTypes
    <2>2. /\ jar' = [jar EXCEPT ![r] = Absent] /\ persisted' = persisted
          /\ written' = [k \in Lib |-> IF written[k] = r THEN None ELSE written[k]]
      BY <1>2 DEF ClearCookies
    <2> HIDE DEF r
    <2> QED  BY <1>0, <2>1, <2>2 DEF LinesInFile
  <1>3. CASE Restart
    BY <1>3 DEF Restart, LinesInFile
  <1>4. CASE UNCHANGED <<jar, persisted, written>>
    BY <1>4 DEF LinesInFile
  <1>5. \/ \E t \in Thread : Rename(t) \/ ClearCookies(t)
        \/ Restart
        \/ UNCHANGED <<jar, persisted, written>>
    BY DEF Next, Step, SetIdentityDir, Enqueue, CallNow, Execute, NotSent, NoHandle, Begin, Answered,
           Downloaded, Flush, NotWritten, Return, Ran, Complete, vars, jars
  <1> QED  BY <1>1, <1>2, <1>3, <1>4, <1>5

(* The lines a client remembers as saved are in the file it wrote them to,  *)
(* whichever saves fail and however the threads of both clients interleave, *)
(* until that file is removed or written by the other client and unless the *)
(* other client touched the shared temporary file between the flush and the *)
(* rename: persistCookiesIfChanged of both libraries, each under a mutex of *)
(* its own.                                                                 *)
THEOREM LinesAreInFile == Spec => []LinesInFile
  <1>1. Init => LinesInFile  BY DEF Init, LinesInFile
  <1>2. TypeOK /\ SaveInv /\ LinesInFile /\ [Next]_vars => LinesInFile'  BY LinesNext
  <1> QED  BY <1>1, <1>2, TypesHold, SavesHold, PTL DEF Spec

-----------------------------------------------------------------------------
(* There is no book at start.                                               *)
LEMMA BookInit == Init => BookInv
  BY DEF Init, BookInv

(* Every step keeps the file at the path whole, absent, cut or written to.  *)
LEMMA BookNext == TypeOK /\ SaveInv /\ BookInv /\ [Next]_vars => BookInv'
  <1> SUFFICES ASSUME TypeOK, SaveInv, BookInv, [Next]_vars PROVE BookInv'
    OBVIOUS
  <1> DEFINE Writes(t) == /\ call[t].pc = "sent" /\ WritesBook(call[t])
                          /\ call[t].linked /\ call[t].clean
  <1>0. book # "page" /\ (book = "partial" => \E t \in Thread : Writes(t))
    BY DEF BookInv
  <1>1. ASSUME book' = book, \A t \in Thread : Writes(t) => Writes(t)' PROVE BookInv'
    BY <1>0, <1>1 DEF BookInv
  <1>2. call \in [Thread -> Call] /\ Js \in Thread /\ Worker \subseteq Thread
    BY SmallTypes DEF TypeOK
  <1>3. ASSUME NEW l \in Lib, NEW r \in Root, SetIdentityDir(l, r) PROVE BookInv'
    <2>1. book' = book
      BY <1>3 DEF SetIdentityDir
    <2> QED  BY <1>1, <1>3, <2>1, SwitchStep DEF Same, WritesBook
  <1>4. ASSUME NEW l \in Lib, NEW op \in SyncOp(l), CallNow(l, op) PROVE BookInv'
    <2>1. book' = book /\ call[Js].pc = "idle"
      BY <1>4 DEF CallNow, JsFree
    <2> QED  BY <1>1, <1>2, <1>4, <2>1, OtherSteps
  <1>5. ASSUME NEW w \in Worker, Execute(w) PROVE BookInv'
    <2>1. book' = book
      BY <1>5 DEF Execute
    <2> QED  BY <1>1, <1>2, <1>5, <2>1, ExecuteStep
  <1>6. ASSUME NEW t \in Thread, NotSent(t) PROVE BookInv'
    <2>1. book' = book
      BY <1>6 DEF NotSent
    <2> QED  BY <1>1, <1>6, <2>1, NotSentStep
  <1>7. ASSUME NEW t \in Thread, Begin(t) PROVE BookInv'
    <2>1. CASE WritesBook(call[t])
      <3>1. Writes(t)'
        BY <1>7, <2>1, BeginStep DEF Same, WritesBook
      <3>2. book' = "partial"
        BY <1>7, <2>1 DEF Begin
      <3>3. \E u \in Thread : Writes(u)'
        BY <3>1
      <3> QED  BY <3>2, <3>3 DEF BookInv
    <2>2. CASE ~WritesBook(call[t])
      <3>1. book' = book
        BY <1>7, <2>2 DEF Begin
      <3> QED  BY <1>1, <1>7, <2>2, <3>1, BeginStep DEF Same, WritesBook
    <2> QED  BY <2>1, <2>2
  <1>8. ASSUME NEW t \in Thread, NEW a \in Answer, Answered(t, a) PROVE BookInv'
    <2>1. book' = book
      BY <1>8 DEF Answered
    <2> QED  BY <1>1, <1>8, <2>1, AnsweredStep
  <1>9. ASSUME NEW t \in Thread, NEW a \in Answer, Downloaded(t, a) PROVE BookInv'
    <2>0. /\ book' \in Left(call[t], Body(a, TRUE)) \cup Left(call[t], Body(a, FALSE)) \/ ~Keeps(a)
          /\ ~Keeps(a) => book' = "absent"
      BY <1>9 DEF Downloaded
    <2>1. CASE ~Keeps(a)
      BY <2>0, <2>1 DEF BookInv
    <2>b. Keeps(a) => {Body(a, TRUE), Body(a, FALSE)} \subseteq {"whole", "other", "cut"}
      BY DEF Body, Keeps
    <2>2. CASE Keeps(a) /\ call[t].linked /\ call[t].clean
      <3>1. book' \in {"whole", "other", "cut"}
        BY <2>0, <2>2, <2>b DEF Left
      <3> QED  BY <3>1 DEF BookInv
    <2>3. CASE Keeps(a) /\ ~(call[t].linked /\ call[t].clean)
      <3>1. book' = book \/ book' \in {"whole", "other", "cut"}
        BY <2>0, <2>3, <2>b DEF Left
      <3>2. \A u \in Thread : Writes(u) => Writes(u)'
        BY <1>9, <2>3, DownloadedStep DEF Same, WritesBook
      <3>3. CASE book' = book
        BY <1>1, <3>2, <3>3
      <3>4. CASE book' \in {"whole", "other", "cut"}
        BY <3>4 DEF BookInv
      <3> QED  BY <3>1, <3>3, <3>4
    <2> QED  BY <2>1, <2>2, <2>3
  <1>10. ASSUME NEW t \in Thread, Flush(t) PROVE BookInv'
    BY <1>1, <1>10, FlushStep
  <1>16. ASSUME NEW t \in Thread, Rename(t) PROVE BookInv'
    BY <1>1, <1>16, RenameStep
  <1>17. ASSUME NEW t \in Thread, NoHandle(t) PROVE BookInv'
    BY <1>17, NoHandleStep DEF BookInv
  <1>11. ASSUME NEW t \in Thread, ClearCookies(t) PROVE BookInv'
    <2>1. book' = book
      BY <1>11 DEF ClearCookies
    <2> QED  BY <1>1, <1>11, <2>1, ClearStep DEF Same, WritesBook
  <1>12. CASE Return
    <2>1. book' = book /\ call[Js].pc = "over"
      BY <1>12 DEF Return
    <2> QED  BY <1>1, <1>2, <1>12, <2>1, OtherSteps
  <1>13. ASSUME NEW w \in Worker, Ran(w) PROVE BookInv'
    <2>1. book' = book /\ call[w].pc = "over" /\ w \in Thread
      BY <1>2, <1>13 DEF Ran
    <2> QED  BY <1>1, <1>2, <1>13, <2>1, OtherSteps
  <1>14. CASE Restart
    BY <1>0, <1>14 DEF Restart, BookInv
  <1>15. CASE (\E l \in Lib : \E op \in AsyncOp(l) : Enqueue(l, op)) \/ Complete \/ UNCHANGED vars
    BY <1>1, <1>15 DEF Enqueue, Complete, vars
  <1> QED
    BY <1>3, <1>4, <1>5, <1>6, <1>7, <1>8, <1>9, <1>10, <1>11, <1>12, <1>13, <1>14, <1>15, <1>16,
       <1>17
    DEF Next, Step

(* When nothing is written to the path of a download, the book there is     *)
(* whole or absent, never a page and never what overlapping downloads left  *)
(* half written.  The exceptions are those that NoHalfBook names: a part    *)
(* left by a process death, a missing handle or a failing close, and the    *)
(* body of a success with a business error: performCurlDownload.            *)
THEOREM NoHalfBookEver == Spec => []NoHalfBook
  <1>1. Init => BookInv  BY BookInit
  <1>2. TypeOK /\ SaveInv /\ BookInv /\ [Next]_vars => BookInv'  BY BookNext
  <1>3. TypeOK /\ BookInv => NoHalfBook
    BY DEF TypeOK, BookInv, NoHalfBook
  <1> QED  BY <1>1, <1>2, <1>3, TypesHold, SavesHold, PTL DEF Spec

-----------------------------------------------------------------------------
(* No cookie at all is a session that is not known.                         *)
LEMMA KnownSimple ==
  ASSUME NEW given
  PROVE  /\ Known(NoSession, given) /\ Known(Absent, given)
         /\ Known(NoCookies.live, given) /\ Known(NoCookies.read, given)
  BY ConstantsOK DEF Known, NoSession, Absent, NoCookies, Session

(* No step forgets a session that the server gave.                          *)
LEMMA KnownStays ==
  ASSUME TypeOK, [Next]_vars
  PROVE  \A c : Known(c, logins) => Known(c, logins')
  <1>0. logins \in [Root -> 0..MaxLogins]
    BY DEF TypeOK
  <1>1. ASSUME NEW r \in Root
        PROVE  logins[r] \in Nat /\ logins'[r] \in Nat /\ logins[r] <= logins'[r]
    <2>1. logins[r] \in Nat
      BY <1>0, ConstantsOK
    <2>2. CASE logins' = logins
      BY <2>1, <2>2
    <2>3. ASSUME NEW t \in Thread, NEW a \in Answer, Answered(t, a), logins' # logins
          PROVE  logins'[r] = logins[r] \/ logins'[r] = logins[r] + 1
      <3>1. logins' = [logins EXCEPT ![call[t].account] = @ + 1]
        BY <2>3 DEF Answered
      <3> QED  BY <1>0, <3>1
    <2>4. logins' = logins \/ \E t \in Thread, a \in Answer : Answered(t, a)
      BY DEF Next, Step, SetIdentityDir, Enqueue, CallNow, Execute, NotSent, NoHandle, Begin,
             Downloaded, Flush, Rename, ClearCookies, Return, Ran, Complete, Restart, vars
    <2>5. logins'[r] = logins[r] \/ logins'[r] = logins[r] + 1
      BY <2>3, <2>4
    <2> QED  BY <2>1, <2>5
  <1>2. \A c \in Session : c.of \in Root /\ c.no \in Nat
    BY ConstantsOK DEF Session
  <1> QED  BY <1>1, <1>2 DEF Known

(* There are no sessions at start.                                          *)
LEMMA CookiesInit == Init => CookiesKnown
  BY KnownSimple DEF Init, CookiesKnown

(* Every step takes sessions from the server, a file or a handle.           *)
LEMMA CookiesNext == TypeOK /\ SaveInv /\ CookiesKnown /\ [Next]_vars => CookiesKnown'
  <1> SUFFICES ASSUME TypeOK, SaveInv, CookiesKnown, [Next]_vars PROVE CookiesKnown'
    OBVIOUS
  <1>0. /\ dir \in [Lib -> Root] /\ jar \in [Root -> Cookie \cup {Absent}]
        /\ tmp \in [Root -> Cookie \cup {Absent}]
        /\ persisted \in [Lib -> Cookie] /\ handle \in [Lib -> [Thread -> Handle]]
    BY DEF TypeOK, Handle
  <1>1. /\ \A r \in Root : Known(jar[r], logins') /\ Known(tmp[r], logins')
        /\ \A l \in Lib : Known(persisted[l], logins')
        /\ \A l \in Lib, t \in Thread :
             Known(handle[l][t].live, logins') /\ Known(handle[l][t].read, logins')
    BY KnownStays DEF CookiesKnown
  <1>2. CASE UNCHANGED <<jar, tmp, persisted, handle>>
    BY <1>1, <1>2 DEF CookiesKnown
  <1>3. ASSUME NEW t \in Thread, Begin(t) PROVE CookiesKnown'
    <2> DEFINE l == call[t].lib
               h == ReadFile(handle[l][t], jar[dir[l]])
    <2>1. l \in Lib /\ handle[l][t] \in Handle /\ dir[l] \in Root
      BY <1>0, FieldTypes
    <2>2. handle' = [handle EXCEPT ![l][t] = h] /\ UNCHANGED <<jar, tmp, persisted>>
      BY <1>3 DEF Begin, jars
    <2>3. Known(h.live, logins') /\ Known(h.read, logins')
      BY <1>1, <2>1 DEF ReadFile, Handle
    <2> HIDE DEF h, l
    <2>4. \A k \in Lib, u \in Thread : handle'[k][u] = h \/ handle'[k][u] = handle[k][u]
      BY <1>0, <2>1, <2>2
    <2> QED  BY <1>1, <2>2, <2>3, <2>4 DEF CookiesKnown
  <1>4. ASSUME NEW t \in Thread, NEW a \in Answer, Answered(t, a) PROVE CookiesKnown'
    <2> DEFINE l == call[t].lib
               r == call[t].account
               h == Received(handle[l][t], call[t].op, r, a)
    <2>1. l \in Lib /\ r \in Root /\ handle[l][t] \in Handle
      BY <1>0, FieldTypes
    <2>2. handle' = [handle EXCEPT ![l][t] = h] /\ UNCHANGED <<jar, tmp, persisted>>
      BY <1>4 DEF Answered, jars
    <2>3. Known(h.live, logins') /\ Known(h.read, logins')
      <3>1. CASE a = "ok" /\ call[t].op = "signin"
        <4>1. h.live = [of |-> r, no |-> logins[r] + 1] /\ h.read = handle[l][t].read
          BY <2>1, <3>1 DEF Received, Handle
        <4>2. logins'[r] = logins[r] + 1 /\ logins[r] + 1 \in Nat
          BY <1>4, <2>1, <3>1, ConstantsOK DEF Answered, TypeOK
        <4>3. Known([of |-> r, no |-> logins[r] + 1], logins')
          BY <4>2 DEF Known
        <4> QED  BY <1>1, <2>1, <4>1, <4>3
      <3>2. CASE ~(a = "ok" /\ call[t].op = "signin")
        BY <1>1, <2>1, <3>2, KnownSimple DEF Received
      <3> QED  BY <3>1, <3>2
    <2> HIDE DEF h, l, r
    <2>4. \A k \in Lib, u \in Thread : handle'[k][u] = h \/ handle'[k][u] = handle[k][u]
      BY <1>0, <2>1, <2>2
    <2> QED  BY <1>1, <2>2, <2>3, <2>4 DEF CookiesKnown
  <1>5. ASSUME NEW t \in Thread, Flush(t) PROVE CookiesKnown'
    <2> DEFINE l == call[t].lib
               lines == SentCookie(handle[l][t])
    <2>1. l \in Lib /\ dir[l] \in Root
      BY <1>0, FieldTypes
    <2>2. Known(lines, logins')
      BY <1>1, <2>1 DEF SentCookie
    <2>3. UNCHANGED <<jar, persisted, handle>>
      BY <1>5, FlushStep
    <2> HIDE DEF l, lines
    <2>4. tmp' = tmp \/ tmp' = [tmp EXCEPT ![dir[l]] = lines]
      BY <1>5, FlushStep DEF Flushed, l, lines
    <2> QED  BY <1>0, <1>1, <2>1, <2>2, <2>3, <2>4 DEF CookiesKnown
  <1>9. ASSUME NEW t \in Thread, Rename(t) PROVE CookiesKnown'
    <2> DEFINE l == call[t].lib
               r == save[l].root
               lines == SentCookie(handle[l][t])
    <2>1. l \in Lib /\ r \in Root
      BY FieldTypes DEF TypeOK
    <2>2. Known(lines, logins') /\ Known(tmp[r], logins')
      BY <1>1, <2>1 DEF SentCookie
    <2>3. /\ handle' = handle /\ tmp' = [tmp EXCEPT ![r] = Absent]
          /\ \/ UNCHANGED <<jar, persisted>>
             \/ jar' = [jar EXCEPT ![r] = tmp[r]] /\ persisted' = [persisted EXCEPT ![l] = lines]
      BY <1>9, RenameStep DEF Written
    <2> HIDE DEF l, r, lines
    <2>4. \A x \in Root : Known(tmp'[x], logins')
      BY <1>0, <1>1, <2>1, <2>3, KnownSimple
    <2> QED  BY <1>0, <1>1, <2>1, <2>2, <2>3, <2>4 DEF CookiesKnown
  <1>6. ASSUME NEW t \in Thread, ClearCookies(t) PROVE CookiesKnown'
    <2>1. jar' = [jar EXCEPT ![dir["entry"]] = Absent] /\ UNCHANGED <<tmp, persisted, handle>>
      BY <1>6 DEF ClearCookies
    <2> QED  BY <1>0, <1>1, <2>1, KnownSimple DEF CookiesKnown
  <1>7. CASE Restart
    BY <1>1, <1>7, KnownSimple DEF Restart, CookiesKnown
  <1>8. \/ UNCHANGED <<jar, tmp, persisted, handle>>
        \/ \E t \in Thread : \/ Begin(t) \/ Flush(t) \/ Rename(t) \/ ClearCookies(t)
                            \/ \E a \in Answer : Answered(t, a)
        \/ Restart
    BY DEF Next, Step, SetIdentityDir, Enqueue, CallNow, Execute, NotSent, NoHandle, Downloaded, Return,
           Ran, Complete, vars, jars
  <1> QED  BY <1>2, <1>3, <1>4, <1>5, <1>6, <1>7, <1>8, <1>9

-----------------------------------------------------------------------------
(* Nothing is alone at start.                                               *)
LEMMA AloneInit == Init => AloneInv
  <1> SUFFICES ASSUME Init PROVE AloneInv
    OBVIOUS
  <1>1. \A t \in Thread : ~call[t].alone
    BY DEF Init, Resting
  <1>2. 1..Len(queue) = {}
    BY DEF Init
  <1> QED  BY <1>1, <1>2 DEF AloneInv

(* A thread in a request is the only one, when one of the others is alone. *)
LEMMA OneAlone ==
  ASSUME AloneInv, NEW t \in Thread, NEW u \in Thread, u # t, InRequest(t), call[u].alone
  PROVE  ~InRequest(u) /\ ~(call[u].pc = "over" /\ call[u].got = "ok")
  BY DEF AloneInv, Quiet

(* Every step keeps what "alone" says.                                      *)
LEMMA AloneNext == TypeOK /\ SaveInv /\ AloneInv /\ [Next]_vars => AloneInv'
  <1> SUFFICES ASSUME TypeOK, SaveInv, AloneInv, [Next]_vars PROVE AloneInv'
    OBVIOUS
  <1> DEFINE Busy(t) == InRequest(t) \/ (call[t].pc = "over" /\ call[t].got = "ok")
             AtHome(t) == \A l \in Lib : dir[l] = call[t].account
             Fine(t) == call[t].alone => AtHome(t) /\ (Busy(t) => Quiet(t))
             Waits(n) == /\ queue[n].alone => \A l \in Lib : dir[l] = queue[n].account
                         /\ queue[n].pc = "start" /\ queue[n].got = "lost"
  <1>0. /\ \A t \in Thread : Fine(t)
        /\ \A n \in 1..Len(queue) : Waits(n)
        /\ Js \in Thread /\ Worker \subseteq Thread /\ call \in [Thread -> Call]
    BY SmallTypes DEF AloneInv, TypeOK
  <1>a. ASSUME \A t \in Thread : Fine(t)', \A n \in 1..Len(queue') : Waits(n)'
        PROVE  AloneInv'
    BY <1>a DEF AloneInv
  <1>q. ASSUME queue' = queue, dir' = dir PROVE \A n \in 1..Len(queue') : Waits(n)'
    BY <1>0, <1>q
  \* A step of a thread that is in a request before it.
  <1>r. ASSUME NEW t \in Thread, InRequest(t), dir' = dir, queue' = queue,
               \A u \in Thread : Same(u) /\ (call'[u].alone => call[u].alone),
               \A u \in Thread \ {t} : call'[u].pc = call[u].pc /\ call'[u].got = call[u].got
        PROVE  AloneInv'
    <2>1. ASSUME NEW u \in Thread PROVE Fine(u)'
      <3>1. CASE u = t
        BY <1>0, <1>r, <3>1 DEF Quiet, InRequest, Same
      <3>2. CASE u # t
        <4>1. call[u].alone => ~Busy(u)
          BY <1>r, <3>2, OneAlone
        <4> QED  BY <1>0, <1>r, <2>1, <3>2, <4>1 DEF InRequest, Same
      <3> QED  BY <3>1, <3>2
    <2> QED  BY <1>a, <1>q, <1>r, <2>1
  \* A step after which one thread is in no request and is not over with "ok".
  <1>s. ASSUME NEW t \in Thread, dir' = dir, \A n \in 1..Len(queue') : Waits(n)',
               \A u \in Thread \ {t} : call'[u] = call[u],
               ~Busy(t)', call'[t].alone => AtHome(t)'
        PROVE  AloneInv'
    <2>1. ASSUME NEW u \in Thread PROVE Fine(u)'
      <3>1. CASE u = t
        BY <1>s, <3>1
      <3>2. CASE u # t
        <4>1. call'[u] = call[u]
          BY <1>s, <3>2
        <4>2. Quiet(u) => Quiet(u)'
          BY <1>s DEF Quiet, InRequest
        <4> QED  BY <1>0, <1>s, <4>1, <4>2 DEF InRequest
      <3> QED  BY <3>1, <3>2
    <2> QED  BY <1>a, <1>s, <2>1
  <1>1. ASSUME NEW l \in Lib, NEW r \in Root, SetIdentityDir(l, r) PROVE AloneInv'
    BY <1>0, <1>1, <1>a, SwitchStep
  <1>2. ASSUME NEW l \in Lib, NEW op \in AsyncOp(l), Enqueue(l, op) PROVE AloneInv'
    <2>1. JsFree /\ call' = call /\ dir' = dir
      BY <1>2, EnqueueStep
    <2>2. PICK i \in Item :
            \A n \in 1..Len(queue') :
              \/ n \in 1..Len(queue) /\ queue'[n] = queue[n]
              \/ queue'[n] = NewCall(l, op, i)
      BY <1>2, EnqueueStep
    <2>3. \A n \in 1..Len(queue') : Waits(n)'
      <3>1. \A k \in Lib : dir[k] = dir["entry"]
        BY <2>1 DEF JsFree
      <3> QED  BY <1>0, <2>1, <2>2, <3>1, NewCallFields
    <2> QED  BY <1>0, <1>a, <2>1, <2>3 DEF Quiet, InRequest
  <1>3. ASSUME NEW l \in Lib, NEW op \in SyncOp(l), CallNow(l, op) PROVE AloneInv'
    <2>1. /\ call' = [call EXCEPT ![Js] = NewCall(l, op, None)]
          /\ JsFree /\ dir' = dir /\ queue' = queue
      BY <1>0, <1>3, OtherSteps
    <2>2. /\ \A u \in Thread \ {Js} : call'[u] = call[u]
          /\ call'[Js] = NewCall(l, op, None)
      BY <1>0, <2>1
    <2>3. ~Busy(Js)' /\ AtHome(Js)'
      BY <2>1, <2>2, NewCallFields DEF JsFree, InRequest
    <2> QED  BY <1>0, <1>q, <1>s, <2>1, <2>2, <2>3
  <1>4. ASSUME NEW w \in Worker, Execute(w) PROVE AloneInv'
    <2>1. \A n \in 1..Len(queue') : Waits(n)'
      BY <1>0, <1>4, ExecuteStep
    <2>2. /\ \A u \in Thread \ {w} : call'[u] = call[u]
          /\ 1 \in 1..Len(queue) /\ call'[w] = queue[1] /\ dir' = dir
      BY <1>4, ExecuteStep
    <2>3. ~Busy(w)' /\ (call'[w].alone => AtHome(w)')
      BY <1>0, <2>2 DEF InRequest
    <2> QED  BY <1>0, <1>s, <2>1, <2>2, <2>3
  <1>5. ASSUME NEW t \in Thread, NotSent(t) PROVE AloneInv'
    <2>1. dir' = dir /\ queue' = queue
      BY <1>5 DEF NotSent
    <2>2. ~Busy(t)' /\ (call'[t].alone => AtHome(t)')
      BY <1>0, <1>5, <2>1, NotSentStep DEF InRequest, Same
    <2> QED  BY <1>5, <1>q, <1>s, <2>1, <2>2, NotSentStep
  <1>6. ASSUME NEW t \in Thread, Begin(t) PROVE AloneInv'
    <2>1. dir' = dir /\ queue' = queue
      BY <1>6 DEF Begin
    <2>2. ASSUME NEW u \in Thread PROVE Fine(u)'
      <3>1. CASE u = t
        BY <1>0, <1>6, <2>1, <3>1, BeginStep DEF Same, Quiet, InRequest
      <3>2. CASE u # t
        BY <1>6, <3>2, BeginStep
      <3> QED  BY <3>1, <3>2
    <2> QED  BY <1>a, <1>q, <2>1, <2>2
  <1>7. ASSUME NEW t \in Thread, NEW a \in Answer, Answered(t, a) PROVE AloneInv'
    <2>1. dir' = dir /\ queue' = queue
      BY <1>7 DEF Answered
    <2> QED  BY <1>7, <1>r, <2>1, AnsweredStep DEF InRequest
  <1>8. ASSUME NEW t \in Thread, NEW a \in Answer, Downloaded(t, a) PROVE AloneInv'
    <2>1. dir' = dir /\ queue' = queue
      BY <1>8 DEF Downloaded
    <2> QED  BY <1>8, <1>r, <2>1, DownloadedStep DEF InRequest
  <1>9. ASSUME NEW t \in Thread, Flush(t) PROVE AloneInv'
    <2>1. InRequest(t) /\ dir' = dir /\ queue' = queue
      BY <1>9, FlushStep DEF InRequest
    <2> QED  BY <1>9, <1>r, <2>1, FlushStep
  <1>16. ASSUME NEW t \in Thread, Rename(t) PROVE AloneInv'
    <2>1. InRequest(t) /\ dir' = dir /\ queue' = queue
      BY <1>16, RenameStep DEF InRequest
    <2> QED  BY <1>16, <1>r, <2>1, RenameStep
  <1>17. ASSUME NEW t \in Thread, NoHandle(t) PROVE AloneInv'
    <2>1. dir' = dir /\ queue' = queue
      BY <1>17, NoHandleStep
    <2>2. ASSUME NEW u \in Thread PROVE Fine(u)'
      <3>1. CASE u = t
        BY <1>0, <1>17, <2>1, <3>1, NoHandleStep DEF InRequest, Same
      <3>2. CASE u # t
        <4>1. Same(u) /\ call'[u].pc = call[u].pc /\ call'[u].got = call[u].got /\ call'[u].alone = call[u].alone
          BY <1>17, <3>2, NoHandleStep
        <4>2. Quiet(u) => Quiet(u)'
          BY <1>17, NoHandleStep DEF Quiet, InRequest
        <4> QED  BY <1>0, <2>1, <4>1, <4>2 DEF InRequest, Same
      <3> QED  BY <3>1, <3>2
    <2> QED  BY <1>a, <1>q, <2>1, <2>2
  <1>10. ASSUME NEW t \in Thread, ClearCookies(t) PROVE AloneInv'
    <2>1. dir' = dir /\ queue' = queue
      BY <1>10 DEF ClearCookies
    <2> QED  BY <1>10, <1>a, <1>q, <2>1, ClearStep
  <1>11. ASSUME NEW t \in Thread, dir' = dir, queue' = queue, call' = [call EXCEPT ![t] = Resting]
         PROVE  AloneInv'
    <2>1. call'[t] = Resting /\ \A u \in Thread \ {t} : call'[u] = call[u]
      BY <1>0, <1>11
    <2>2. ~Busy(t)' /\ ~call'[t].alone
      BY <2>1 DEF Resting, InRequest
    <2> QED  BY <1>11, <1>q, <1>s, <2>1, <2>2
  <1>12. CASE Return
    <2>1. dir' = dir /\ queue' = queue
      BY <1>12 DEF Return
    <2> QED  BY <1>0, <1>11, <1>12, <2>1, OtherSteps
  <1>13. ASSUME NEW w \in Worker, Ran(w) PROVE AloneInv'
    <2>1. dir' = dir /\ queue' = queue
      BY <1>13 DEF Ran
    <2> QED  BY <1>0, <1>11, <1>13, <2>1, OtherSteps
  <1>14. CASE Complete \/ UNCHANGED vars
    <2>1. call' = call /\ dir' = dir /\ queue' = queue
      BY <1>14 DEF Complete, vars
    <2> QED  BY <2>1 DEF AloneInv, Quiet, InRequest
  <1>15. CASE Restart
    <2>1. queue' = <<>> /\ \A u \in Thread : ~call'[u].alone
      BY <1>15 DEF Restart, Resting
    <2>2. 1..Len(queue') = {}
      BY <2>1
    <2> QED  BY <1>a, <2>1, <2>2
  <1> QED
    BY <1>1, <1>2, <1>3, <1>4, <1>5, <1>6, <1>7, <1>8, <1>9, <1>10, <1>12, <1>13, <1>14, <1>15,
       <1>16, <1>17
    DEF Next, Step

-----------------------------------------------------------------------------
(* Nobody signs in at start.                                                *)
LEMMA LoginInit == Init => LoginInv
  BY DEF Init, LoginInv, Resting

(* Every step takes an accepted session on to the file.                     *)
LEMMA LoginNext ==
  TypeOK /\ SaveInv /\ AloneInv /\ CookiesKnown /\ LoginInv /\ [Next]_vars => LoginInv'
  <1> SUFFICES ASSUME TypeOK, SaveInv, AloneInv, CookiesKnown, LoginInv, [Next]_vars PROVE LoginInv'
    OBVIOUS
  <1> DEFINE Later(t) == call[t].op = "signin" /\ call[t].pc = "again" => call[t].got # "ok"
             Held(t) == Signed(t) /\ call[t].pc = "answered" =>
                          /\ SentCookie(handle[call[t].lib][t]) = New(t)
                          /\ \A l \in Lib : persisted[l] # New(t)
                          /\ save[call[t].lib].by = t =>
                               /\ save[call[t].lib].sole
                               /\ save[call[t].lib].root = call[t].account
             Saved(t) == Signed(t) /\ call[t].pc = "over" => jar[call[t].account] = New(t)
  <1>0. /\ \A t \in Thread : Later(t) /\ Held(t) /\ Saved(t)
        /\ Js \in Thread /\ Worker \subseteq Thread /\ call \in [Thread -> Call]
    BY SmallTypes DEF LoginInv, TypeOK
  <1>a. ASSUME \A t \in Thread : Later(t)' /\ Held(t)' /\ Saved(t)' PROVE LoginInv'
    BY <1>a DEF LoginInv
  \* A thread whose call is not the only one in a request.
  <1>b. ASSUME NEW u \in Thread, ~call'[u].alone,
               Same(u), call'[u].pc = call[u].pc, call'[u].got = call[u].got
        PROVE  Later(u)' /\ Held(u)' /\ Saved(u)'
    BY <1>0, <1>b DEF Same, Signed
  <1>c. ASSUME NEW t \in Thread, InRequest(t), NEW u \in Thread \ {t},
               call'[u].alone = call[u].alone,
               Same(u), call'[u].pc = call[u].pc, call'[u].got = call[u].got
        PROVE  Later(u)' /\ Held(u)' /\ Saved(u)'
    <2>1. call[u].alone => ~InRequest(u) /\ ~(call[u].pc = "over" /\ call[u].got = "ok")
      BY <1>c, OneAlone
    <2> QED  BY <1>0, <1>c, <2>1 DEF Same, Signed, InRequest
  \* A step that moves one thread to a state in which nothing is said of it.
  <1>d. ASSUME NEW t \in Thread, \A u \in Thread \ {t} : call'[u] = call[u],
               UNCHANGED <<jars, handle, logins>>,
               \/ call'[t].pc \in {"idle", "start", "sent"}
               \/ call'[t].pc = "over" /\ call'[t].got = "lost"
        PROVE  LoginInv'
    <2>1. ASSUME NEW u \in Thread PROVE Later(u)' /\ Held(u)' /\ Saved(u)'
      <3>1. CASE u = t
        BY <1>d, <3>1 DEF Signed
      <3>2. CASE u # t
        <4>1. call'[u] = call[u]
          BY <1>d, <3>2
        <4> QED  BY <1>0, <1>d, <4>1 DEF Signed, New, jars
      <3> QED  BY <3>1, <3>2
    <2> QED  BY <1>a, <2>1
  <1>1. ASSUME NEW l \in Lib, NEW r \in Root, SetIdentityDir(l, r) PROVE LoginInv'
    BY <1>1, <1>a, <1>b, SwitchStep
  <1>2. ASSUME call' = call, UNCHANGED <<jars, handle, logins>> PROVE LoginInv'
    BY <1>0, <1>2, <1>a DEF Signed, New, jars
  <1>3. ASSUME NEW l \in Lib, NEW op \in SyncOp(l), CallNow(l, op) PROVE LoginInv'
    <2>1. UNCHANGED <<jars, handle, logins>>
      BY <1>3 DEF CallNow
    <2>2. call'[Js] = NewCall(l, op, None) /\ \A u \in Thread \ {Js} : call'[u] = call[u]
      BY <1>0, <1>3, OtherSteps
    <2> QED  BY <1>0, <1>d, <2>1, <2>2, NewCallFields
  <1>4. ASSUME NEW w \in Worker, Execute(w) PROVE LoginInv'
    <2>1. UNCHANGED <<jars, handle, logins>>
      BY <1>4 DEF Execute
    <2>2. call'[w].pc = "start"
      BY <1>4, ExecuteStep DEF AloneInv
    <2> QED  BY <1>0, <1>4, <1>d, <2>1, <2>2, ExecuteStep
  <1>5. ASSUME NEW t \in Thread, NotSent(t) PROVE LoginInv'
    <2>1. UNCHANGED <<jars, handle, logins>>
      BY <1>5 DEF NotSent
    <2> QED  BY <1>5, <1>d, <2>1, NotSentStep
  <1>6. ASSUME NEW t \in Thread, Begin(t) PROVE LoginInv'
    <2>1. ASSUME NEW u \in Thread PROVE Later(u)' /\ Held(u)' /\ Saved(u)'
      <3>1. CASE u = t
        BY <1>6, <3>1, BeginStep
      <3>2. CASE u # t
        BY <1>6, <1>b, <3>2, BeginStep
      <3> QED  BY <3>1, <3>2
    <2> QED  BY <1>a, <2>1
  <1>7. ASSUME NEW t \in Thread, NEW a \in Answer, Answered(t, a) PROVE LoginInv'
    <2> DEFINE l == call[t].lib
               r == call[t].account
    <2>1. InRequest(t) /\ call'[t].pc \in {"answered", "again"}
      BY <1>7, AnsweredStep DEF InRequest
    <2>2. Later(t)'
      BY <1>7, AnsweredStep DEF Same
    <2>3. Held(t)'
      <3> SUFFICES ASSUME Signed(t)'
                   PROVE  /\ SentCookie(handle'[l][t]) = New(t)'
                          /\ \A k \in Lib : persisted'[k] # New(t)'
        <4>1. save' = save /\ call[t].pc = "sent" /\ l \in Lib /\ t # None
          BY <1>7, FieldTypes, SmallTypes DEF Answered, jars
        <4>2. save'[l].by # t
          BY <4>1 DEF SaveInv
        <4> QED  BY <1>7, <4>2, AnsweredStep DEF Same
      <3>1. call[t].op = "signin" /\ a = "ok"
        BY <1>7, AnsweredStep DEF Signed, Same
      <3>2. r \in Root /\ l \in Lib /\ handle[l][t] \in Handle /\ handle \in [Lib -> [Thread -> Handle]]
        BY FieldTypes DEF TypeOK, Handle
      <3>3. logins' = [logins EXCEPT ![r] = @ + 1] /\ logins \in [Root -> 0..MaxLogins]
        BY <1>7, <3>1 DEF Answered, TypeOK
      <3>4. logins[r] \in Nat /\ logins'[r] = logins[r] + 1
        BY <3>2, <3>3, ConstantsOK
      <3>5. New(t)' = [of |-> r, no |-> logins[r] + 1]
        BY <1>7, <3>4, AnsweredStep DEF New, Same
      <3>6. handle'[l][t] = [handle[l][t] EXCEPT !.live = New(t)']
        BY <1>7, <3>1, <3>2, <3>5 DEF Answered, Received
      <3>7. New(t)' # NoSession
        BY <3>2, <3>5, ConstantsOK DEF NoSession
      <3>8. SentCookie(handle'[l][t]) = New(t)'
        BY <3>2, <3>6, <3>7 DEF SentCookie, Handle
      <3>9. ASSUME NEW k \in Lib PROVE persisted'[k] # New(t)'
        <4>1. persisted'[k] = persisted[k] /\ persisted[k] \in Cookie
          BY <1>7 DEF Answered, jars, TypeOK
        <4>2. persisted[k] \in Session => persisted[k].no <= logins[persisted[k].of]
          BY DEF CookiesKnown, Known
        <4>3. SUFFICES ASSUME persisted[k] = New(t)' PROVE FALSE
          BY <4>1
        <4>4. persisted[k].of = r /\ persisted[k].no = logins[r] + 1
          BY <3>5, <4>3
        <4>5. persisted[k] \in Session
          BY <3>7, <4>1, <4>3 DEF Cookie
        <4> QED  BY <3>4, <4>2, <4>4, <4>5
      <3> QED  BY <3>8, <3>9
    <2>4. Saved(t)'
      BY <2>1
    <2>5. ASSUME NEW u \in Thread \ {t} PROVE Later(u)' /\ Held(u)' /\ Saved(u)'
      BY <1>7, <1>c, <2>1, <2>5, AnsweredStep
    <2> QED  BY <1>a, <2>2, <2>3, <2>4, <2>5
  <1>8. ASSUME NEW t \in Thread, NEW a \in Answer, Downloaded(t, a) PROVE LoginInv'
    <2>1. InRequest(t) /\ call'[t].op = "download"
      BY <1>8, DownloadedStep DEF InRequest, Same, WritesBook
    <2>2. Later(t)' /\ Held(t)' /\ Saved(t)'
      BY <2>1 DEF Signed
    <2>3. ASSUME NEW u \in Thread \ {t} PROVE Later(u)' /\ Held(u)' /\ Saved(u)'
      BY <1>8, <1>c, <2>1, <2>3, DownloadedStep
    <2> QED  BY <1>a, <2>2, <2>3
  <1>9. ASSUME NEW t \in Thread, Flush(t) PROVE LoginInv'
    <2> DEFINE l == call[t].lib
               r == call[t].account
               lines == SentCookie(handle[l][t])
    <2>1. InRequest(t) /\ l \in Lib /\ r \in Root
      BY <1>9, FieldTypes, FlushStep DEF InRequest
    <2>2. ASSUME NEW u \in Thread \ {t} PROVE Later(u)' /\ Held(u)' /\ Saved(u)'
      BY <1>9, <1>c, <2>1, <2>2, FlushStep
    <2>3. CASE call' = call /\ Flushed(t, l, dir[l], lines)
      <3>1. Later(t)' /\ Saved(t)'
        BY <1>0, <1>9, <2>3, FlushStep DEF Signed, New
      <3>2. Held(t)'
        <4> SUFFICES ASSUME Signed(t), call[t].pc = "answered" PROVE Held(t)'
          BY <2>3 DEF Signed
        <4>1. dir[l] = r
          BY <2>1 DEF AloneInv, Signed
        <4>2. save'[l] = [by |-> t, root |-> r, sole |-> TRUE]
          BY <2>1, <2>3, <4>1 DEF Flushed, Overlapping
        <4>3. New(t)' = New(t) /\ handle' = handle /\ persisted' = persisted
          BY <1>9, <2>3, FlushStep DEF New
        <4> QED  BY <1>0, <2>3, <4>2, <4>3
      <3> QED  BY <1>a, <2>2, <3>1, <3>2
    <2>4. CASE /\ call[t].pc = "again" => call'[t].pc = "start"
               /\ call[t].pc = "answered" => call'[t].pc = "over"
               /\ call'[t].alone => lines = persisted[l]
      <3>1. ~(Signed(t)' /\ call'[t].pc = "over")
        <4> SUFFICES ASSUME Signed(t)', call'[t].pc = "over" PROVE FALSE
          OBVIOUS
        <4>1. Signed(t) /\ call[t].pc = "answered" /\ lines = persisted[l]
          BY <1>9, <2>4, FlushStep DEF Signed, Same
        <4> QED  BY <1>0, <2>1, <4>1
      <3>2. call'[t].pc \in {"start", "over"}
        BY <1>9, <2>4, FlushStep
      <3> QED  BY <1>a, <2>2, <3>1, <3>2
    <2> QED  BY <1>9, <2>3, <2>4, FlushStep
  <1>16. ASSUME NEW t \in Thread, Rename(t) PROVE LoginInv'
    <2> DEFINE l == call[t].lib
               r == call[t].account
               lines == SentCookie(handle[l][t])
    <2>1. InRequest(t) /\ call'[t].pc \in {"start", "over"} /\ l \in Lib /\ r \in Root /\ t # None
      BY <1>16, FieldTypes, SmallTypes, RenameStep DEF InRequest
    <2>2. Later(t)' /\ Held(t)'
      BY <2>1
    <2>3. Saved(t)'
      <3> SUFFICES ASSUME Signed(t)', call'[t].pc = "over" PROVE jar'[r] = New(t)'
        BY <1>16, RenameStep DEF Same
      <3>1. Signed(t) /\ call[t].pc = "answered" /\ save[l].by = t
        BY <1>16, RenameStep DEF Signed, Same
      <3>2. lines = New(t) /\ save[l].sole /\ save[l].root = r
        BY <1>0, <3>1
      <3>3. New(t)' = New(t)
        BY <1>16, RenameStep DEF New, Same
      <3>4. tmp[r] = lines
        BY <2>1, <3>1, <3>2 DEF SaveInv
      <3>5. jar' = [jar EXCEPT ![r] = tmp[r]]
        BY <1>16, <3>2, RenameStep DEF Signed, Written
      <3> QED  BY <2>1, <3>2, <3>3, <3>4, <3>5 DEF TypeOK
    <2>4. ASSUME NEW u \in Thread \ {t} PROVE Later(u)' /\ Held(u)' /\ Saved(u)'
      BY <1>16, <1>c, <2>1, <2>4, RenameStep
    <2> QED  BY <1>a, <2>2, <2>3, <2>4
  <1>17. ASSUME NEW t \in Thread, NoHandle(t) PROVE LoginInv'
    <2>1. ASSUME NEW u \in Thread \ {t} PROVE Later(u)' /\ Held(u)' /\ Saved(u)'
      BY <1>0, <1>17, <2>1, NoHandleStep DEF Same, Signed, New, jars
    <2>2. Later(t)' /\ Held(t)' /\ Saved(t)'
      BY <1>17, NoHandleStep DEF Signed
    <2> QED  BY <1>a, <2>1, <2>2
  <1>10. ASSUME NEW t \in Thread, ClearCookies(t) PROVE LoginInv'
    <2>1. ASSUME NEW u \in Thread PROVE Later(u)' /\ Held(u)' /\ Saved(u)'
      <3>1. CASE u = t
        BY <1>10, <3>1, ClearStep DEF Resting, Signed
      <3>2. CASE u # t
        BY <1>10, <1>b, <3>2, ClearStep
      <3> QED  BY <3>1, <3>2
    <2> QED  BY <1>a, <2>1
  <1>11. ASSUME NEW t \in Thread, call' = [call EXCEPT ![t] = Resting],
                UNCHANGED <<jars, handle, logins>>
         PROVE  LoginInv'
    BY <1>0, <1>11, <1>d DEF Resting
  <1>12. CASE Return
    BY <1>0, <1>11, <1>12 DEF Return
  <1>13. ASSUME NEW w \in Worker, Ran(w) PROVE LoginInv'
    BY <1>0, <1>11, <1>13 DEF Ran
  <1>14. CASE Restart
    BY <1>14, <1>a DEF Restart, Resting, Signed
  <1>15. CASE (\E l \in Lib : \E op \in AsyncOp(l) : Enqueue(l, op)) \/ Complete \/ UNCHANGED vars
    BY <1>2, <1>15 DEF Enqueue, Complete, vars
  <1> QED
    BY <1>1, <1>3, <1>4, <1>5, <1>6, <1>7, <1>8, <1>9, <1>10, <1>12, <1>13, <1>14, <1>15,
       <1>16, <1>17
    DEF Next, Step

(* A sign-in that was accepted, that no other request overlapped and whose  *)
(* save did not fail has its session in cookies.txt of its account when the *)
(* call ends: signIn, acquireEasyHandle and persistCookiesIfChanged, for    *)
(* any number of threads and whatever the handles and the file held.        *)
THEOREM LoginsSurvive == Spec => []LoginSurvives
  <1>1. Init => AloneInv /\ CookiesKnown /\ LoginInv
    BY AloneInit, CookiesInit, LoginInit
  <1>2. TypeOK /\ SaveInv /\ AloneInv /\ CookiesKnown /\ LoginInv /\ [Next]_vars =>
          (AloneInv /\ CookiesKnown /\ LoginInv)'
    BY AloneNext, CookiesNext, LoginNext
  <1>3. TypeOK /\ LoginInv => LoginSurvives
    <2> SUFFICES ASSUME TypeOK, LoginInv, NEW t \in Thread,
                        call[t].pc = "over", call[t].op = "signin", call[t].alone,
                        Accepted("signin", call[t].got), call[t].got # "page"
                 PROVE  jar[call[t].account] = New(t)
      BY DEF LoginSurvives, New
    <2>1. call[t].got = "ok"
      BY DEF Accepted, Success
    <2> QED  BY <2>1 DEF LoginInv, Signed
  <1> QED  BY <1>1, <1>2, <1>3, TypesHold, SavesHold, PTL DEF Spec

-----------------------------------------------------------------------------
(* A switch waits for the calls and finds handles without cookies: what the *)
(* code would have if setIdentityDir let the pool run empty and reset the   *)
(* curl handles of every thread.                                            *)
SwitchedClean ==
  dir' # dir => /\ queue' = <<>>
                /\ \A t \in Thread : call'[t].pc = "idle" /\ \A l \in Lib : handle'[l][t] = NoCookies

\* No session, or one of account r.
OwnCookie(c, r) == c.of \in {r, None}

OwnHandle(h, r) == OwnCookie(h.live, r) /\ OwnCookie(h.read, r)

\* Both libraries have the directory of account a.
Active(a) == \A l \in Lib : dir[l] = a

(* Work is that of the active account, and every file and handle has only   *)
(* sessions of its account.                                                 *)
OwnWork ==
  /\ \A n \in 1..Len(queue) : Active(queue[n].account)
  /\ \A t \in Thread : call[t].pc # "idle" => Active(call[t].account)

OwnTmp == \A r \in Root : OwnCookie(tmp[r], r)

OwnHandles == \A l \in Lib, t \in Thread : OwnHandle(handle[l][t], dir[l])

OwnInv == OwnSession /\ OwnTmp /\ OwnHandles /\ OwnWork

-----------------------------------------------------------------------------
\* Where there is no session, none is foreign.
LEMMA NoneForeign ==
  ASSUME NEW r
  PROVE  OwnCookie(NoSession, r) /\ OwnCookie(Absent, r) /\ OwnHandle(NoCookies, r)
  BY DEF OwnCookie, OwnHandle, NoSession, Absent, NoCookies

\* While the directories stay, work stays that of the active account.
LEMMA OwnWorkNext ==
  ASSUME TypeOK, SaveInv, OwnWork, [Next]_vars, dir' = dir
  PROVE  OwnWork'
  <1>0. /\ Js \in Thread /\ Worker \subseteq Thread /\ Resting.pc = "idle" /\ "entry" \in Lib
        /\ call \in [Thread -> Call]
    BY SmallTypes DEF Resting, TypeOK
  <1>1. \A a : Active(a)' <=> Active(a)
    BY DEF Active
  <1>2. ASSUME JsFree PROVE Active(dir["entry"])
    BY <1>2 DEF JsFree, Active
  \* Steps that make no new work.
  <1>3. ASSUME queue' = queue,
               \A u \in Thread : \/ call'[u].pc = "idle"
                                 \/ call[u].pc # "idle" /\ call'[u].account = call[u].account
        PROVE  OwnWork'
    BY <1>1, <1>3 DEF OwnWork
  <1>4. ASSUME NEW l \in Lib, NEW r \in Root, SetIdentityDir(l, r) PROVE OwnWork'
    <2>1. dir'[l] = r /\ r # dir[l]
      BY <1>4 DEF SetIdentityDir, TypeOK
    <2> QED  BY <2>1
  <1>5. ASSUME NEW l \in Lib, NEW op \in AsyncOp(l), Enqueue(l, op) PROVE OwnWork'
    BY <1>1, <1>2, <1>5, EnqueueStep, NewCallFields DEF OwnWork
  <1>6. ASSUME NEW l \in Lib, NEW op \in SyncOp(l), CallNow(l, op) PROVE OwnWork'
    <2>1. /\ call' = [call EXCEPT ![Js] = NewCall(l, op, None)] /\ queue' = queue /\ JsFree
      BY <1>0, <1>6, OtherSteps
    <2> QED  BY <1>0, <1>1, <1>2, <2>1, NewCallFields DEF OwnWork
  <1>7. ASSUME NEW w \in Worker, Execute(w) PROVE OwnWork'
    BY <1>0, <1>1, <1>7, ExecuteStep DEF OwnWork
  <1>8. ASSUME NEW t \in Thread, Step(t) PROVE OwnWork'
    <2>1. queue' = queue
      BY <1>8 DEF Step, NotSent, NoHandle, Begin, Answered, Downloaded, Flush, Rename
    <2>2. CASE NotSent(t)
      BY <1>3, <2>1, <2>2, NotSentStep DEF Same
    <2>3. CASE Begin(t)
      BY <1>3, <2>1, <2>3, BeginStep DEF Same
    <2>4. ASSUME NEW a \in Answer, Answered(t, a) PROVE OwnWork'
      BY <1>3, <2>1, <2>4, AnsweredStep DEF Same
    <2>5. ASSUME NEW a \in Answer, Downloaded(t, a) PROVE OwnWork'
      BY <1>3, <2>1, <2>5, DownloadedStep DEF Same
    <2>6. CASE Flush(t)
      BY <1>3, <2>1, <2>6, FlushStep DEF Same
    <2>7. CASE Rename(t)
      BY <1>3, <2>1, <2>7, RenameStep DEF Same
    <2>8. CASE NoHandle(t)
      BY <1>3, <2>1, <2>8, NoHandleStep DEF Same
    <2> QED  BY <1>8, <2>2, <2>3, <2>4, <2>5, <2>6, <2>7, <2>8 DEF Step
  <1>9. ASSUME NEW t \in Thread, ClearCookies(t) PROVE OwnWork'
    <2>1. queue' = queue
      BY <1>9 DEF ClearCookies
    <2> QED  BY <1>0, <1>3, <1>9, <2>1, ClearStep DEF Same
  <1>10. CASE Return
    <2>1. queue' = queue /\ call' = [call EXCEPT ![Js] = Resting]
      BY <1>10 DEF Return
    <2> QED  BY <1>0, <1>3, <2>1
  <1>11. ASSUME NEW w \in Worker, Ran(w) PROVE OwnWork'
    <2>1. queue' = queue /\ call' = [call EXCEPT ![w] = Resting]
      BY <1>11 DEF Ran
    <2> QED  BY <1>0, <1>3, <2>1
  <1>12. CASE Complete \/ UNCHANGED vars
    BY <1>3, <1>12 DEF Complete, vars
  <1>13. CASE Restart
    BY <1>0, <1>13, OtherSteps DEF OwnWork
  <1> QED
    BY <1>4, <1>5, <1>6, <1>7, <1>8, <1>9, <1>10, <1>11, <1>12, <1>13 DEF Next

\* While the directories stay, cookies are taken from the server, the file or
\* a handle of the active account.
LEMMA OwnCookiesNext ==
  ASSUME TypeOK, SaveInv, OwnInv, [Next]_vars, dir' = dir
  PROVE  OwnSession' /\ OwnTmp' /\ OwnHandles'
  <1>0. /\ dir \in [Lib -> Root] /\ jar \in [Root -> Cookie \cup {Absent}]
        /\ tmp \in [Root -> Cookie \cup {Absent}]
        /\ handle \in [Lib -> [Thread -> Handle]] /\ "entry" \in Lib
    BY SmallTypes DEF TypeOK, Handle
  <1>1. /\ \A r \in Root : OwnCookie(jar[r], r) /\ OwnCookie(tmp[r], r)
        /\ OwnTmp' <=> \A r \in Root : OwnCookie(tmp'[r], r)
        /\ \A l \in Lib, t \in Thread : OwnHandle(handle[l][t], dir[l])
        /\ OwnSession' <=> \A r \in Root : OwnCookie(jar'[r], r)
        /\ OwnHandles' <=> \A l \in Lib, t \in Thread : OwnHandle(handle'[l][t], dir[l])
    BY DEF OwnInv, OwnSession, OwnTmp, OwnHandles, OwnCookie
  <1>2. CASE UNCHANGED <<jar, tmp, handle>>
    BY <1>1, <1>2
  \* A step that changes one handle.
  <1>3. ASSUME NEW l \in Lib, NEW t \in Thread, NEW h, OwnHandle(h, dir[l]), jar' = jar, tmp' = tmp,
               handle' = [handle EXCEPT ![l][t] = h]
        PROVE  OwnSession' /\ OwnTmp' /\ OwnHandles'
    <2>1. \A k \in Lib, u \in Thread :
            handle'[k][u] = IF k = l /\ u = t THEN h ELSE handle[k][u]
      BY <1>0, <1>3
    <2> QED  BY <1>1, <1>3, <2>1
  <1>4. ASSUME NEW t \in Thread, Begin(t) PROVE OwnSession' /\ OwnTmp' /\ OwnHandles'
    <2> DEFINE l == call[t].lib
               h == ReadFile(handle[l][t], jar[dir[l]])
    <2>1. l \in Lib /\ handle[l][t] \in Handle /\ dir[l] \in Root
      BY <1>0, FieldTypes
    <2>2. handle' = [handle EXCEPT ![l][t] = h] /\ jar' = jar /\ tmp' = tmp
      BY <1>4 DEF Begin, jars
    <2>3. OwnHandle(h, dir[l])
      BY <1>1, <2>1 DEF ReadFile, OwnHandle, Handle
    <2> HIDE DEF h, l
    <2> QED  BY <1>3, <2>1, <2>2, <2>3
  <1>5. ASSUME NEW t \in Thread, NEW a \in Answer, Answered(t, a) PROVE OwnSession' /\ OwnTmp' /\ OwnHandles'
    <2> DEFINE l == call[t].lib
               r == call[t].account
               h == Received(handle[l][t], call[t].op, r, a)
    <2>1. l \in Lib /\ handle[l][t] \in Handle
      BY <1>0, FieldTypes
    <2>2. handle' = [handle EXCEPT ![l][t] = h] /\ jar' = jar /\ tmp' = tmp
      BY <1>5 DEF Answered, jars
    <2>3. r = dir[l]
      BY <1>5, <2>1 DEF Answered, OwnInv, OwnWork, Active
    <2>4. OwnHandle(h, dir[l])
      BY <1>1, <2>1, <2>3, NoneForeign DEF Received, OwnHandle, OwnCookie, Handle
    <2> HIDE DEF h, l, r
    <2> QED  BY <1>3, <2>1, <2>2, <2>4
  <1>6. ASSUME NEW t \in Thread, Flush(t) PROVE OwnSession' /\ OwnTmp' /\ OwnHandles'
    <2> DEFINE l == call[t].lib
               lines == SentCookie(handle[l][t])
    <2>1. l \in Lib /\ dir[l] \in Root
      BY <1>0, FieldTypes
    <2>2. OwnCookie(lines, dir[l])
      BY <1>1, <2>1 DEF SentCookie, OwnHandle
    <2>3. UNCHANGED <<handle, jar>>
      BY <1>6, FlushStep
    <2>4. tmp' = tmp \/ tmp' = [tmp EXCEPT ![dir[l]] = lines]
      BY <1>6, FlushStep DEF Flushed
    <2> HIDE DEF l, lines
    <2> QED  BY <1>0, <1>1, <2>1, <2>2, <2>3, <2>4
  <1>10. ASSUME NEW t \in Thread, Rename(t) PROVE OwnSession' /\ OwnTmp' /\ OwnHandles'
    <2> DEFINE r == save[call[t].lib].root
    <2>1. r \in Root
      BY FieldTypes DEF TypeOK
    <2>2. /\ handle' = handle /\ tmp' = [tmp EXCEPT ![r] = Absent]
          /\ jar' = jar \/ jar' = [jar EXCEPT ![r] = tmp[r]]
      BY <1>10, RenameStep DEF Written
    <2> HIDE DEF r
    <2> QED  BY <1>0, <1>1, <2>1, <2>2, NoneForeign
  <1>7. ASSUME NEW t \in Thread, ClearCookies(t) PROVE OwnSession' /\ OwnTmp' /\ OwnHandles'
    <2>1. jar' = [jar EXCEPT ![dir["entry"]] = Absent] /\ handle' = handle /\ tmp' = tmp
      BY <1>7 DEF ClearCookies
    <2> QED  BY <1>0, <1>1, <2>1, NoneForeign
  <1>8. CASE Restart
    BY <1>1, <1>8, NoneForeign DEF Restart
  <1>9. \/ UNCHANGED <<jar, tmp, handle>>
        \/ \E t \in Thread : \/ Begin(t) \/ Flush(t) \/ Rename(t) \/ ClearCookies(t)
                            \/ \E a \in Answer : Answered(t, a)
        \/ Restart
    BY DEF Next, Step, SetIdentityDir, Enqueue, CallNow, Execute, NotSent, NoHandle, Downloaded, Return,
           Ran, Complete, vars, jars
  <1> QED  BY <1>2, <1>4, <1>5, <1>6, <1>7, <1>8, <1>9, <1>10

\* A switch that waited and found no cookies takes nothing along.
LEMMA OwnSwitch ==
  ASSUME TypeOK, OwnInv, [Next]_vars, SwitchedClean, dir' # dir
  PROVE  OwnInv'
  <1>1. jar' = jar /\ tmp' = tmp
    BY DEF Next, Step, SetIdentityDir, Enqueue, CallNow, Execute, NotSent, NoHandle, Begin, Answered,
           Downloaded, Flush, Rename, ClearCookies, Return, Ran, Complete, Restart, vars, jars
  <1>2. 1..Len(queue') = {}
    BY DEF SwitchedClean
  <1>3. OwnWork'
    BY <1>2 DEF OwnWork, SwitchedClean
  <1>4. OwnHandles'
    BY NoneForeign DEF OwnHandles, SwitchedClean
  <1> QED  BY <1>1, <1>3, <1>4 DEF OwnInv, OwnSession, OwnTmp

(* OwnSession, which the code breaks, has no other cause than what a switch *)
(* takes along: were no call to outlive a switch and no handle to keep its  *)
(* cookies over one, no cookies.txt would ever hold a session of another    *)
(* account, whatever calls overlap, retries, failed saves and deaths come.  *)
THEOREM OwnSessionUnlessTakenAlong == Spec /\ [][SwitchedClean]_vars => []OwnSession
  <1>1. Init => OwnInv
    <2> SUFFICES ASSUME Init PROVE OwnInv
      OBVIOUS
    <2>1. OwnSession /\ OwnTmp /\ OwnHandles
      BY NoneForeign DEF Init, OwnSession, OwnTmp, OwnHandles, OwnCookie
    <2>2. OwnWork
      BY DEF Init, OwnWork, Resting
    <2> QED  BY <2>1, <2>2 DEF OwnInv
  <1>2. TypeOK /\ SaveInv /\ OwnInv /\ [Next]_vars /\ [SwitchedClean]_vars => OwnInv'
    <2> SUFFICES ASSUME TypeOK, SaveInv, OwnInv, [Next]_vars, [SwitchedClean]_vars PROVE OwnInv'
      OBVIOUS
    <2>1. CASE dir' = dir
      BY <2>1, OwnWorkNext, OwnCookiesNext DEF OwnInv
    <2>2. CASE dir' # dir
      BY <2>2, OwnSwitch DEF vars
    <2> QED  BY <2>1, <2>2
  <1>3. OwnInv => OwnSession
    BY DEF OwnInv
  <1> QED  BY <1>1, <1>2, <1>3, TypesHold, SavesHold, PTL DEF Spec
=============================================================================
