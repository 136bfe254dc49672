------------------------------ MODULE HttpClient ------------------------------
(***************************************************************************)
(* The HTTP clients of libentry and libmybooks_core (cpp/http_client.cpp   *)
(* of both), with the calls of talebook_api.cpp above them and the         *)
(* asynchronous work of napi_init.cpp.                                     *)
(*                                                                         *)
(* The JS thread calls either synchronously, or queues work that a thread  *)
(* of the pool executes and whose promise the JS thread then settles.      *)
(* Each thread keeps one curl handle for each library, with its cookies.   *)
(* Cookies are kept in cookies.txt of the identity root, one file for both *)
(* libraries.  Steps of a request: the handle is prepared and reads that   *)
(* file, the answer comes, the cookies are flushed to a temporary file,    *)
(* that file is renamed.                                                   *)
(***************************************************************************)
EXTENDS Naturals, Sequences

CONSTANTS
  Lib,          \* the libraries, "entry" and "core"
  Worker,       \* threads of the pool
  Js,           \* the JS thread
  Root,         \* identity roots, one for each account
  Global,       \* the root at start
  Item,         \* bound of the model: asynchronous calls outstanding at once
  MaxLogins,    \* bound of the model: sessions the server gives to one account
  MaxEvents,    \* bound of the model: calls, switches, failures of files and handles, deaths
  None

ASSUME ConstantsOK ==
  /\ "entry" \in Lib /\ Lib \subseteq {"entry", "core"}
  /\ Js \notin Worker
  /\ Global \in Root
  /\ None \notin Root \cup Item \cup Worker \cup {Js}
  /\ MaxLogins \in Nat /\ MaxEvents \in Nat

Thread == Worker \cup {Js}

\* What the server calls a session; none is "none".
Session == [of : Root, no : 1..MaxLogins]
NoSession == [of |-> None, no |-> 0]
Cookie == Session \cup {NoSession}
Absent == [of |-> None, no |-> 1]  \* there is no cookies.txt

VARIABLES
  dir,        \* cookieDir_ of each library, as the identity root it lies in
  jar,        \* cookies.txt of each root
  tmp,        \* cookies.txt.tmp of each root
  save,       \* gCookieMutex of each library: who saves, and to which root
  persisted,  \* gPersistedCookieLines of each library
  written,    \* history: the root whose file those lines are still in
  handle,     \* cookies of the curl handles: received, and read from a file
  call,       \* what each thread does
  queue,      \* queued work
  finished,   \* calls that ran, for the JS thread to settle
  promises,   \* calls whose promise is not settled
  book,       \* the file at the one path that downloads of libentry go to
  logins,     \* sessions given to each account so far
  events      \* calls, switches, failures and process deaths so far

jars == <<jar, tmp, save, persisted, written>>
vars == <<dir, jars, handle, call, queue, finished, promises, book, logins, events>>

NoCookies == [live |-> NoSession, read |-> NoSession]

\* The mutex is free.  sole: as history, the other library has not touched the
\* temporary file since this one flushed to it.
NoSave == [by |-> None, root |-> Global, sole |-> FALSE]

\* item: of an asynchronous call; account: active when the call was made;
\* try: which request of the call; got: the last answer; linked: the file it
\* writes is the one at the path; clean: nobody truncated it since; alone: as
\* history, no request overlapped its own, no switch came and no save of it failed.
\* A download of libmybooks_core writes elsewhere and keeps every answer.
Resting == [pc |-> "idle", lib |-> "entry", op |-> "get", item |-> None, account |-> Global,
            try |-> 1, got |-> "lost", linked |-> FALSE, clean |-> FALSE, alone |-> FALSE]

\* What the JS thread asks of each library.  "get" stands for every request
\* that changes no session.
Op(lib) == IF lib = "core" THEN {"get", "download"} ELSE {"get", "signin", "signout", "download"}

\* libmybooks_core has no synchronous requests; signing out is synchronous.
AsyncOp(lib) == Op(lib) \ {"signout"}
SyncOp(lib) == IF lib = "core" THEN {} ELSE Op(lib)

\* Calls that ask a second address when the first answer is not a success:
\* of those without a session, getUserInfo and two more.
Retries(op) == CASE op \in {"signin", "signout"} -> {TRUE}
                 [] op = "get" -> BOOLEAN
                 [] OTHER -> {FALSE}

\* Mutant: the retry is a loop.
MayAlwaysRetry(try) == TRUE

\* A call asks a second address once.
MayRetry(try) == try = 1

WritesBook(c) == c.op = "download" /\ c.lib = "entry"

JsFree == call[Js].pc = "idle" /\ \A l \in Lib : dir[l] = dir["entry"]

Event == events < MaxEvents /\ events' = events + 1

-----------------------------------------------------------------------------
Init ==
  /\ dir = [l \in Lib |-> Global]
  /\ jar = [r \in Root |-> Absent]
  /\ tmp = [r \in Root |-> Absent]
  /\ save = [l \in Lib |-> NoSave]
  /\ persisted = [l \in Lib |-> NoSession]
  /\ written = [l \in Lib |-> None]
  /\ handle = [l \in Lib |-> [t \in Thread |-> NoCookies]]
  /\ call = [t \in Thread |-> Resting]
  /\ queue = <<>>
  /\ finished = <<>>
  /\ promises = {}
  /\ book = "absent"
  /\ logins = [r \in Root |-> 0]
  /\ events = 0

\* setIdentityDir of TalebookCore, and of CoreEngine after it.
SetIdentityDir(l, r) ==
  /\ call[Js].pc = "idle"
  /\ r # dir[l]
  /\ IF l = "entry" THEN JsFree /\ Event ELSE r = dir["entry"] /\ UNCHANGED events
  /\ dir' = [dir EXCEPT ![l] = r]
  /\ call' = [t \in Thread |-> [call[t] EXCEPT !.alone = FALSE]]
  /\ queue' = [n \in DOMAIN queue |-> [queue[n] EXCEPT !.alone = FALSE]]
  /\ UNCHANGED <<jars, handle, finished, promises, book, logins>>

\* A call is made for the account that is active.
NewCall(l, op, i) == [Resting EXCEPT !.pc = "start", !.lib = l, !.op = op, !.item = i,
                                     !.account = dir["entry"], !.alone = op = "signin"]

\* RunAsyncStringTask.
Enqueue(l, op) ==
  /\ JsFree
  /\ Event
  /\ promises # Item
  /\ LET i == CHOOSE i \in Item : i \notin promises
     IN  queue' = Append(queue, NewCall(l, op, i)) /\ promises' = promises \cup {i}
  /\ UNCHANGED <<dir, jars, handle, call, finished, book, logins>>

\* A synchronous call runs on the JS thread.
CallNow(l, op) ==
  /\ JsFree
  /\ Event
  /\ call' = [call EXCEPT ![Js] = NewCall(l, op, None)]
  /\ UNCHANGED <<dir, jars, handle, queue, finished, promises, book, logins>>

\* AsyncStringExecute: a thread of the pool takes the oldest work.
Execute(w) ==
  /\ call[w].pc = "idle"
  /\ queue # <<>>
  /\ call' = [call EXCEPT ![w] = Head(queue)]
  /\ queue' = Tail(queue)
  /\ UNCHANGED <<dir, jars, handle, finished, promises, book, logins, events>>

-----------------------------------------------------------------------------
(* One request.                                                             *)

\* No usable address, no directory or file, no handle: there is no request.
NotSent(t) ==
  /\ call[t].pc = "start"
  /\ call' = [call EXCEPT ![t] = [@ EXCEPT !.pc = "over", !.got = "lost"]]
  /\ UNCHANGED <<dir, jars, handle, queue, finished, promises, book, logins, events>>

\* The thread has no handle yet and gets none: a download has truncated its
\* file already, and leaves it.
NoHandle(t) ==
  /\ call[t].pc = "start"
  /\ WritesBook(call[t])
  /\ handle["entry"][t] = NoCookies
  /\ Event
  /\ book' = "cut"
  /\ call' = [u \in Thread |->
               IF u = t THEN [call[t] EXCEPT !.pc = "over", !.got = "lost"]
               ELSE [call[u] EXCEPT !.clean = @ /\ ~call[u].linked]]
  /\ UNCHANGED <<dir, jars, handle, queue, finished, promises, logins>>

\* Mutant: a file that is not there is taken for a session.
ReadAnyFile(h, c) == [h EXCEPT !.read = c]

\* curl reads the file when the transfer begins; what was received on this
\* handle is preferred to what a file says.
ReadFile(h, c) == IF c \in Session THEN [h EXCEPT !.read = c] ELSE h

SentCookie(h) == IF h.live # NoSession THEN h.live ELSE h.read

InRequest(t) == call[t].pc \in {"sent", "answered", "again"}

\* acquireEasyHandle keeps the cookies; a download truncates its file first.
Begin(t) ==
  LET l == call[t].lib
      writes == WritesBook(call[t])
  IN  /\ call[t].pc = "start"
      /\ handle' = [handle EXCEPT ![l][t] = ReadFile(@, jar[dir[l]])]
      /\ book' = IF writes THEN "partial" ELSE book
      /\ call' = [u \in Thread |->
                   IF u = t
                   THEN [call[t] EXCEPT !.pc = "sent", !.linked = writes, !.clean = writes,
                                        !.alone = @ /\ \A v \in Thread \ {t} : ~InRequest(v)]
                   ELSE [call[u] EXCEPT !.clean = @ /\ ~(writes /\ call[u].linked), !.alone = FALSE]]
      /\ UNCHANGED <<dir, jars, queue, finished, promises, logins, events>>

\* Failed transfer; HTTP error; success with a business error in its body;
\* a page, which the redirect of an expired session leads to; success.
Answer == {"lost", "refused", "rejected", "page", "ok"}

\* performCurlRequest, ok(), and applyApiBusinessError, which signIn alone
\* applies, after it decided about the second request.
Success(op, a) == a \in {"rejected", "page", "ok"}

\* Mutant: signIn without applyApiBusinessError.
AnyHttpSuccess(op, a) == Success(op, a)

Accepted(op, a) == Success(op, a) /\ (op = "signin" => a # "rejected")

\* Cookies of the answer: a session, or the end of it.
Received(h, op, account, a) ==
  IF a # "ok" THEN h
  ELSE CASE op = "signin" -> [h EXCEPT !.live = [of |-> account, no |-> logins[account] + 1]]
         [] op = "signout" -> NoCookies
         [] OTHER -> h

\* The answer of a request.
Answered(t, a) ==
  LET c == call[t]
      given == c.op = "signin" /\ a = "ok"
  IN  /\ c.pc = "sent"
      /\ ~WritesBook(c)
      /\ given => logins[c.account] < MaxLogins
      /\ logins' = IF given THEN [logins EXCEPT ![c.account] = @ + 1] ELSE logins
      /\ handle' = [handle EXCEPT ![c.lib][t] = Received(@, c.op, c.account, a)]
      /\ \E retry \in Retries(c.op) :
           call' = [call EXCEPT ![t] = [c EXCEPT
                      !.pc = IF retry /\ ~Success(c.op, a) /\ MayRetry(c.try) THEN "again" ELSE "answered",
                      !.got = IF c.op = "signin" THEN a ELSE @]]
      /\ UNCHANGED <<dir, jars, queue, finished, promises, book, events>>

\* Mutant: the content type is not looked at.
KeepsPages(a) == a \in {"ok", "rejected", "page"}

\* performCurlDownload: which answers leave their body at the path.
Keeps(a) == a \in {"ok", "rejected"}

\* What an answer writes; a file that fails to close loses its end, unseen.
Body(a, closed) == CASE a = "page" -> "page"
                     [] a = "rejected" -> "other"
                     [] OTHER -> IF closed THEN "whole" ELSE "cut"

\* What may be at the path once the transfer of c has written its body.
\* Transfers of the book write the same bytes at the same places; a body of
\* another kind spoils theirs, or is overwritten by them.
Left(c, body) ==
  CASE ~c.linked -> {book}
    [] c.linked /\ c.clean -> {IF book = "other" THEN book ELSE body}
    [] OTHER -> IF book = "partial" /\ body \in {"whole", "cut"} THEN {book} ELSE {book, body}

\* The end of a download: its file is kept, or the path is removed.
Downloaded(t, a) ==
  LET c == call[t]
  IN  /\ c.pc = "sent"
      /\ WritesBook(c)
      /\ \/ ~Keeps(a) /\ book' = "absent" /\ UNCHANGED events
         \/ Keeps(a) /\ book' \in Left(c, Body(a, TRUE)) /\ UNCHANGED events
         \/ Keeps(a) /\ book' \in Left(c, Body(a, FALSE)) /\ Event
      /\ call' = [u \in Thread |->
                   IF u = t THEN [c EXCEPT !.pc = "answered",
                                           !.linked = FALSE, !.clean = FALSE]
                   ELSE [call[u] EXCEPT !.linked = @ /\ Keeps(a)]]
      /\ UNCHANGED <<dir, jars, handle, queue, finished, promises, logins>>

-----------------------------------------------------------------------------
(* persistCookiesIfChanged: comparison, temporary file and rename, under    *)
(* the mutex of the library.  The other library has a mutex of its own and  *)
(* the same files.                                                          *)

\* The save of library l becomes s; it touched the temporary file of root r.
Overlapping(l, r, s) ==
  [k \in Lib |-> IF k = l THEN s ELSE [save[k] EXCEPT !.sole = @ /\ save[k].root # r]]

\* The second request, where one is to come.
Proceed(t, saved) ==
  LET c == call[t]
      again == c.pc = "again"
  IN  call' = [call EXCEPT ![t] = [c EXCEPT !.pc = IF again THEN "start" ELSE "over",
                                            !.try = IF again THEN 2 ELSE c.try,
                                            !.alone = c.alone /\ saved]]

\* Mutant: the lines are remembered before the rename is known to succeed.
RememberedAnyway(l, lines) == persisted' = [persisted EXCEPT ![l] = lines]

\* Flush or rename failed: nothing is remembered.
NotWritten(l, lines) == UNCHANGED persisted

\* The directory is that of now: it is passed by reference.
Flushed(t, l, r, lines) ==
  /\ tmp' = [tmp EXCEPT ![r] = lines]
  /\ save' = Overlapping(l, r, [by |-> t, root |-> r, sole |-> TRUE])

Flush(t) ==
  LET l == call[t].lib
      lines == SentCookie(handle[l][t])
  IN  /\ call[t].pc \in {"answered", "again"}
      /\ save[l].by = None
      /\ \/ /\ lines = persisted[l] /\ Proceed(t, TRUE)
            /\ UNCHANGED <<tmp, save, persisted, events>>
         \/ /\ lines # persisted[l] /\ Flushed(t, l, dir[l], lines)
            /\ UNCHANGED <<call, persisted, events>>
         \/ /\ lines # persisted[l] /\ NotWritten(l, lines) /\ Event /\ Proceed(t, FALSE)
            /\ UNCHANGED <<tmp, save>>
      /\ UNCHANGED <<dir, jar, written, handle, queue, finished, promises, book, logins>>

\* The file takes what the temporary one holds by now.
Written(l, r, lines) ==
  /\ jar' = [jar EXCEPT ![r] = tmp[r]]
  /\ persisted' = [persisted EXCEPT ![l] = lines]
  /\ written' = [k \in Lib |-> IF k = l THEN (IF save[l].sole THEN r ELSE None)
                                ELSE IF written[k] = r THEN None ELSE written[k]]

\* The rename fails where the other library has renamed or removed the file.
Rename(t) ==
  LET l == call[t].lib
      r == save[l].root
      lines == SentCookie(handle[l][t])
  IN  /\ save[l].by = t
      /\ tmp' = [tmp EXCEPT ![r] = Absent]
      /\ save' = Overlapping(l, r, NoSave)
      /\ \/ tmp[r] # Absent /\ Written(l, r, lines) /\ UNCHANGED events /\ Proceed(t, TRUE)
         \/ /\ IF tmp[r] = Absent THEN UNCHANGED events ELSE Event
            /\ NotWritten(l, lines) /\ UNCHANGED <<jar, written>> /\ Proceed(t, FALSE)
      /\ UNCHANGED <<dir, handle, queue, finished, promises, book, logins>>

\* clearCookies at the end of signOut: the file goes, the handles keep theirs.
ClearCookies(t) ==
  LET r == dir["entry"]
  IN  /\ call[t].pc = "over"
      /\ call[t].op = "signout"
      /\ jar' = [jar EXCEPT ![r] = Absent]
      /\ written' = [k \in Lib |-> IF written[k] = r THEN None ELSE written[k]]
      /\ call' = [u \in Thread |-> IF u = t THEN Resting ELSE [call[u] EXCEPT !.alone = FALSE]]
      /\ UNCHANGED <<dir, tmp, save, persisted, handle, queue, finished, promises, book, logins,
                     events>>

\* A synchronous call returns.
Return ==
  /\ call[Js].pc = "over"
  /\ call[Js].op # "signout"
  /\ call' = [call EXCEPT ![Js] = Resting]
  /\ UNCHANGED <<dir, jars, handle, queue, finished, promises, book, logins, events>>

\* The work has run.
Ran(w) ==
  /\ call[w].pc = "over"
  /\ finished' = Append(finished, call[w].item)
  /\ call' = [call EXCEPT ![w] = Resting]
  /\ UNCHANGED <<dir, jars, handle, queue, promises, book, logins, events>>

\* AsyncStringComplete, on the JS thread.
Complete ==
  /\ JsFree
  /\ finished # <<>>
  /\ finished' = Tail(finished)
  /\ promises' = promises \ {Head(finished)}
  /\ UNCHANGED <<dir, jars, handle, call, queue, book, logins, events>>

\* The process dies: files stay as they are, a book that was being written is
\* cut off, or holds some of another body.
Restart ==
  /\ Event
  /\ dir' = [l \in Lib |-> Global]
  /\ save' = [l \in Lib |-> NoSave]
  /\ persisted' = [l \in Lib |-> NoSession]
  /\ written' = [l \in Lib |-> None]
  /\ handle' = [l \in Lib |-> [t \in Thread |-> NoCookies]]
  /\ call' = [t \in Thread |-> Resting]
  /\ queue' = <<>>
  /\ finished' = <<>>
  /\ promises' = {}
  /\ book' \in {IF book = "partial" THEN "cut" ELSE book}
                \cup {b \in {"other"} : \E t \in Thread : call[t].pc = "sent" /\ call[t].linked}
  /\ UNCHANGED <<jar, tmp, logins>>

Step(t) ==
  \/ NotSent(t) \/ NoHandle(t)
  \/ Begin(t)
  \/ \E a \in Answer : Answered(t, a) \/ Downloaded(t, a)
  \/ Flush(t) \/ Rename(t)

\* downloadToFile of libmybooks_core sets no CURLOPT_TIMEOUT: its transfer may
\* never end.
Hangs(t) == call[t].pc = "sent" /\ call[t].op = "download" /\ call[t].lib = "core"

Next ==
  \/ \E l \in Lib : \/ \E r \in Root : SetIdentityDir(l, r)
                    \/ \E op \in AsyncOp(l) : Enqueue(l, op)
                    \/ \E op \in SyncOp(l) : CallNow(l, op)
  \/ \E t \in Thread : Step(t) \/ ClearCookies(t)
  \/ \E w \in Worker : Execute(w) \/ Ran(w)
  \/ Return
  \/ Complete
  \/ Restart

(* The event loop takes the completions in turn, between two calls of ETS;  *)
(* each transfer with a time limit (CURLOPT_TIMEOUT) ends, so does a save;  *)
(* a switch goes through both libraries; the pool works.                    *)
Fairness ==
  /\ \A t \in Thread : WF_vars(~Hangs(t) /\ Step(t)) /\ WF_vars(ClearCookies(t))
  /\ \A w \in Worker : WF_vars(Execute(w)) /\ WF_vars(Ran(w))
  /\ \A l \in Lib : WF_vars(SetIdentityDir(l, dir["entry"]))
  /\ WF_vars(Return)
  /\ SF_vars(Complete)

Spec == Init /\ [][Next]_vars /\ Fairness

-----------------------------------------------------------------------------
Call == [pc : {"idle", "start", "sent", "answered", "again", "over"}, lib : Lib,
         op : Op("entry"), item : Item \cup {None}, account : Root, try : {1, 2},
         got : Answer, linked : BOOLEAN, clean : BOOLEAN, alone : BOOLEAN]

TypeOK ==
  /\ dir \in [Lib -> Root]
  /\ jar \in [Root -> Cookie \cup {Absent}]
  /\ tmp \in [Root -> Cookie \cup {Absent}]
  /\ save \in [Lib -> [by : Thread \cup {None}, root : Root, sole : BOOLEAN]]
  /\ persisted \in [Lib -> Cookie]
  /\ written \in [Lib -> Root \cup {None}]
  /\ handle \in [Lib -> [Thread -> [live : Cookie, read : Cookie]]]
  /\ call \in [Thread -> Call]
  /\ queue \in Seq(Call)
  /\ finished \in Seq(Item)
  /\ promises \subseteq Item
  /\ book \in {"absent", "partial", "whole", "other", "page", "cut"}
  /\ logins \in [Root -> 0..MaxLogins]
  /\ events \in 0..MaxEvents

(* The lines a library remembers as saved are in the file it wrote them to, *)
(* until that file is removed or the other library writes it, and unless    *)
(* the other library touched the temporary file, which both share, between  *)
(* the flush and the rename: then the file may hold other lines than those  *)
(* remembered.  A save that failed is never remembered, which would make    *)
(* the next one be skipped.                                                 *)
LinesInFile == \A l \in Lib : written[l] # None => jar[written[l]] = persisted[l]

(* When no transfer writes to the path, the file there is whole or there is *)
(* none, however downloads overlap, truncate and remove each other's file,  *)
(* and never a page in place of the book.  The exceptions: a part is left   *)
(* by a process death, by a thread that gets no handle after it truncated   *)
(* the file, and by a file that fails to close ("cut"); the body of a       *)
(* success with a business error, alone or inside of the book ("other").    *)
NoHalfBook ==
  (\A t \in Thread : ~(call[t].pc = "sent" /\ WritesBook(call[t]))) =>
    book \in {"absent", "whole", "other", "cut"}

(* A sign-in that is reported as accepted will be found after a restart:    *)
(* unless its save failed, another request overlapped or the account was    *)
(* switched since, cookies.txt of the account holds the new session when    *)
(* the call ends, whatever cookies the thread's handle or the file held.    *)
(* A page that answers in place of the server is not such an acceptance.    *)
LoginSurvives ==
  \A t \in Thread :
    /\ call[t].pc = "over" /\ call[t].op = "signin" /\ call[t].alone
    /\ Accepted("signin", call[t].got) /\ call[t].got # "page"
    => jar[call[t].account] = [of |-> call[t].account, no |-> logins[call[t].account]]

(* The promise of every asynchronous call is settled, unless its own        *)
(* transfer is a download of libmybooks_core, which may hang: as long as    *)
(* such downloads do not occupy every thread of the pool for ever.          *)
EveryCallSettles ==
  (\E w \in Worker : []<>~Hangs(w)) =>
    \A i \in Item : i \in promises ~> \/ i \notin promises
                                      \/ \E w \in Worker : Hangs(w) /\ call[w].item = i

(* What the README says of the data of several accounts: the session cookie *)
(* is kept apart for each account.  No file of an account ever holds the    *)
(* session of another one.                                                  *)
OwnSession == \A r \in Root : jar[r].of \in {r, None}
=============================================================================
