------------------------------ MODULE MybooksCore ------------------------------
(***************************************************************************)
(* libmybooks_core (mybooks_core/src/main/cpp): one engine for the account *)
(* that is active, with one database, one HTTP base address for two        *)
(* services, the files it downloads and the master key of saved passwords. *)
(*                                                                         *)
(* The JS thread switches accounts, sets addresses and seals passwords.    *)
(* Everything else is work on a thread of the pool, whose steps interleave *)
(* with all of that: no lock is held across two calls of SQLite.           *)
(* SQLite makes one statement atomic.                                      *)
(***************************************************************************)
EXTENDS Lists

CONSTANTS
  Root,        \* identity roots, one for each account
  Global,      \* the root at start, and the directory of the master key
  Worker,      \* threads of the pool
  Url,         \* server addresses
  Book,
  Format,      \* of each book
  Saved,       \* addresses of each root that earlier runs saved
  Candidates,  \* addresses that a download tries, 1 to 3 in the code
  MaxEvents,   \* bound of the model: calls, switches, failures, process deaths
  None

ASSUME ConstantsOK ==
  /\ Global \in Root
  /\ None \notin Root \cup Url \cup {"ok"} \cup [book : Book, at : Root]
  /\ Format \in [Book -> {"epub", "txt"}]
  /\ Saved \in [Root -> [{"talebook", "sonovel"} -> Url \cup {None}]]
  /\ Candidates \in 1..3
  /\ MaxEvents \in Nat

Service == {"talebook", "sonovel"}
Table == {"records", "history", "config"}
Content == {"absent", "partial", "cut", "mixed", "page", "doctype", "whole"}

\* An item of a table, with the root in which a record says its file lies.
Entry == [book : Book, at : Root]

VARIABLES
  db,        \* root of the open database, or None
  opening,   \* setIdentityDir closed the database and is to open that of this root
  home,      \* filesDir_ of CoreEngine
  base,      \* baseUrl_ of HttpClient, or None
  address,   \* secure_store of each root: talebook_url and sonovel_url
  blob,      \* json_blobs of each root
  file,      \* downloaded books of each root
  key,       \* the master key in each directory; 0: there is none
  password,  \* sealed for each account: directory and number of the key
  task,      \* work on each thread
  events     \* calls, switches, failures and process deaths so far

tables == <<address, blob>>
secrets == <<key, password>>
vars == <<db, opening, home, base, tables, file, secrets, task, events>>

\* entry: what the work is about; list: what it read; out: its result; alone:
\* as history, no other work, switch or address overlapped it; linked: its
\* transfer writes to the file at the path; clean: nobody truncated it since;
\* stuck: as history, the file of its record could not be removed.
Idle == [op |-> "none", pc |-> "idle", service |-> "talebook", table |-> "records",
         entry |-> None, list |-> <<>>, out |-> None, try |-> 1,
         alone |-> TRUE, linked |-> FALSE, clean |-> FALSE, stuck |-> FALSE]

Event == events < MaxEvents /\ events' = events + 1

Disturbed == [w \in Worker |-> [task[w] EXCEPT !.alone = FALSE]]

\* secureGet of an address: no database, no row and an empty value are one.
AddressOf(r, s) == IF r = None THEN None ELSE address[r][s]

\* blobGet: the default when there is no database.
Blob(r, t) == IF r = None THEN <<>> ELSE blob[r][t]

Names(b, list) == \E n \in DOMAIN list : list[n].book = b

-----------------------------------------------------------------------------
\* After CoreEngine::init and Database::open.
Init ==
  /\ db = Global /\ opening = None /\ home = Global /\ base = None
  /\ address = Saved
  /\ blob = [r \in Root |-> [t \in Table |-> <<>>]]
  /\ file = [r \in Root |-> [b \in Book |-> "absent"]]
  /\ key = [r \in Root |-> 0]
  /\ password = [r \in Root |-> [dir |-> Global, no |-> 0]]
  /\ task = [w \in Worker |-> Idle]
  /\ events = 0

\* setIdentityDir for the root that is open: switchTo returns at once.
SwitchToSame(r) ==
  /\ opening = None /\ db = r
  /\ Event
  /\ home' = r
  /\ base' = IF AddressOf(r, "talebook") = None THEN base ELSE AddressOf(r, "talebook")
  /\ task' = Disturbed
  /\ UNCHANGED <<db, opening, tables, file, secrets>>

\* Mutant: the database that is open stays open.
StaysOpen(r) ==
  /\ opening = None /\ db # r
  /\ Event
  /\ opening' = r
  /\ UNCHANGED <<db, home, base, tables, file, secrets, task>>

\* The first half of setIdentityDir: directories, then close().
CloseDb(r) ==
  /\ opening = None /\ db # r
  /\ Event
  /\ db' = None
  /\ opening' = r
  /\ task' = Disturbed
  /\ UNCHANGED <<home, base, tables, file, secrets>>

\* The second half: everything follows the new root, and the base address only
\* if that root has one.
OpenDb ==
  /\ opening # None
  /\ db' = opening
  /\ home' = opening
  /\ base' = IF AddressOf(opening, "talebook") = None THEN base
             ELSE AddressOf(opening, "talebook")
  /\ opening' = None
  /\ task' = Disturbed
  /\ UNCHANGED <<tables, file, secrets, events>>

\* sqlite3_open failed: nothing is open, the rest stays with the old root.
OpenFails ==
  /\ opening # None
  /\ Event
  /\ opening' = None
  /\ UNCHANGED <<db, home, base, tables, file, secrets, task>>

\* setBaseUrl of a service: a row of the database, and nothing else.
SetBaseUrl(s, u) ==
  /\ opening = None
  /\ Event
  /\ address' = IF db = None THEN address ELSE [address EXCEPT ![db][s] = u]
  /\ task' = Disturbed
  /\ UNCHANGED <<db, opening, home, base, blob, file, secrets>>

\* RunAsyncStringTask, when a thread takes the work.
Start(w, op, pc, s, t, e) ==
  /\ task[w].pc = "idle"
  /\ Event
  /\ LET new == [Idle EXCEPT !.op = op, !.pc = pc, !.service = s, !.table = t, !.entry = e,
                             !.alone = opening = None /\ \A v \in Worker : task[v].pc = "idle"]
     IN  task' = [Disturbed EXCEPT ![w] = new]
  /\ UNCHANGED <<db, opening, home, base, tables, file, secrets>>

\* The JS thread settles the promise.
Complete(w) ==
  /\ task[w].pc = "done"
  /\ task' = [task EXCEPT ![w] = Idle]
  /\ UNCHANGED <<db, opening, home, base, tables, file, secrets, events>>

Done(w, out) == task' = [task EXCEPT ![w].pc = "done", ![w].out = out]

-----------------------------------------------------------------------------
(* Requests.                                                                *)

\* Mutant: an address that is set already is kept.
KeepBase(s) == IF base # None THEN base ELSE AddressOf(db, s)

\* ensureTalebookBaseUrl and ensureSonovelBaseUrl, whose default is empty.
Ensured(s) == IF AddressOf(db, s) = None THEN base ELSE AddressOf(db, s)

Ensure(w) ==
  /\ task[w].pc = "ensure"
  /\ base' = Ensured(task[w].service)
  /\ task' = [task EXCEPT ![w].pc = "send"]
  /\ UNCHANGED <<db, opening, home, tables, file, secrets, events>>

\* A request goes to the base address of now; without one it is an error.
Send(w) ==
  /\ task[w].pc = "send"
  /\ Done(w, base)
  /\ UNCHANGED <<db, opening, home, base, tables, file, secrets, events>>

\* An upload of which no file is valid.
NothingToUpload(w) ==
  /\ task[w].pc = "send"
  /\ task[w].op = "upload"
  /\ Done(w, None)
  /\ UNCHANGED <<db, opening, home, base, tables, file, secrets, events>>

-----------------------------------------------------------------------------
(* Tables: each is read and written back as a whole, in two statements.     *)

\* Mutant: erase(it, end()), everything behind the first match goes.
CutAt(b, list) ==
  SelectSeq(list, LAMBDA e : \A n \in DOMAIN list :
                               list[n].book = b => \E m \in 1..(n - 1) : list[m] = e)

Without(b, list) == Only(list, {e \in Entry : e.book # b})

\* Mutant: the old record of the book stays.
PutAlways(e, list) == <<e>> \o list

\* addDownloadRecord and recordReadingHistory: the newest first.
Put(e, list) == <<e>> \o Without(e.book, list)

Read(w) ==
  /\ task[w].pc = "read"
  /\ task' = [task EXCEPT ![w].pc = "write", ![w].list = Blob(db, task[w].table)]
  /\ UNCHANGED <<db, opening, home, base, tables, file, secrets, events>>

\* What is written back.
Updated(op, t, e, list) ==
  CASE op = "save" -> <<e>>
    [] op = "delete" -> Without(e.book, list)
    [] op = "history" /\ t = "records" -> list
    [] OTHER -> Put(e, list)

\* updateDownloadProgress writes only when it found the book.
WritesBack(op, t, e, list) ==
  op = "history" /\ t = "records" => Names(e.book, list)

\* Without a database the save is dropped, and answered as done.  The reading
\* history then goes on to the progress of the download record.
Write(w) ==
  LET k == task[w]
      more == k.op = "history" /\ k.table = "history"
  IN  /\ k.pc = "write"
      /\ blob' = IF db # None /\ WritesBack(k.op, k.table, k.entry, k.list)
                 THEN [blob EXCEPT ![db][k.table] = Updated(k.op, k.table, k.entry, k.list)]
                 ELSE blob
      /\ IF more THEN task' = [task EXCEPT ![w].pc = "read", ![w].table = "records"]
                 ELSE Done(w, "ok")
      /\ UNCHANGED <<db, opening, home, base, address, file, secrets, events>>

\* Mutant: the path is looked up when the record is gone.
PathsAfter(b, list) == {}

\* file_path of the first record of the book.
Paths(b, list) == {list[n].at : n \in {n \in DOMAIN list :
                      list[n].book = b /\ \A m \in 1..(n - 1) : list[m].book # b}}

\* deleteDownloadRecord looks up the path of the file.
Find(w) ==
  /\ task[w].pc = "find"
  /\ task' = [task EXCEPT ![w].pc = "unlink", ![w].list = Blob(db, "records")]
  /\ UNCHANGED <<db, opening, home, base, tables, file, secrets, events>>

\* It then removes the file, and goes on to the record.
Unlink(w) ==
  LET b == task[w].entry.book
      gone == Paths(b, task[w].list)
      lost(v) == task[v].linked /\ task[v].entry.book = b /\ task[v].entry.at \in gone
  IN  /\ task[w].pc = "unlink"
      /\ file' = [r \in Root |-> IF r \in gone THEN [file[r] EXCEPT ![b] = "absent"] ELSE file[r]]
      /\ task' = [v \in Worker |-> IF v = w THEN [task[v] EXCEPT !.pc = "read"]
                                   ELSE [task[v] EXCEPT !.linked = @ /\ ~lost(v)]]
      /\ UNCHANGED <<db, opening, home, base, tables, secrets, events>>

\* std::remove failed, which nobody asks: the record goes all the same.
UnlinkFails(w) ==
  /\ task[w].pc = "unlink"
  /\ Event
  /\ task' = [task EXCEPT ![w].pc = "read", ![w].stuck = TRUE]
  /\ UNCHANGED <<db, opening, home, base, tables, file, secrets>>

-----------------------------------------------------------------------------
(* Downloads.                                                               *)

\* Mutant: the header of an epub is enough.
AcceptsHeader(format, c) == c \in {"partial", "cut", "mixed", "whole"}

\* validateDownloadedFile: an epub needs its central directory, which is at the
\* end; a text is anything but one kind of page.
Accepts(format, c) ==
  CASE format = "epub" -> c \in {"mixed", "whole"}
    [] format = "txt" -> c \notin {"absent", "doctype"}

\* downloadBookLocal takes home and the address; it sets the base address even
\* if there is none.
Prepare(w) ==
  /\ task[w].pc = "prepare"
  /\ base' = AddressOf(db, "talebook")
  /\ task' = [task EXCEPT ![w].pc = "check", ![w].entry.at = home]
  /\ UNCHANGED <<db, opening, home, tables, file, secrets, events>>

FileOf(w) == file[task[w].entry.at][task[w].entry.book]

SetFile(w, c) == file' = [file EXCEPT ![task[w].entry.at][task[w].entry.book] = c]

SamePath(v, w) == v # w /\ task[v].linked /\ task[v].entry = task[w].entry

\* The next candidate, or the end.
TryNext(w) ==
  IF task[w].try = Candidates THEN [task[w] EXCEPT !.pc = "done", !.linked = FALSE]
  ELSE [task[w] EXCEPT !.pc = "fetch", !.try = @ + 1, !.linked = FALSE]

\* A file that is there already is enough if it is valid.
Check(w) ==
  /\ task[w].pc = "check"
  /\ IF Accepts(Format[task[w].entry.book], FileOf(w)) THEN Done(w, "ok")
     ELSE task' = [task EXCEPT ![w].pc = "fetch"]
  /\ UNCHANGED <<db, opening, home, base, tables, file, secrets, events>>

\* No usable address, no handle, or the path cannot be opened.
FetchFails(w) ==
  /\ task[w].pc = "fetch"
  /\ \/ base = None /\ UNCHANGED events
     \/ base # None /\ Event
  /\ task' = [task EXCEPT ![w] = TryNext(w)]
  /\ UNCHANGED <<db, opening, home, base, tables, file, secrets>>

\* downloadToFile truncates the file and starts the transfer.
Fetch(w) ==
  /\ task[w].pc = "fetch"
  /\ base # None
  /\ SetFile(w, "partial")
  /\ task' = [v \in Worker |->
               IF v = w THEN [task[v] EXCEPT !.pc = "transfer", !.linked = TRUE, !.clean = TRUE]
               ELSE [task[v] EXCEPT !.clean = @ /\ ~SamePath(v, w)]]
  /\ UNCHANGED <<db, opening, home, base, tables, secrets, events>>

\* The transfer failed: the path is removed.
Lost(w) ==
  /\ task[w].pc = "transfer"
  /\ SetFile(w, "absent")
  /\ task' = [v \in Worker |-> IF v = w THEN TryNext(w)
                               ELSE [task[v] EXCEPT !.linked = @ /\ ~SamePath(v, w)]]
  /\ UNCHANGED <<db, opening, home, base, tables, secrets, events>>

\* The transfer ended: its body stays at the path, that of an HTTP error too.
Received(w, body, success) ==
  LET k == task[w]
  IN  /\ k.pc = "transfer"
      /\ body = "whole" => success
      /\ \/ k.linked /\ k.clean /\ SetFile(w, body)
         \/ k.linked /\ ~k.clean /\ SetFile(w, "mixed")
         \/ ~(k.linked /\ k.clean) /\ UNCHANGED file
      /\ task' = [task EXCEPT ![w] = IF success THEN [k EXCEPT !.pc = "validate", !.linked = FALSE]
                                     ELSE TryNext(w)]
      /\ UNCHANGED <<db, opening, home, base, tables, secrets, events>>

Validate(w) ==
  /\ task[w].pc = "validate"
  /\ IF Accepts(Format[task[w].entry.book], FileOf(w)) THEN Done(w, "ok")
     ELSE task' = [task EXCEPT ![w] = TryNext(w)]
  /\ UNCHANGED <<db, opening, home, base, tables, file, secrets, events>>

-----------------------------------------------------------------------------
(* Saved passwords: secureSeal and secureOpen, on the JS thread.            *)

\* Mutant: the key lies in the identity root.
KeyInRoot(r) == r

\* keyDir of SecureStoreAndroid.
KeyDir(r) == Global

\* LoadOrCreateKey: a key that is not there, is short or cannot be read is
\* replaced by a new one.
LoadOrCreateKey(d) ==
  \/ key[d] # 0 /\ UNCHANGED key
  \/ key' = [key EXCEPT ![d] = @ + 1]

\* SecureCrypto::seal.
Seal(r) ==
  /\ opening = None
  /\ Event
  /\ LoadOrCreateKey(KeyDir(home))
  /\ password' = [password EXCEPT ![r] = [dir |-> KeyDir(home), no |-> key'[KeyDir(home)]]]
  /\ UNCHANGED <<db, opening, home, base, tables, file, task>>

\* SecureCrypto::open loads the key, and may so replace it.
Open(r) ==
  /\ opening = None
  /\ password[r].no # 0
  /\ Event
  /\ LoadOrCreateKey(KeyDir(home))
  /\ UNCHANGED <<db, opening, home, base, tables, file, password, task>>

\* The process dies.  A temporary key file does no harm; a book that was being
\* written is cut off.
Restart ==
  /\ Event
  /\ db' = Global /\ opening' = None /\ home' = Global /\ base' = None
  /\ file' = [r \in Root |-> [b \in Book |-> IF file[r][b] = "partial" THEN "cut" ELSE file[r][b]]]
  /\ task' = [w \in Worker |-> Idle]
  /\ UNCHANGED <<tables, secrets>>

-----------------------------------------------------------------------------
\* What the JS thread asks of the pool.
Ask(w) ==
  \/ \E s \in Service : Start(w, "request", "ensure", s, "records", None)
  \/ Start(w, "upload", "ensure", "talebook", "records", None)
  \/ \E e \in Entry : \/ Start(w, "add", "read", "talebook", "records", e)
                      \/ /\ e.at = home
                         /\ \/ Start(w, "history", "read", "talebook", "history", e)
                            \/ Start(w, "delete", "find", "talebook", "records", e)
                            \/ Start(w, "save", "write", "talebook", "config", e)
                            \/ Start(w, "download", "prepare", "talebook", "records", e)

Work(w) ==
  \/ Ensure(w) \/ Send(w) \/ NothingToUpload(w)
  \/ Read(w) \/ Write(w) \/ Find(w) \/ Unlink(w) \/ UnlinkFails(w)
  \/ Prepare(w) \/ Check(w) \/ FetchFails(w) \/ Fetch(w) \/ Lost(w) \/ Validate(w)
  \/ \E body \in {"page", "doctype", "whole"}, success \in BOOLEAN : Received(w, body, success)
  \/ Complete(w)

Next ==
  \/ \E r \in Root : SwitchToSame(r) \/ CloseDb(r) \/ Seal(r) \/ Open(r)
  \/ OpenDb \/ OpenFails
  \/ \E s \in Service, u \in Url : SetBaseUrl(s, u)
  \/ \E w \in Worker : Ask(w) \/ Work(w)
  \/ Restart

Spec == Init /\ [][Next]_vars

-----------------------------------------------------------------------------
Task == [op : {"none", "request", "upload", "add", "history", "delete", "save", "download"},
         pc : {"idle", "ensure", "send", "read", "write", "find", "unlink", "prepare", "check",
               "fetch", "transfer", "validate", "done"},
         service : Service, table : Table, entry : Entry \cup {None}, list : Seq(Entry),
         out : Url \cup {None, "ok"}, try : 1..Candidates,
         alone : BOOLEAN, linked : BOOLEAN, clean : BOOLEAN, stuck : BOOLEAN]

\* What an entry is asked for, once a work has one.
HasEntry(k) == k.op \in {"add", "history", "delete", "save", "download"} <=> k.entry # None

TypeOK ==
  /\ db \in Root \cup {None}
  /\ opening \in Root \cup {None}
  /\ opening # None => db = None
  /\ home \in Root
  /\ base \in Url \cup {None}
  /\ address \in [Root -> [Service -> Url \cup {None}]]
  /\ blob \in [Root -> [Table -> Seq(Entry)]]
  /\ file \in [Root -> [Book -> Content]]
  /\ key \in [Root -> 0..MaxEvents]
  /\ password \in [Root -> [dir : Root, no : 0..MaxEvents]]
  /\ task \in [Worker -> Task]
  /\ \A w \in Worker : HasEntry(task[w])
  /\ events \in 0..MaxEvents

Distinct(list) == \A m, n \in DOMAIN list : list[m].book = list[n].book => m = n

(* A table names a book once, however the two halves of concurrent updates, *)
(* switches and deaths interleave (parseRecords, erase, insert, save).      *)
NoDuplicateRecords ==
  /\ \A r \in Root, t \in Table : Distinct(blob[r][t])
  /\ \A w \in Worker : Distinct(task[w].list)

(* A request that nothing overlapped goes to the address that the account   *)
(* has for its service, whichever service, account or download set the one  *)
(* base address of the library before.                                      *)
RequestOwnServer ==
  \A w \in Worker :
    LET k == task[w]
    IN  k.alone /\ k.pc = "done" /\ k.op = "request" /\ AddressOf(db, k.service) # None
        => k.out = AddressOf(db, k.service)

(* A deletion that nothing overlapped, and whose removal of the file did    *)
(* not fail, leaves neither the record nor the file, in the root where the  *)
(* record said it lay: in no state between its steps is the record gone and *)
(* the file still there, where nobody could delete it any more.  A removal  *)
(* that fails leaves just that, since nobody looks at its result.           *)
FileGoesFirst ==
  [][\A w \in Worker :
       /\ task[w].op = "delete" /\ task[w].alone /\ ~task[w].stuck
       /\ task[w].pc = "write" /\ blob' # blob
       => \A n \in DOMAIN blob[db]["records"] :
            LET e == blob[db]["records"][n]
            IN  e.book = task[w].entry.book => file[e.at][e.book] = "absent"]_vars

(* An update that nothing overlapped changes the record of no other book:   *)
(* what it writes back is what it read, but for its own book.               *)
OthersKept ==
  [][\A r \in Root, t \in {"records", "history"}, w \in Worker :
       task[w].alone /\ task[w].pc = "write" /\ task'[w].pc # "write" /\ task'[w].op # "none"
       => Without(task[w].entry.book, blob'[r][t]) = Without(task[w].entry.book, blob[r][t])]_vars

(* A download of an epub that reports success, and that nothing overlapped, *)
(* has no page and no part of a book at its path, whatever crashes, failed  *)
(* transfers, error pages and earlier downloads left there.  Bytes of two   *)
(* transfers that earlier downloads wrote there at once can pass for a book.*)
AcceptedIsWhole ==
  \A w \in Worker :
    LET k == task[w]
    IN  /\ k.alone /\ k.pc = "done" /\ k.op = "download" /\ k.out = "ok"
        /\ Format[k.entry.book] = "epub"
        => FileOf(w) \in {"whole", "mixed"}

(* A saved password can be read again, under whichever account and after    *)
(* any restart, unless the key file was found damaged since.                *)
SealedReadable ==
  \A r \in Root :
    password[r].no # 0 /\ (\A d \in Root : key[d] <= 1) =>
      password[r] = [dir |-> KeyDir(home), no |-> key[KeyDir(home)]]
=============================================================================
