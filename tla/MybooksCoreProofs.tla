--------------------------- MODULE MybooksCoreProofs ---------------------------
(***************************************************************************)
(* Proofs about MybooksCore, for any number of threads, accounts, books,   *)
(* addresses, failures and process deaths.                                 *)
(***************************************************************************)
EXTENDS MybooksCore, ListsProofs

Fields == {"op", "pc", "service", "table", "entry", "list", "out", "try",
           "alone", "linked", "clean", "stuck"}

Shape == DOMAIN task = Worker /\ \A w \in Worker : DOMAIN task[w] = Fields

(* Work that is alone has no other work and no switch beside it.            *)
Solo ==
  \A w \in Worker : task[w].alone /\ task[w].pc # "idle" =>
    opening = None /\ \A v \in Worker \ {w} : task[v].pc = "idle"

(* Where requests and downloads can be.                                     *)
Stages ==
  \A w \in Worker :
    /\ task[w].op = "request" => task[w].pc \in {"ensure", "send", "done"}
    /\ task[w].op = "download" =>
         task[w].pc \in {"prepare", "check", "fetch", "transfer", "validate", "done"}
    /\ task[w].op = "download" /\ task[w].pc # "done" => task[w].out = None

(* The base address is that of the service from the moment it was set.      *)
Addressed ==
  \A w \in Worker :
    LET k == task[w]
        a == AddressOf(db, k.service)
    IN  k.alone /\ k.op = "request" /\ a # None =>
          /\ k.pc = "send" => base = a
          /\ k.pc = "done" => k.out = a

(* There is one key directory, and its keys only grow.                      *)
Sealed ==
  /\ key \in [Root -> Nat]
  /\ password \in [Root -> [dir : {Global}, no : Nat]]
  /\ \A r \in Root : password[r].no <= key[Global]

CoreInv == Shape /\ Solo /\ Stages

(* Nothing is sealed at start.                                              *)
LEMMA SealedInit == Init => Sealed
  BY ConstantsOK DEF Init, Sealed

(* Every step keeps the sealed passwords under the one key.                 *)
LEMMA SealedNext == Sealed /\ [Next]_vars => Sealed'
  <1> SUFFICES ASSUME Sealed, [Next]_vars PROVE Sealed'
    OBVIOUS
  <1>1. ASSUME NEW d \in Root, LoadOrCreateKey(d)
        PROVE  key' \in [Root -> Nat] /\ \A r \in Root : key[r] <= key'[r]
    BY <1>1 DEF LoadOrCreateKey, Sealed
  <1>2. Global \in Root /\ \A r : KeyDir(r) = Global
    BY ConstantsOK DEF KeyDir
  <1>3. ASSUME NEW r \in Root, Seal(r) PROVE Sealed'
    <2>1. /\ LoadOrCreateKey(Global)
          /\ password' = [password EXCEPT ![r] = [dir |-> Global, no |-> key'[Global]]]
      BY <1>2, <1>3 DEF Seal
    <2>2. key' \in [Root -> Nat] /\ key[Global] <= key'[Global] /\ key[Global] \in Nat
      BY <1>1, <1>2, <2>1 DEF Sealed
    <2> DEFINE k == key'[Global]
    <2>3. k \in Nat /\ \A d \in Root : password[d].no <= k /\ password[d].no \in Nat
      BY <1>2, <2>2 DEF Sealed
    <2>4. password' = [password EXCEPT ![r] = [dir |-> Global, no |-> k]]
      BY <2>1
    <2> HIDE DEF k
    <2>5. password' \in [Root -> [dir : {Global}, no : Nat]]
      BY <2>3, <2>4 DEF Sealed
    <2>6. \A d \in Root : password'[d].no <= k
      BY <2>3, <2>4 DEF Sealed
    <2> QED  BY <2>2, <2>5, <2>6 DEF Sealed, k
  <1>4. ASSUME NEW r \in Root, Open(r) PROVE Sealed'
    <2>1. LoadOrCreateKey(Global) /\ password' = password
      BY <1>2, <1>4 DEF Open
    <2>2. key' \in [Root -> Nat] /\ key[Global] <= key'[Global] /\ key[Global] \in Nat
      BY <1>1, <1>2, <2>1 DEF Sealed
    <2> QED  BY <1>2, <2>1, <2>2 DEF Sealed
  <1>5. CASE UNCHANGED secrets
    BY <1>5 DEF secrets, Sealed
  <1>6. UNCHANGED secrets \/ \E r \in Root : Seal(r) \/ Open(r)
    BY DEF Next, Ask, Work, SwitchToSame, CloseDb, OpenDb, OpenFails, SetBaseUrl, Start, Ensure,
           Send, NothingToUpload, Read, Write, Find, Unlink, UnlinkFails, Prepare, Check,
           FetchFails, Fetch, Lost, Validate, Received, Complete, Restart, vars
  <1> QED  BY <1>3, <1>4, <1>5, <1>6

(* A password that was saved can be read under every account and after any  *)
(* restart, as long as no key file had to be replaced: keyDir, which is one *)
(* directory for all accounts, and LoadOrCreateKey.                         *)
THEOREM PasswordsReadable == Spec => []SealedReadable
  <1>1. Init => Sealed  BY SealedInit
  <1>2. Sealed /\ [Next]_vars => Sealed'  BY SealedNext
  <1>3. Sealed => SealedReadable
    <2> SUFFICES ASSUME Sealed, NEW r \in Root, password[r].no # 0, \A d \in Root : key[d] <= 1
                 PROVE  password[r] = [dir |-> Global, no |-> key[Global]]
      BY DEF SealedReadable, KeyDir
    <2>1. Global \in Root
      BY ConstantsOK
    <2>2. password[r] \in [dir : {Global}, no : Nat] /\ key[Global] \in Nat
      BY <2>1 DEF Sealed
    <2>3. password[r].no <= key[Global] /\ key[Global] <= 1
      BY <2>1 DEF Sealed
    <2>4. password[r].no = key[Global]
      BY <2>2, <2>3
    <2> QED  BY <2>2, <2>4
  <1> QED  BY <1>1, <1>2, <1>3, PTL DEF Spec

-----------------------------------------------------------------------------
\* What a step changes of the work of v, in the fields that are spoken of.
Kept(v) ==
  /\ task'[v].op = task[v].op /\ task'[v].pc = task[v].pc /\ task'[v].service = task[v].service
  /\ task'[v].entry = task[v].entry /\ task'[v].out = task[v].out

Steady(v) == Kept(v) /\ task'[v].alone = task[v].alone

\* A step of w in its work, with the name of that work.
Own(w) == task'[w].op = task[w].op /\ task'[w].service = task[w].service
          /\ task'[w].alone = task[w].alone

\* A step of the JS thread that overlaps all work.
Disturbs == task' = Disturbed

(* A step of the JS thread leaves the work but for "alone".                 *)
LEMMA DisturbedStep ==
  ASSUME Shape, Disturbs
  PROVE  Shape' /\ \A v \in Worker : Kept(v) /\ ~task'[v].alone
  BY DEF Shape, Disturbs, Disturbed, Kept, Fields

(* What the beginning of work changes.                                      *)
LEMMA StartStep ==
  ASSUME Shape, NEW w \in Worker, NEW op, NEW pc, NEW s, NEW t, NEW e, Start(w, op, pc, s, t, e)
  PROVE  /\ Shape'
         /\ \A v \in Worker \ {w} : Kept(v) /\ ~task'[v].alone
         /\ task'[w].op = op /\ task'[w].pc = pc /\ task'[w].out = None
         /\ task'[w].alone => opening = None /\ \A v \in Worker : task[v].pc = "idle"
         /\ UNCHANGED <<db, opening, base, address, file>>
  BY DEF Shape, Start, Disturbed, Idle, Kept, Fields, tables
(* What the steps of the work on a thread have in common.                   *)
Stepped(w) ==
  /\ Shape' /\ Own(w) /\ \A v \in Worker \ {w} : Steady(v)
  /\ UNCHANGED <<db, opening, address>>
  /\ task[w].pc \notin {"idle", "done"} /\ task'[w].pc # "idle"

(* The steps of a request.                                                  *)
LEMMA RequestStep ==
  ASSUME Shape, NEW w \in Worker, Ensure(w) \/ Send(w) \/ NothingToUpload(w)
  PROVE  /\ Stepped(w) /\ file' = file
         /\ \/ task[w].pc = "ensure" /\ task'[w].pc = "send" /\ base' = Ensured(task[w].service)
            \/ task[w].pc = "send" /\ task'[w].pc = "done" /\ task'[w].out = base /\ base' = base
            \/ task[w].op = "upload"
  BY DEF Shape, Ensure, Send, NothingToUpload, Done, Stepped, Own, Steady, Kept, Fields, tables

(* The steps of an update of a table.                                       *)
LEMMA TableStep ==
  ASSUME Shape, NEW w \in Worker, Read(w) \/ Write(w) \/ Find(w) \/ Unlink(w) \/ UnlinkFails(w)
  PROVE  Stepped(w) /\ task[w].pc \in {"read", "write", "find", "unlink"} /\ base' = base
  <1>1. CASE Read(w)
    BY <1>1 DEF Shape, Read, Stepped, Own, Steady, Kept, Fields, tables
  <1>2. CASE Write(w)
    BY <1>2 DEF Shape, Write, Done, Stepped, Own, Steady, Kept, Fields
  <1>4. CASE Find(w) \/ UnlinkFails(w)
    BY <1>4 DEF Shape, Find, UnlinkFails, Stepped, Own, Steady, Kept, Fields, tables
  <1>3. CASE Unlink(w)
    <2> DEFINE b == task[w].entry.book
               gone == Paths(b, task[w].list)
               lost(v) == task[v].linked /\ task[v].entry.book = b /\ task[v].entry.at \in gone
    <2>1. task' = [v \in Worker |-> IF v = w THEN [task[v] EXCEPT !.pc = "read"]
                                    ELSE [task[v] EXCEPT !.linked = @ /\ ~lost(v)]]
      BY <1>3 DEF Unlink
    <2> HIDE DEF lost
    <2>2. Shape' /\ Own(w) /\ task'[w].pc = "read" /\ \A v \in Worker \ {w} : Steady(v)
      BY <2>1 DEF Shape, Own, Steady, Kept, Fields
    <2> QED  BY <1>3, <2>2 DEF Unlink, Stepped, tables
  <1> QED  BY <1>1, <1>2, <1>3, <1>4

(* A download ends with "ok" only after its file was looked at.             *)
Accepting(w) ==
  /\ Accepts(Format[task[w].entry.book], FileOf(w))
  /\ file' = file /\ task'[w].entry = task[w].entry

(* The steps of a download.                                                 *)
LEMMA DownloadStep ==
  ASSUME Shape, NEW w \in Worker,
         \/ Prepare(w) \/ Check(w) \/ FetchFails(w) \/ Fetch(w) \/ Lost(w) \/ Validate(w)
         \/ \E body \in {"page", "doctype", "whole"}, success \in BOOLEAN :
              Received(w, body, success)
  PROVE  /\ Stepped(w)
         /\ task[w].pc \in {"prepare", "check", "fetch", "transfer", "validate"}
         /\ task'[w].pc \in {"check", "fetch", "transfer", "validate", "done"}
         /\ \/ task'[w].out = task[w].out
            \/ task'[w].pc = "done" /\ Accepting(w)
         /\ task[w].pc # "prepare" => base' = base
  <1> DEFINE Goal == /\ Stepped(w)
                     /\ task[w].pc \in {"prepare", "check", "fetch", "transfer", "validate"}
                     /\ task'[w].pc \in {"check", "fetch", "transfer", "validate", "done"}
                     /\ \/ task'[w].out = task[w].out
                        \/ task'[w].pc = "done" /\ Accepting(w)
                     /\ task[w].pc # "prepare" => base' = base
  <1>1. CASE Prepare(w)
    BY <1>1 DEF Shape, Prepare, Stepped, Own, Steady, Kept, Fields, tables
  <1>2. CASE Check(w)
    BY <1>2 DEF Shape, Check, Done, Stepped, Own, Steady, Kept, Fields, tables, Accepting
  <1>3. CASE Validate(w)
    <2>1. CASE task' = [task EXCEPT ![w] = TryNext(w)]
      BY <1>3, <2>1 DEF Shape, Validate, TryNext, Stepped, Own, Steady, Kept, Fields, tables
    <2>2. CASE Accepts(Format[task[w].entry.book], FileOf(w)) /\ Done(w, "ok")
      BY <1>3, <2>2 DEF Shape, Validate, Done, Stepped, Own, Steady, Kept, Fields, tables,
                        Accepting
    <2> QED  BY <1>3, <2>1, <2>2 DEF Validate
  <1>4. CASE FetchFails(w)
    BY <1>4 DEF Shape, FetchFails, TryNext, Stepped, Own, Steady, Kept, Fields, tables
  <1>5. CASE Fetch(w)
    <2>1. Own(w) /\ task'[w].pc = "transfer" /\ task'[w].out = task[w].out
      BY <1>5 DEF Shape, Fetch, Own, Fields
    <2>3. Shape'
      <3>1. DOMAIN task'[w] = Fields
        BY <1>5 DEF Shape, Fetch
      <3>2. ASSUME NEW v \in Worker \ {w} PROVE DOMAIN task'[v] = Fields
        BY <1>5, <3>2 DEF Shape, Fetch
      <3>3. DOMAIN task' = Worker
        BY <1>5 DEF Fetch
      <3> QED  BY <3>1, <3>2, <3>3 DEF Shape
    <2>2. ASSUME NEW v \in Worker \ {w} PROVE Steady(v)
      BY <1>5, <2>2 DEF Shape, Fetch, Steady, Kept, Fields
    <2> QED  BY <1>5, <2>1, <2>2, <2>3 DEF Fetch, Stepped, tables
  <1>6. CASE Lost(w)
    <2>1. /\ Shape' /\ Own(w) /\ task'[w].pc \in {"fetch", "done"}
          /\ task'[w].out = task[w].out
          /\ \A v \in Worker \ {w} : Steady(v)
      BY <1>6 DEF Shape, Lost, TryNext, Own, Steady, Kept, Fields
    <2> QED  BY <1>6, <2>1 DEF Lost, Stepped, tables
  <1>7. ASSUME NEW body, NEW success \in BOOLEAN, Received(w, body, success) PROVE Goal
    BY <1>7 DEF Shape, Received, TryNext, Stepped, Own, Steady, Kept, Fields, tables
  <1> QED  BY <1>1, <1>2, <1>3, <1>4, <1>5, <1>6, <1>7

(* The end of work.                                                         *)
LEMMA CompleteStep ==
  ASSUME Shape, NEW w \in Worker, Complete(w)
  PROVE  /\ Shape' /\ \A v \in Worker \ {w} : Steady(v)
         /\ task'[w] = Idle
         /\ UNCHANGED <<db, opening, base, address, file>>
  BY DEF Shape, Complete, Steady, Kept, Idle, Fields, tables

-----------------------------------------------------------------------------
Alone == CoreInv /\ Addressed /\ AcceptedIsWhole

(* There is no work at start.                                               *)
LEMMA AloneInit == Init => Alone
  BY DEF Init, Alone, CoreInv, Shape, Solo, Stages, Addressed, AcceptedIsWhole, Idle, Fields

(* The steps that overlap all work.                                         *)
LEMMA DisturbedKeeps == Alone /\ Disturbs => Alone'
  <1> SUFFICES ASSUME Alone, Disturbs PROVE Alone'
    OBVIOUS
  <1>1. Shape' /\ \A v \in Worker : Kept(v) /\ ~task'[v].alone
    BY DisturbedStep DEF Alone, CoreInv
  <1>2. Stages'
    BY <1>1 DEF Alone, CoreInv, Stages, Kept
  <1> QED  BY <1>1, <1>2 DEF Alone, CoreInv, Solo, Addressed, AcceptedIsWhole

(* A step in the work of w, when it is not the only one: nothing is said of *)
(* the others, because they are not alone or not at work.                   *)
LEMMA OthersKeep ==
  ASSUME Alone, NEW w \in Worker, Stepped(w), NEW v \in Worker \ {w}
  PROVE  task[v].alone => task[v].pc = "idle"
  BY DEF Alone, CoreInv, Solo, Stepped

(* It is enough to look at the work that makes the step.                    *)
LEMMA SteppedKeeps ==
  ASSUME Alone, NEW w \in Worker, Stepped(w),
         LET k == task'[w]
         IN  /\ k.op = "request" => k.pc \in {"ensure", "send", "done"}
             /\ k.op = "download" =>
                  k.pc \in {"prepare", "check", "fetch", "transfer", "validate", "done"}
             /\ k.op = "download" /\ k.pc # "done" => k.out = None
             /\ k.alone /\ k.op = "request" /\ AddressOf(db, k.service) # None =>
                  /\ k.pc = "send" => base' = AddressOf(db, k.service)
                  /\ k.pc = "done" => k.out = AddressOf(db, k.service)
             /\ k.alone /\ k.op = "download" /\ k.pc = "done" /\ k.out = "ok"
                /\ Format[k.entry.book] = "epub" => FileOf(w)' \in {"whole", "mixed"}
  PROVE  Alone'
  <1> DEFINE k == task'[w]
  <1>1. \A v \in Worker \ {w} : Steady(v) /\ (task[v].alone => task[v].pc = "idle")
    BY OthersKeep DEF Stepped
  <1>2. \A v \in Worker \ {w} : task'[v].alone => task'[v].pc = "idle"
    BY <1>1 DEF Steady, Kept
  <1>3. Shape' /\ Own(w) /\ UNCHANGED <<db, opening, address>>
        /\ task[w].pc # "idle" /\ k.pc # "idle"
    BY DEF Stepped
  <1>4. Solo'
    BY <1>1, <1>2, <1>3 DEF Alone, CoreInv, Solo, Own, Steady, Kept
  <1>5. Stages'
    BY <1>1 DEF Alone, CoreInv, Stages, Steady, Kept
  <1>6. Addressed'
    <2>1. \A r, s : AddressOf(r, s)' = AddressOf(r, s)
      BY <1>3 DEF AddressOf
    <2>2. ASSUME NEW v \in Worker
          PROVE  LET c == task'[v]
                     a == AddressOf(db, c.service)
                 IN  c.alone /\ c.op = "request" /\ a # None =>
                       /\ c.pc = "send" => base' = a
                       /\ c.pc = "done" => c.out = a
      BY <1>2, <2>2
    <2> QED  BY <1>3, <2>2 DEF Addressed, AddressOf
  <1>7. AcceptedIsWhole'
    BY <1>2 DEF AcceptedIsWhole
  <1> QED  BY <1>3, <1>4, <1>5, <1>6, <1>7 DEF Alone, CoreInv

(* Every step of work keeps what is said of work that is alone.             *)
LEMMA WorkKeeps ==
  ASSUME Alone, NEW w \in Worker, Work(w), ~Complete(w)
  PROVE  Alone'
  <1>0. Shape /\ Stages
    BY DEF Alone, CoreInv
  <1> DEFINE k == task[w]
             m == task'[w]
  <1>1. CASE Ensure(w) \/ Send(w) \/ NothingToUpload(w)
    <2>1. Stepped(w) /\ Own(w) /\ db' = db
      BY <1>0, <1>1, RequestStep DEF Stepped
    <2>2. k.op # "download" /\ (k.op = "request" => k.pc \in {"ensure", "send", "done"})
      BY <1>0, <1>1 DEF Stages, Ensure, Send, NothingToUpload
    <2>3. m.op # "download" /\ (m.op = "request" => m.pc \in {"send", "done"})
      BY <1>0, <1>1, <2>1, <2>2, RequestStep DEF Own
    <2>4. ASSUME m.alone, m.op = "request", AddressOf(db, m.service) # None
          PROVE  /\ m.pc = "send" => base' = AddressOf(db, m.service)
                 /\ m.pc = "done" => m.out = AddressOf(db, m.service)
      <3>1. k.alone /\ k.op = "request" /\ k.service = m.service
        BY <2>1, <2>4 DEF Own
      <3>2. CASE k.pc = "ensure"
        BY <1>0, <1>1, <2>4, <3>1, <3>2, RequestStep DEF Ensured
      <3>3. CASE k.pc = "send"
        <4>1. base = AddressOf(db, m.service)
          BY <2>4, <3>1, <3>3 DEF Alone, Addressed
        <4> QED  BY <1>0, <1>1, <3>1, <3>3, <4>1, RequestStep
      <3> QED  BY <1>0, <1>1, <3>1, <3>2, <3>3, RequestStep
    <2> QED  BY <2>1, <2>3, <2>4, SteppedKeeps
  <1>2. CASE Read(w) \/ Write(w) \/ Find(w) \/ Unlink(w) \/ UnlinkFails(w)
    <2>1. Stepped(w) /\ k.pc \in {"read", "write", "find", "unlink"} /\ m.op = k.op
      BY <1>0, <1>2, TableStep DEF Stepped, Own
    <2>2. m.op # "request" /\ m.op # "download"
      BY <1>0, <2>1 DEF Stages
    <2> QED  BY <2>1, <2>2, SteppedKeeps
  <1>3. CASE \/ Prepare(w) \/ Check(w) \/ FetchFails(w) \/ Fetch(w) \/ Lost(w) \/ Validate(w)
             \/ \E body \in {"page", "doctype", "whole"}, success \in BOOLEAN :
                  Received(w, body, success)
    <2>1. /\ Stepped(w) /\ m.op = k.op
          /\ k.pc \in {"prepare", "check", "fetch", "transfer", "validate"}
          /\ m.pc \in {"check", "fetch", "transfer", "validate", "done"}
          /\ \/ m.out = k.out
             \/ m.pc = "done" /\ Accepting(w)
      BY <1>0, <1>3, DownloadStep DEF Stepped, Own
    <2>2. m.op # "request"
      BY <1>0, <2>1 DEF Stages
    <2>3. m.op = "download" /\ m.pc # "done" => m.out = None
      BY <1>0, <2>1 DEF Stages
    <2>4. ASSUME m.op = "download", m.pc = "done", m.out = "ok", Format[m.entry.book] = "epub"
          PROVE  FileOf(w)' \in {"whole", "mixed"}
      <3>1. k.out = None
        BY <1>0, <2>1, <2>4 DEF Stages
      <3>2. Accepting(w)
        BY <2>1, <2>4, <3>1, ConstantsOK
      <3>3. FileOf(w)' = FileOf(w) /\ Accepts("epub", FileOf(w))
        BY <2>4, <3>2 DEF Accepting, FileOf
      <3> QED  BY <3>3 DEF Accepts
    <2> QED  BY <2>1, <2>2, <2>3, <2>4, SteppedKeeps
  <1> QED  BY <1>1, <1>2, <1>3 DEF Work

(* Every step does.                                                         *)
LEMMA AloneNext == Alone /\ [Next]_vars => Alone'
  <1> SUFFICES ASSUME Alone, [Next]_vars PROVE Alone'
    OBVIOUS
  <1>0. Shape
    BY DEF Alone, CoreInv
  <1>1. CASE Disturbs
    BY <1>1, DisturbedKeeps
  <1>2. ASSUME task' = task, UNCHANGED <<db, base, address, file>>,
               opening' = opening \/ opening # None
        PROVE  Alone'
    BY <1>2 DEF Alone, CoreInv, Shape, Solo, Stages, Addressed, AcceptedIsWhole, AddressOf, FileOf
  <1>3. ASSUME NEW w \in Worker, NEW op, NEW pc, NEW s, NEW t, NEW e,
               Start(w, op, pc, s, t, e),
               \/ op = "request" /\ pc = "ensure"
               \/ op = "download" /\ pc = "prepare"
               \/ op \notin {"request", "download"} /\ pc # "done"
        PROVE  Alone'
    <2>1. /\ Shape'
          /\ \A v \in Worker \ {w} : Kept(v) /\ ~task'[v].alone
          /\ task'[w].op = op /\ task'[w].pc = pc /\ task'[w].out = None
          /\ task'[w].alone => opening = None /\ \A v \in Worker : task[v].pc = "idle"
          /\ UNCHANGED <<db, opening, base, address, file>>
      BY <1>0, <1>3, StartStep
    <2>2. Solo'
      BY <2>1 DEF Solo, Kept
    <2>3. Stages'
      BY <1>3, <2>1 DEF Alone, CoreInv, Stages, Kept
    <2>4. Addressed'
      BY <1>3, <2>1 DEF Addressed
    <2>5. AcceptedIsWhole'
      BY <1>3, <2>1 DEF AcceptedIsWhole
    <2> QED  BY <2>1, <2>2, <2>3, <2>4, <2>5 DEF Alone, CoreInv
  <1>4. ASSUME NEW w \in Worker, Ask(w) PROVE Alone'
    BY <1>3, <1>4 DEF Ask
  <1>5. ASSUME NEW w \in Worker, Complete(w) PROVE Alone'
    <2>1. /\ Shape' /\ \A v \in Worker \ {w} : Steady(v)
          /\ task'[w].pc = "idle" /\ task'[w].op = "none"
          /\ UNCHANGED <<db, opening, base, address, file>>
      BY <1>0, <1>5, CompleteStep DEF Idle
    <2>2. Solo'
      BY <2>1 DEF Alone, CoreInv, Solo, Steady, Kept
    <2>3. Stages'
      BY <2>1 DEF Alone, CoreInv, Stages, Steady, Kept
    <2>4. Addressed'
      BY <2>1 DEF Alone, Addressed, AddressOf, Steady, Kept
    <2>5. AcceptedIsWhole'
      BY <2>1 DEF Alone, AcceptedIsWhole, FileOf, Steady, Kept
    <2> QED  BY <2>1, <2>2, <2>3, <2>4, <2>5 DEF Alone, CoreInv
  <1>6. ASSUME NEW w \in Worker, Work(w), ~Complete(w) PROVE Alone'
    BY <1>6, WorkKeeps
  <1>7. CASE Restart
    BY <1>7 DEF Restart, Idle, Fields, Alone, CoreInv, Shape, Solo, Stages, Addressed,
               AcceptedIsWhole
  <1>8. \/ Disturbs
        \/ /\ task' = task /\ UNCHANGED <<db, base, address, file>>
           /\ opening' = opening \/ opening # None
        \/ \E w \in Worker : Ask(w) \/ Work(w)
        \/ Restart
    BY DEF Next, SwitchToSame, CloseDb, OpenDb, OpenFails, SetBaseUrl, Seal, Open, Disturbs,
           tables, vars
  <1> QED  BY <1>1, <1>2, <1>4, <1>5, <1>6, <1>7, <1>8

(* Work that nothing overlaps stays with the address its service has:       *)
(* ensureTalebookBaseUrl, ensureSonovelBaseUrl and setIdentityDir, which    *)
(* share one base address.                                                  *)
THEOREM OwnServerAsked == Spec => []RequestOwnServer
  <1>1. Alone => RequestOwnServer
    BY DEF Alone, Addressed, RequestOwnServer
  <1> QED  BY AloneInit, AloneNext, <1>1, PTL DEF Spec

(* An epub that a download which nothing overlapped reports as there is no  *)
(* page and no part of a book: downloadBookLocal, downloadToFile and        *)
(* validateDownloadedFile, after any crashes and failed transfers.          *)
THEOREM AcceptedBooksWhole == Spec => []AcceptedIsWhole
  <1>1. Alone => AcceptedIsWhole
    BY DEF Alone
  <1> QED  BY AloneInit, AloneNext, <1>1, PTL DEF Spec

-----------------------------------------------------------------------------
(* Types.                                                                   *)

(* Which work can be where, and on which table.                             *)
Placed(k) ==
  /\ k.pc \in {"ensure", "send"} => k.op \in {"request", "upload"}
  /\ k.pc \in {"find", "unlink"} => k.op = "delete"
  /\ k.pc = "read" => k.op \in {"add", "history", "delete"}
  /\ k.pc = "write" => k.op \in {"add", "history", "delete", "save"}
  /\ k.pc \in {"prepare", "check", "fetch", "transfer", "validate"} => k.op = "download"
  /\ k.op \in {"add", "delete"} => k.table = "records"
  /\ k.op = "save" => k.table = "config"
  /\ k.op = "history" => k.table \in {"history", "records"}

Works == {k \in Task : HasEntry(k) /\ Placed(k)}

TaskTyped == task \in [Worker -> Works]

PlaceTyped ==
  /\ db \in Root \cup {None}
  /\ opening \in Root \cup {None}
  /\ opening # None => db = None
  /\ home \in Root
  /\ base \in Url \cup {None}
  /\ address \in [Root -> [Service -> Url \cup {None}]]

DataTyped ==
  /\ blob \in [Root -> [Table -> Seq(Entry)]]
  /\ file \in [Root -> [Book -> Content]]

(* Each new key is an event.                                                *)
KeyTyped ==
  /\ events \in 0..MaxEvents
  /\ key \in [Root -> Nat] /\ \A d \in Root : key[d] <= events
  /\ password \in [Root -> [dir : Root, no : Nat]]
  /\ \A r \in Root : password[r].no <= events

CoreTyped == TaskTyped /\ PlaceTyped /\ DataTyped /\ KeyTyped

(* None is neither a root nor an entry.                                     *)
LEMMA NoneIsNone == None \notin Root /\ None \notin Entry /\ None \notin Url
  BY ConstantsOK DEF Entry

(* The addresses of a root, or of none.                                     *)
LEMMA AddressType ==
  ASSUME PlaceTyped, NEW r \in Root \cup {None}, NEW s \in Service
  PROVE  AddressOf(r, s) \in Url \cup {None}
  BY DEF PlaceTyped, AddressOf

(* What a table holds, with a database or without.                          *)
LEMMA BlobType ==
  ASSUME DataTyped, NEW r \in Root \cup {None}, NEW t \in Table
  PROVE  Blob(r, t) \in Seq(Entry)
  BY DEF DataTyped, Blob

(* Two of the marks of work may change at any time.                         *)
LEMMA MarksType ==
  ASSUME NEW k \in Works, NEW x \in BOOLEAN
  PROVE  /\ [k EXCEPT !.alone = x] \in Works
         /\ [k EXCEPT !.linked = x] \in Works
         /\ [k EXCEPT !.clean = x] \in Works
  BY DEF Works, Task, HasEntry, Placed

(* Work goes on, with what it is about and its table as they were.          *)
LEMMA StageType ==
  ASSUME NEW k \in Works, NEW m \in Task, m.op = k.op, m.entry = k.entry, m.table = k.table,
         \/ m.pc = "done"
         \/ k.pc = "ensure" /\ m.pc = "send"
         \/ k.pc = "find" /\ m.pc = "unlink"
         \/ k.pc = "unlink" /\ m.pc = "read"
         \/ k.pc = "read" /\ m.pc = "write"
         \/ /\ k.pc \in {"prepare", "check", "fetch", "transfer", "validate"}
            /\ m.pc \in {"check", "fetch", "transfer", "validate"}
  PROVE  m \in Works
  BY DEF Works, HasEntry, Placed

(* The work of one thread changes.                                          *)
LEMMA OneChanges ==
  ASSUME TaskTyped, NEW w \in Worker, NEW m \in Works, task' = [task EXCEPT ![w] = m]
  PROVE  TaskTyped'
  BY DEF TaskTyped

(* No work.                                                                 *)
LEMMA IdleType == Idle \in Works
  <1>1. 1 \in 1..Candidates
    BY ConstantsOK
  <1>2. Idle \in Task
    BY <1>1 DEF Idle, Task, Service, Table
  <1> QED  BY <1>2 DEF Works, HasEntry, Placed, Idle

(* A step of the JS thread overlaps all work.                               *)
LEMMA DisturbedType ==
  ASSUME TaskTyped
  PROVE  Disturbed \in [Worker -> Works]
  BY MarksType DEF TaskTyped, Disturbed

(* The beginning of work.                                                   *)
LEMMA StartType ==
  ASSUME CoreTyped, NEW w \in Worker, Ask(w)
  PROVE  TaskTyped'
  <1>1. ASSUME NEW op, NEW pc, NEW s \in Service, NEW t \in Table, NEW e \in Entry \cup {None},
               Start(w, op, pc, s, t, e),
               \/ op \in {"request", "upload"} /\ pc = "ensure" /\ e = None
               \/ op = "add" /\ pc = "read" /\ t = "records" /\ e \in Entry
               \/ op = "history" /\ pc = "read" /\ t = "history" /\ e \in Entry
               \/ op = "delete" /\ pc = "find" /\ t = "records" /\ e \in Entry
               \/ op = "save" /\ pc = "write" /\ t = "config" /\ e \in Entry
               \/ op = "download" /\ pc = "prepare" /\ e \in Entry
        PROVE  TaskTyped'
    <2> DEFINE free == opening = None /\ \A v \in Worker : task[v].pc = "idle"
               new == [Idle EXCEPT !.op = op, !.pc = pc, !.service = s, !.table = t, !.entry = e,
                                   !.alone = free]
    <2>1. task' = [Disturbed EXCEPT ![w] = new]
      BY <1>1 DEF Start
    <2>2. free \in BOOLEAN
      OBVIOUS
    <2> HIDE DEF free
    <2>3. new \in Task
      BY <1>1, <2>2, IdleType DEF Works, Task, Idle
    <2>4. HasEntry(new) /\ Placed(new)
      BY <1>1, NoneIsNone DEF HasEntry, Placed, Idle
    <2>5. new \in Works /\ Disturbed \in [Worker -> Works]
      BY <2>3, <2>4, DisturbedType DEF Works, CoreTyped
    <2> HIDE DEF new
    <2> QED  BY <2>1, <2>5 DEF TaskTyped
  <1>2. /\ {"talebook", "sonovel"} = Service
        /\ {"records", "history", "config"} = Table
    BY DEF Service, Table
  <1> QED  BY <1>1, <1>2 DEF Ask

(* The steps of a request.                                                  *)
LEMMA RequestType ==
  ASSUME CoreTyped, NEW w \in Worker, Ensure(w) \/ Send(w) \/ NothingToUpload(w)
  PROVE  CoreTyped'
  <1> DEFINE k == task[w]
  <1>1. k \in Works /\ k \in Task /\ k.service \in Service /\ base \in Url \cup {None}
    BY DEF CoreTyped, TaskTyped, PlaceTyped, Works, Task
  <1>2. CASE Ensure(w)
    <2> DEFINE m == [k EXCEPT !.pc = "send"]
    <2>1. task' = [task EXCEPT ![w] = m] /\ k.pc = "ensure"
      BY <1>2 DEF Ensure
    <2>2. m \in Task /\ m.op = k.op /\ m.entry = k.entry /\ m.table = k.table /\ m.pc = "send"
      BY <1>1 DEF Task
    <2> HIDE DEF m
    <2>3. TaskTyped'
      BY <1>1, <2>1, <2>2, StageType, OneChanges DEF CoreTyped
    <2>4. base' \in Url \cup {None}
      BY <1>1, <1>2, AddressType DEF Ensure, Ensured, CoreTyped, PlaceTyped
    <2> QED
      BY <1>2, <2>3, <2>4 DEF Ensure, CoreTyped, PlaceTyped, DataTyped, KeyTyped, tables, secrets
  <1>3. CASE Send(w) \/ NothingToUpload(w)
    <2>1. PICK out \in Url \cup {None} : Done(w, out)
      BY <1>1, <1>3 DEF Send, NothingToUpload
    <2> DEFINE m == [k EXCEPT !.pc = "done", !.out = out]
    <2>2. task' = [task EXCEPT ![w] = m]
      BY <2>1 DEF Done
    <2>3. m \in Task /\ m.op = k.op /\ m.entry = k.entry /\ m.table = k.table /\ m.pc = "done"
      BY <1>1 DEF Task
    <2> HIDE DEF m
    <2>4. TaskTyped'
      BY <1>1, <2>2, <2>3, StageType, OneChanges DEF CoreTyped
    <2> QED
      BY <1>3, <2>4 DEF Send, NothingToUpload, CoreTyped, PlaceTyped, DataTyped, KeyTyped,
                        tables, secrets
  <1> QED  BY <1>2, <1>3

(* What an update writes back.                                              *)
LEMMA WithoutType ==
  ASSUME NEW b, NEW l \in Seq(Entry)
  PROVE  /\ Without(b, l) \in Seq(Entry)
         /\ Elems(Without(b, l)) = {x \in Elems(l) : x.book # b}
  <1> DEFINE S == {x \in Entry : x.book # b}
  <1>1. Without(b, l) = Only(l, S)
    BY DEF Without
  <1>2. Elems(l) \subseteq Entry
    BY LenProperties DEF Elems
  <1>3. Only(l, S) \in Seq(Entry) /\ Elems(Only(l, S)) = Elems(l) \cap S
    BY OnlyOrder
  <1> QED  BY <1>1, <1>2, <1>3

(* A new entry in front of the others.                                      *)
LEMMA PutType ==
  ASSUME NEW e \in Entry, NEW l \in Seq(Entry)
  PROVE  Put(e, l) \in Seq(Entry) /\ <<e>> \in Seq(Entry)
  <1>1. <<e>> \in Seq(Entry) /\ Without(e.book, l) \in Seq(Entry)
    BY WithoutType
  <1> QED  BY <1>1, ConcatProperties DEF Put

(* What is written back is a table.                                         *)
LEMMA UpdatedType ==
  ASSUME NEW op, NEW t, NEW e \in Entry, NEW l \in Seq(Entry)
  PROVE  Updated(op, t, e, l) \in Seq(Entry)
  BY WithoutType, PutType DEF Updated

(* The steps of an update of a table.                                       *)
LEMMA TableType ==
  ASSUME CoreTyped, NEW w \in Worker, Read(w) \/ Write(w) \/ Find(w) \/ Unlink(w) \/ UnlinkFails(w)
  PROVE  CoreTyped'
  <1> DEFINE k == task[w]
  <1>1. k \in Works /\ k \in Task /\ k.table \in Table /\ k.list \in Seq(Entry)
    BY DEF CoreTyped, TaskTyped, Works, Task
  <1>2. CASE Read(w)
    <2> DEFINE l == Blob(db, k.table)
               m == [k EXCEPT !.pc = "write", !.list = l]
    <2>1. task' = [task EXCEPT ![w] = m] /\ k.pc = "read"
      BY <1>2 DEF Read
    <2>2. l \in Seq(Entry)
      BY <1>1, BlobType DEF CoreTyped, PlaceTyped
    <2> HIDE DEF l
    <2>3. m \in Task /\ m.op = k.op /\ m.entry = k.entry /\ m.table = k.table /\ m.pc = "write"
      BY <1>1, <2>2 DEF Task
    <2> HIDE DEF m
    <2>4. TaskTyped'
      BY <1>1, <2>1, <2>3, StageType, OneChanges DEF CoreTyped
    <2> QED
      BY <1>2, <2>4 DEF Read, CoreTyped, PlaceTyped, DataTyped, KeyTyped, tables, secrets
  <1>3. CASE Write(w)
    <2> DEFINE u == Updated(k.op, k.table, k.entry, k.list)
    <2>1. k.pc = "write" /\ k.entry \in Entry
      BY <1>1, <1>3, NoneIsNone DEF Write, Works, Placed, HasEntry, Task
    <2>2. u \in Seq(Entry)
      BY <1>1, <2>1, UpdatedType
    <2> HIDE DEF u
    <2>3. blob' = blob \/ (db # None /\ blob' = [blob EXCEPT ![db][k.table] = u])
      BY <1>3 DEF Write, u
    <2>4. blob' \in [Root -> [Table -> Seq(Entry)]]
      <3> DEFINE Rows == Seq(Entry)
      <3>1. blob \in [Root -> [Table -> Rows]] /\ u \in Rows /\ k.table \in Table
        BY <1>1, <2>2 DEF CoreTyped, DataTyped
      <3>2. db # None => db \in Root
        BY DEF CoreTyped, PlaceTyped
      <3> HIDE DEF Rows
      <3>3. ASSUME blob' = blob PROVE blob' \in [Root -> [Table -> Rows]]
        BY <3>1, <3>3
      <3>4. ASSUME db # None, blob' = [blob EXCEPT ![db][k.table] = u]
            PROVE  blob' \in [Root -> [Table -> Rows]]
        BY <3>1, <3>2, <3>4
      <3>5. blob' \in [Root -> [Table -> Rows]]
        BY <2>3, <3>3, <3>4
      <3> QED  BY <3>5 DEF Rows
    <2>5. CASE k.op = "history" /\ k.table = "history"
      <3> DEFINE m == [k EXCEPT !.pc = "read", !.table = "records"]
      <3>1. task' = [task EXCEPT ![w] = m]
        BY <1>3, <2>5 DEF Write
      <3>2. m \in Works
        BY <1>1, <2>5 DEF Works, Task, Table, HasEntry, Placed
      <3> HIDE DEF m
      <3>3. TaskTyped'
        BY <3>1, <3>2, OneChanges DEF CoreTyped
      <3> QED
        BY <1>3, <2>4, <3>3 DEF Write, CoreTyped, PlaceTyped, DataTyped, KeyTyped, secrets
    <2>6. CASE ~(k.op = "history" /\ k.table = "history")
      <3> DEFINE m == [k EXCEPT !.pc = "done", !.out = "ok"]
      <3>1. task' = [task EXCEPT ![w] = m]
        BY <1>3, <2>6 DEF Write, Done
      <3>2. m \in Task /\ m.op = k.op /\ m.entry = k.entry /\ m.table = k.table /\ m.pc = "done"
        BY <1>1 DEF Task
      <3> HIDE DEF m
      <3>3. TaskTyped'
        BY <1>1, <3>1, <3>2, StageType, OneChanges DEF CoreTyped
      <3> QED
        BY <1>3, <2>4, <3>3 DEF Write, CoreTyped, PlaceTyped, DataTyped, KeyTyped, secrets
    <2> QED  BY <2>5, <2>6
  <1>4. CASE Unlink(w)
    <2> DEFINE b == k.entry.book
               gone == Paths(b, k.list)
               lost(v) == task[v].linked /\ task[v].entry.book = b /\ task[v].entry.at \in gone
               keeps(v) == task[v].linked /\ ~lost(v)
               m == [k EXCEPT !.pc = "read"]
    <2>1. /\ k.pc = "unlink"
          /\ task' = [v \in Worker |-> IF v = w THEN m ELSE [task[v] EXCEPT !.linked = keeps(v)]]
          /\ file' = [r \in Root |-> IF r \in gone THEN [file[r] EXCEPT ![b] = "absent"] ELSE file[r]]
      BY <1>4 DEF Unlink
    <2>2. m \in Task /\ m.op = k.op /\ m.entry = k.entry /\ m.table = k.table /\ m.pc = "read"
      BY <1>1 DEF Task
    <2>3. \A v \in Worker : keeps(v) \in BOOLEAN
      OBVIOUS
    <2> HIDE DEF gone, lost, keeps, m
    <2>4. m \in Works
      BY <1>1, <2>1, <2>2, StageType
    <2>5. \A v \in Worker : [task[v] EXCEPT !.linked = keeps(v)] \in Works
      BY <2>3, MarksType DEF CoreTyped, TaskTyped
    <2>6. TaskTyped'
      BY <2>1, <2>4, <2>5 DEF TaskTyped
    <2>7. file' \in [Root -> [Book -> Content]]
      BY <2>1 DEF CoreTyped, DataTyped, Content
    <2> QED
      BY <1>4, <2>6, <2>7 DEF Unlink, CoreTyped, PlaceTyped, DataTyped, KeyTyped, tables, secrets
  <1>5. CASE Find(w)
    <2> DEFINE l == Blob(db, "records")
               m == [k EXCEPT !.pc = "unlink", !.list = l]
    <2>1. task' = [task EXCEPT ![w] = m] /\ k.pc = "find"
      BY <1>5 DEF Find
    <2>2. l \in Seq(Entry)
      BY BlobType DEF CoreTyped, PlaceTyped, Table
    <2> HIDE DEF l
    <2>3. m \in Task /\ m.op = k.op /\ m.entry = k.entry /\ m.table = k.table /\ m.pc = "unlink"
      BY <1>1, <2>2 DEF Task
    <2> HIDE DEF m
    <2>4. TaskTyped'
      BY <1>1, <2>1, <2>3, StageType, OneChanges DEF CoreTyped
    <2> QED
      BY <1>5, <2>4 DEF Find, CoreTyped, PlaceTyped, DataTyped, KeyTyped, tables, secrets
  <1>6. CASE UnlinkFails(w)
    <2> DEFINE m == [k EXCEPT !.pc = "read", !.stuck = TRUE]
    <2>1. task' = [task EXCEPT ![w] = m] /\ k.pc = "unlink"
      BY <1>6 DEF UnlinkFails
    <2>2. m \in Task /\ m.op = k.op /\ m.entry = k.entry /\ m.table = k.table /\ m.pc = "read"
      BY <1>1 DEF Task
    <2> HIDE DEF m
    <2>3. TaskTyped'
      BY <1>1, <2>1, <2>2, StageType, OneChanges DEF CoreTyped
    <2>4. KeyTyped'
      BY <1>6, ConstantsOK DEF UnlinkFails, CoreTyped, KeyTyped, Event, secrets
    <2> QED
      BY <1>6, <2>3, <2>4 DEF UnlinkFails, CoreTyped, PlaceTyped, DataTyped, tables
  <1> QED  BY <1>2, <1>3, <1>4, <1>5, <1>6

(* A download sets the file at its path.                                    *)
LEMMA SetFileType ==
  ASSUME CoreTyped, NEW w \in Worker, task[w].entry \in Entry, NEW c \in Content, SetFile(w, c)
  PROVE  file' \in [Root -> [Book -> Content]]
  BY DEF CoreTyped, DataTyped, SetFile, Entry

(* The next candidate.                                                      *)
LEMMA TryNextType ==
  ASSUME CoreTyped, NEW w \in Worker,
         task[w].pc \in {"prepare", "check", "fetch", "transfer", "validate"}
  PROVE  TryNext(w) \in Works
  <1> DEFINE k == task[w]
  <1>1. k \in Works /\ k \in Task /\ k.try \in 1..Candidates /\ Candidates \in Nat
    BY ConstantsOK DEF CoreTyped, TaskTyped, Works, Task
  <1>2. k.try # Candidates => k.try + 1 \in 1..Candidates
    BY <1>1
  <1>3. CASE k.try = Candidates
    <2> DEFINE m == [k EXCEPT !.pc = "done", !.linked = FALSE]
    <2>1. m \in Task /\ m.op = k.op /\ m.entry = k.entry /\ m.table = k.table /\ m.pc = "done"
      BY <1>1 DEF Task
    <2>2. TryNext(w) = m
      BY <1>3 DEF TryNext
    <2> HIDE DEF m
    <2> QED  BY <1>1, <2>1, <2>2, StageType
  <1>4. CASE k.try # Candidates
    <2> DEFINE n == k.try + 1
               m == [k EXCEPT !.pc = "fetch", !.try = n, !.linked = FALSE]
    <2>1. TryNext(w) = m
      BY <1>4 DEF TryNext
    <2>2. n \in 1..Candidates
      BY <1>2, <1>4
    <2> HIDE DEF n
    <2>3. m \in Task /\ m.op = k.op /\ m.entry = k.entry /\ m.table = k.table /\ m.pc = "fetch"
      BY <1>1, <2>2 DEF Task
    <2> HIDE DEF m
    <2> QED  BY <1>1, <2>1, <2>3, StageType
  <1> QED  BY <1>3, <1>4

(* The steps of a download.                                                 *)
LEMMA DownloadType ==
  ASSUME CoreTyped, NEW w \in Worker,
         \/ Prepare(w) \/ Check(w) \/ FetchFails(w) \/ Fetch(w) \/ Lost(w) \/ Validate(w)
         \/ \E body \in {"page", "doctype", "whole"}, success \in BOOLEAN :
              Received(w, body, success)
  PROVE  CoreTyped'
  <1> DEFINE k == task[w]
             Downloads == {"prepare", "check", "fetch", "transfer", "validate"}
  <1>1. k \in Works /\ k \in Task
    BY DEF CoreTyped, TaskTyped, Works
  <1>2. k.pc \in Downloads
    BY DEF Prepare, Check, FetchFails, Fetch, Lost, Validate, Received
  <1>3. k.entry \in Entry
    BY <1>1, <1>2, NoneIsNone DEF Works, Placed, HasEntry, Task
  <1>4. ASSUME NEW pc \in Downloads \cup {"done"}, pc # "prepare"
        PROVE  [k EXCEPT !.pc = pc] \in Works
    <2> DEFINE m == [k EXCEPT !.pc = pc]
    <2>1. m \in Task /\ m.op = k.op /\ m.entry = k.entry /\ m.table = k.table /\ m.pc = pc
      BY <1>1, <1>4 DEF Task
    <2> HIDE DEF m
    <2>2. m \in Works
      BY <1>1, <1>2, <1>4, <2>1, StageType
    <2> QED  BY <2>2 DEF m
  <1>5. [k EXCEPT !.pc = "done", !.out = "ok"] \in Works
    <2> DEFINE m == [k EXCEPT !.pc = "done", !.out = "ok"]
    <2>1. m \in Task /\ m.op = k.op /\ m.entry = k.entry /\ m.table = k.table /\ m.pc = "done"
      BY <1>1 DEF Task
    <2> HIDE DEF m
    <2>2. m \in Works
      BY <1>1, <2>1, StageType
    <2> QED  BY <2>2 DEF m
  <1>6. TryNext(w) \in Works
    BY <1>2, TryNextType
  <1>7. CASE Prepare(w)
    <2> DEFINE e == [k.entry EXCEPT !.at = home]
               m == [k EXCEPT !.pc = "check", !.entry = e]
    <2>1. k.pc = "prepare" /\ task' = [task EXCEPT ![w] = m]
      BY <1>7 DEF Prepare
    <2>2. e \in Entry
      BY <1>3 DEF Entry, CoreTyped, PlaceTyped
    <2> HIDE DEF e
    <2>3. m \in Task /\ HasEntry(m) /\ Placed(m)
      BY <1>1, <1>3, <2>1, <2>2, NoneIsNone DEF Task, Works, HasEntry, Placed
    <2>4. m \in Works
      BY <2>3 DEF Works
    <2> HIDE DEF m
    <2>5. TaskTyped'
      BY <2>1, <2>4, OneChanges DEF CoreTyped
    <2>6. base' \in Url \cup {None}
      BY <1>7, AddressType DEF Prepare, CoreTyped, PlaceTyped, Service
    <2> QED
      BY <1>7, <2>5, <2>6 DEF Prepare, CoreTyped, PlaceTyped, DataTyped, KeyTyped, tables, secrets
  <1>8. CASE Check(w) \/ Validate(w) \/ FetchFails(w)
    <2>1. PICK m \in Works : task' = [task EXCEPT ![w] = m]
      BY <1>4, <1>5, <1>6, <1>8 DEF Check, Validate, FetchFails, Done
    <2>2. TaskTyped'
      BY <2>1, OneChanges DEF CoreTyped
    <2>3. /\ UNCHANGED <<db, opening, home, base, tables, file, secrets>>
          /\ events' = events \/ Event
      BY <1>8 DEF Check, Validate, FetchFails
    <2>4. KeyTyped'
      BY <2>3, ConstantsOK DEF CoreTyped, KeyTyped, Event, secrets
    <2> QED  BY <2>2, <2>3, <2>4 DEF CoreTyped, PlaceTyped, DataTyped, tables
  <1>9. CASE Fetch(w)
    <2> DEFINE own == [k EXCEPT !.pc = "transfer", !.linked = TRUE, !.clean = TRUE]
               keeps(v) == task[v].clean /\ ~SamePath(v, w)
    <2>1. /\ SetFile(w, "partial")
          /\ task' = [v \in Worker |-> IF v = w THEN [task[v] EXCEPT !.pc = "transfer", !.linked = TRUE, !.clean = TRUE]
                                       ELSE [task[v] EXCEPT !.clean = keeps(v)]]
      BY <1>9 DEF Fetch
    <2>2. own \in Works
      <3>1. own \in Task /\ own.op = k.op /\ own.entry = k.entry /\ own.table = k.table
            /\ own.pc = "transfer"
        BY <1>1 DEF Task
      <3> HIDE DEF own
      <3> QED  BY <1>1, <1>2, <3>1, StageType
    <2>3. \A v \in Worker : keeps(v) \in BOOLEAN
      OBVIOUS
    <2> HIDE DEF keeps
    <2>4. \A v \in Worker : [task[v] EXCEPT !.clean = keeps(v)] \in Works
      BY <2>3, MarksType DEF CoreTyped, TaskTyped
    <2>5. TaskTyped'
      BY <2>1, <2>2, <2>4 DEF TaskTyped
    <2>6. file' \in [Root -> [Book -> Content]]
      BY <1>3, <2>1, SetFileType DEF Content
    <2> QED
      BY <1>9, <2>5, <2>6 DEF Fetch, CoreTyped, PlaceTyped, DataTyped, KeyTyped, tables, secrets
  <1>10. CASE Lost(w)
    <2> DEFINE keeps(v) == task[v].linked /\ ~SamePath(v, w)
    <2>1. /\ SetFile(w, "absent")
          /\ task' = [v \in Worker |-> IF v = w THEN TryNext(w)
                                       ELSE [task[v] EXCEPT !.linked = keeps(v)]]
      BY <1>10 DEF Lost
    <2>2. \A v \in Worker : keeps(v) \in BOOLEAN
      OBVIOUS
    <2> HIDE DEF keeps
    <2>3. \A v \in Worker : [task[v] EXCEPT !.linked = keeps(v)] \in Works
      BY <2>2, MarksType DEF CoreTyped, TaskTyped
    <2>4. TaskTyped'
      BY <1>6, <2>1, <2>3 DEF TaskTyped
    <2>5. file' \in [Root -> [Book -> Content]]
      BY <1>3, <2>1, SetFileType DEF Content
    <2> QED
      BY <1>10, <2>4, <2>5 DEF Lost, CoreTyped, PlaceTyped, DataTyped, KeyTyped, tables, secrets
  <1>11. ASSUME NEW body \in {"page", "doctype", "whole"}, NEW success \in BOOLEAN,
                Received(w, body, success)
         PROVE  CoreTyped'
    <2> DEFINE own == [k EXCEPT !.pc = "validate", !.linked = FALSE]
    <2>1. /\ task' = [task EXCEPT ![w] = IF success THEN own ELSE TryNext(w)]
          /\ SetFile(w, body) \/ SetFile(w, "mixed") \/ UNCHANGED file
      BY <1>11 DEF Received
    <2>2. own \in Works
      <3>1. own \in Task /\ own.op = k.op /\ own.entry = k.entry /\ own.table = k.table
            /\ own.pc = "validate"
        BY <1>1 DEF Task
      <3> HIDE DEF own
      <3> QED  BY <1>1, <1>2, <3>1, StageType
    <2> HIDE DEF own
    <2>3. TaskTyped'
      BY <1>6, <2>1, <2>2, OneChanges DEF CoreTyped
    <2>4. body \in Content /\ "mixed" \in Content
      BY DEF Content
    <2>5. file' \in [Root -> [Book -> Content]]
      BY <1>3, <2>1, <2>4, SetFileType DEF CoreTyped, DataTyped
    <2> QED
      BY <1>11, <2>3, <2>5 DEF Received, CoreTyped, PlaceTyped, DataTyped, KeyTyped, tables, secrets
  <1> QED  BY <1>7, <1>8, <1>9, <1>10, <1>11

(* A key file that is replaced has a new key, and that is an event.         *)
LEMMA SecretsType ==
  ASSUME KeyTyped, Event, NEW d \in Root, LoadOrCreateKey(d)
  PROVE  /\ events' \in 0..MaxEvents /\ events \in Nat /\ events' = events + 1
         /\ key' \in [Root -> Nat]
         /\ \A r \in Root : key'[r] <= events'
  <1>1. events' \in 0..MaxEvents /\ events \in Nat /\ events' = events + 1
    BY ConstantsOK DEF KeyTyped, Event
  <1>2. key' = key \/ key' = [key EXCEPT ![d] = key[d] + 1]
    BY DEF LoadOrCreateKey
  <1>3. key' \in [Root -> Nat]
    BY <1>2 DEF KeyTyped
  <1>4. \A r \in Root : key'[r] <= key[r] + 1 /\ key[r] <= events /\ key[r] \in Nat
    BY <1>2 DEF KeyTyped
  <1>5. \A r \in Root : key'[r] <= events'
    BY <1>1, <1>3, <1>4
  <1> QED  BY <1>1, <1>3, <1>5

(* The types hold at start.                                                 *)
LEMMA CoreTypedInit == Init => CoreTyped
  <1> SUFFICES ASSUME Init PROVE CoreTyped
    OBVIOUS
  <1>1. TaskTyped
    BY IdleType DEF Init, TaskTyped
  <1>2. PlaceTyped
    BY ConstantsOK DEF Init, PlaceTyped, Service
  <1>3. blob \in [Root -> [Table -> Seq(Entry)]]
    <2>1. <<>> \in Seq(Entry)
      OBVIOUS
    <2> QED  BY <2>1 DEF Init
  <1>4. file \in [Root -> [Book -> Content]]
    BY DEF Init, Content
  <1>5. KeyTyped
    BY ConstantsOK DEF Init, KeyTyped
  <1> QED  BY <1>1, <1>2, <1>3, <1>4, <1>5 DEF CoreTyped, DataTyped

(* Every step keeps them.                                                   *)
LEMMA CoreTypedNext == CoreTyped /\ [Next]_vars => CoreTyped'
  <1> SUFFICES ASSUME CoreTyped, [Next]_vars PROVE CoreTyped'
    OBVIOUS
  <1>0. TaskTyped /\ PlaceTyped /\ DataTyped /\ KeyTyped /\ Global \in Root
    BY ConstantsOK DEF CoreTyped
  <1>1. Event => events' \in 0..MaxEvents /\ events <= events' /\ events \in Nat
    BY <1>0, ConstantsOK DEF KeyTyped, Event
  <1>2. ASSUME Event \/ events' = events, UNCHANGED secrets PROVE KeyTyped'
    <2>1. events' \in 0..MaxEvents /\ events <= events' /\ events \in Nat /\ events' \in Nat
      BY <1>0, <1>1, <1>2, ConstantsOK DEF KeyTyped
    <2>2. \A d \in Root : key[d] <= events' /\ password[d].no <= events'
      <3> SUFFICES ASSUME NEW d \in Root PROVE key[d] <= events' /\ password[d].no <= events'
        OBVIOUS
      <3>1. key[d] \in Nat /\ password[d].no \in Nat /\ key[d] <= events /\ password[d].no <= events
        BY <1>0 DEF KeyTyped
      <3> QED  BY <2>1, <3>1
    <2> QED  BY <1>0, <1>2, <2>1, <2>2 DEF KeyTyped, secrets
  <1>3. ASSUME task' = Disturbed PROVE TaskTyped'
    BY <1>0, <1>3, DisturbedType DEF TaskTyped
  <1>4. ASSUME NEW r \in Root, SwitchToSame(r) \/ CloseDb(r) PROVE CoreTyped'
    <2>1. task' = Disturbed /\ Event /\ UNCHANGED <<tables, file, secrets>>
      BY <1>4 DEF SwitchToSame, CloseDb
    <2>2. PlaceTyped'
      BY <1>0, <1>4, AddressType DEF SwitchToSame, CloseDb, PlaceTyped, Service, tables
    <2> QED  BY <1>0, <1>2, <1>3, <2>1, <2>2 DEF CoreTyped, DataTyped, tables
  <1>5. CASE OpenDb
    <2>1. /\ task' = Disturbed /\ UNCHANGED <<tables, file, secrets, events>>
          /\ opening # None /\ db' = opening /\ home' = opening /\ opening' = None
          /\ base' = IF AddressOf(opening, "talebook") = None THEN base
                     ELSE AddressOf(opening, "talebook")
      BY <1>5 DEF OpenDb
    <2>2. opening \in Root /\ AddressOf(opening, "talebook") \in Url \cup {None}
      BY <1>0, <2>1, AddressType DEF PlaceTyped, Service
    <2>3. PlaceTyped'
      BY <1>0, <2>1, <2>2 DEF PlaceTyped, tables
    <2> QED  BY <1>0, <1>2, <1>3, <2>1, <2>3 DEF CoreTyped, DataTyped, tables
  <1>6. CASE OpenFails
    BY <1>0, <1>2, <1>6 DEF OpenFails, CoreTyped, TaskTyped, PlaceTyped, DataTyped, tables
  <1>7. ASSUME NEW s \in Service, NEW u \in Url, SetBaseUrl(s, u) PROVE CoreTyped'
    <2>1. /\ task' = Disturbed /\ Event
          /\ UNCHANGED <<db, opening, home, base, blob, file, secrets>>
          /\ address' = IF db = None THEN address ELSE [address EXCEPT ![db][s] = u]
      BY <1>7 DEF SetBaseUrl
    <2>2. address' \in [Root -> [Service -> Url \cup {None}]]
      BY <1>0, <2>1 DEF PlaceTyped
    <2> QED  BY <1>0, <1>2, <1>3, <2>1, <2>2 DEF CoreTyped, PlaceTyped, DataTyped
  <1>8. ASSUME NEW r \in Root, Seal(r) PROVE CoreTyped'
    <2> DEFINE n == key'[Global]
    <2>1. /\ Event /\ LoadOrCreateKey(Global)
          /\ password' = [password EXCEPT ![r] = [dir |-> Global, no |-> n]]
          /\ UNCHANGED <<db, opening, home, base, tables, file, task>>
      BY <1>8 DEF Seal, KeyDir
    <2>2. /\ events' \in 0..MaxEvents /\ events \in Nat /\ events' = events + 1
          /\ key' \in [Root -> Nat] /\ \A d \in Root : key'[d] <= events'
      BY <1>0, <2>1, SecretsType
    <2>3. n \in Nat /\ n <= events'
      BY <1>0, <2>2
    <2> HIDE DEF n
    <2>4. password' \in [Root -> [dir : Root, no : Nat]]
      BY <1>0, <2>1, <2>3 DEF KeyTyped
    <2>5. \A d \in Root : password'[d].no <= events'
      <3> SUFFICES ASSUME NEW d \in Root PROVE password'[d].no <= events'
        OBVIOUS
      <3>1. password[d].no \in Nat /\ password[d].no <= events
        BY <1>0 DEF KeyTyped
      <3>2. password'[d].no = n \/ password'[d].no = password[d].no
        BY <1>0, <2>1 DEF KeyTyped
      <3> QED  BY <2>2, <2>3, <3>1, <3>2
    <2>6. KeyTyped'
      BY <2>2, <2>4, <2>5 DEF KeyTyped
    <2> QED  BY <1>0, <2>1, <2>6 DEF CoreTyped, TaskTyped, PlaceTyped, DataTyped, tables
  <1>9. ASSUME NEW r \in Root, Open(r) PROVE CoreTyped'
    <2>1. /\ Event /\ LoadOrCreateKey(Global) /\ password' = password
          /\ UNCHANGED <<db, opening, home, base, tables, file, task>>
      BY <1>9 DEF Open, KeyDir
    <2>2. /\ events' \in 0..MaxEvents /\ events \in Nat /\ events' = events + 1
          /\ key' \in [Root -> Nat] /\ \A d \in Root : key'[d] <= events'
      BY <1>0, <2>1, SecretsType
    <2>3. \A d \in Root : password[d].no <= events'
      <3> SUFFICES ASSUME NEW d \in Root PROVE password[d].no <= events'
        OBVIOUS
      <3>1. password[d].no \in Nat /\ password[d].no <= events
        BY <1>0 DEF KeyTyped
      <3> QED  BY <2>2, <3>1
    <2>4. KeyTyped'
      BY <1>0, <2>1, <2>2, <2>3 DEF KeyTyped
    <2> QED  BY <1>0, <2>1, <2>4 DEF CoreTyped, TaskTyped, PlaceTyped, DataTyped, tables
  <1>10. ASSUME NEW w \in Worker, Ask(w) PROVE CoreTyped'
    <2>1. TaskTyped'
      BY <1>10, StartType
    <2>2. Event /\ UNCHANGED <<db, opening, home, base, tables, file, secrets>>
      BY <1>10 DEF Ask, Start
    <2> QED  BY <1>0, <1>2, <2>1, <2>2 DEF CoreTyped, PlaceTyped, DataTyped, tables
  <1>11. ASSUME NEW w \in Worker, Complete(w) PROVE CoreTyped'
    <2>1. TaskTyped'
      BY <1>0, <1>11, IdleType, OneChanges DEF Complete
    <2> QED  BY <1>0, <1>2, <1>11, <2>1 DEF Complete, CoreTyped, PlaceTyped, DataTyped, tables
  <1>12. ASSUME NEW w \in Worker, Work(w) PROVE CoreTyped'
    BY <1>11, <1>12, RequestType, TableType, DownloadType DEF Work
  <1>13. CASE Restart
    <2>1. TaskTyped'
      BY <1>13, IdleType DEF Restart, TaskTyped
    <2>2. file' \in [Root -> [Book -> Content]]
      BY <1>0, <1>13 DEF Restart, DataTyped, Content
    <2>3. PlaceTyped'
      BY <1>0, <1>13 DEF Restart, PlaceTyped, tables
    <2> QED  BY <1>0, <1>2, <1>13, <2>1, <2>2, <2>3 DEF Restart, CoreTyped, DataTyped, tables
  <1>14. CASE UNCHANGED vars
    BY <1>0, <1>14 DEF vars, tables, secrets, CoreTyped, TaskTyped, PlaceTyped, DataTyped, KeyTyped
  <1> QED
    BY <1>4, <1>5, <1>6, <1>7, <1>8, <1>9, <1>10, <1>12, <1>13, <1>14 DEF Next

(* The types of the engine: its tables, files, keys and the work of every   *)
(* thread, whatever overlaps and whatever dies.                             *)
THEOREM CoreTypesSafe == Spec => []TypeOK
  <1>1. CoreTyped => TypeOK
    <2> SUFFICES ASSUME CoreTyped PROVE TypeOK
      OBVIOUS
    <2>1. /\ key \in [Root -> 0..MaxEvents]
          /\ password \in [Root -> [dir : Root, no : 0..MaxEvents]]
          /\ events \in 0..MaxEvents
      BY ConstantsOK DEF CoreTyped, KeyTyped
    <2>2. task \in [Worker -> Task] /\ \A w \in Worker : HasEntry(task[w])
      BY DEF CoreTyped, TaskTyped, Works
    <2> QED  BY <2>1, <2>2 DEF CoreTyped, PlaceTyped, DataTyped, TypeOK
  <1> QED  BY CoreTypedInit, CoreTypedNext, <1>1, PTL DEF Spec

-----------------------------------------------------------------------------
(* Tables.                                                                  *)

(* A filter keeps the books of a list different.                            *)
LEMMA DistinctWithout ==
  ASSUME NEW b, NEW l \in Seq(Entry), Distinct(l)
  PROVE  Distinct(Without(b, l))
  <1> DEFINE S == {x \in Entry : x.book # b}
             o == Only(l, S)
  <1>1. PICK e \in [DOMAIN o -> DOMAIN l] :
          /\ \A n \in DOMAIN o : o[n] = l[e[n]]
          /\ \A m, n \in DOMAIN o : m < n => e[m] < e[n]
    BY OnlyOrder
  <1>2. o \in Seq(Entry)
    BY OnlyOrder
  <1>4. o = Without(b, l)
    BY DEF Without
  <1> HIDE DEF o
  <1>3. DOMAIN o \subseteq Nat /\ DOMAIN l \subseteq Nat
    BY <1>2
  <1>5. ASSUME NEW m \in DOMAIN o, NEW n \in DOMAIN o, o[m].book = o[n].book
        PROVE  m = n
    <2>1. e[m] = e[n]
      BY <1>1, <1>5 DEF Distinct
    <2>2. e[m] \in Nat /\ ~(m < n) /\ ~(n < m)
      BY <1>1, <1>3, <2>1
    <2> QED  BY <1>3, <2>2
  <1> QED  BY <1>4, <1>5 DEF Distinct

(* removeDownloadRecord takes the book out before it is put in front.       *)
LEMMA DistinctPut ==
  ASSUME NEW e \in Entry, NEW l \in Seq(Entry), Distinct(l)
  PROVE  Distinct(Put(e, l)) /\ Distinct(<<e>>)
  <1> DEFINE r == Without(e.book, l)
             one == <<e>>
             p == one \o r
  <1>1. r \in Seq(Entry) /\ Distinct(r) /\ \A x \in Elems(r) : x.book # e.book
    BY WithoutType, DistinctWithout
  <1> HIDE DEF r
  <1>2. one \in Seq(Entry) /\ Len(one) = 1 /\ one[1] = e
    OBVIOUS
  <1>3. DOMAIN one = {1}
    OBVIOUS
  <1> HIDE DEF one
  <1>4. Len(r) \in Nat /\ DOMAIN r = 1..Len(r)
    BY <1>1, LenProperties
  <1>10. /\ p \in Seq(Entry) /\ Len(p) = Len(one) + Len(r)
         /\ \A i \in 1..(Len(one) + Len(r)) :
              p[i] = IF i <= Len(one) THEN one[i] ELSE r[i - Len(one)]
    BY <1>1, <1>2, ConcatProperties
  <1> HIDE DEF p
  <1>5. /\ p \in Seq(Entry) /\ Len(p) = 1 + Len(r)
        /\ \A i \in 1..(1 + Len(r)) : p[i] = IF i <= 1 THEN one[i] ELSE r[i - 1]
    BY <1>2, <1>10
  <1>6. DOMAIN p = 1..(1 + Len(r))
    BY <1>5
  <1>7. \A i \in DOMAIN p : \/ i = 1 /\ p[i] = e
                            \/ i # 1 /\ i - 1 \in DOMAIN r /\ p[i] = r[i - 1]
    <2> TAKE i \in DOMAIN p
    <2>1. CASE i = 1
      BY <1>2, <1>5, <1>6, <2>1
    <2>2. CASE i # 1
      <3>1. i \in 1..(1 + Len(r)) /\ ~(i <= 1) /\ i - 1 \in 1..Len(r)
        BY <1>4, <1>6, <2>2
      <3> QED  BY <1>4, <1>5, <2>2, <3>1
    <2> QED  BY <2>1, <2>2
  <1>8. ASSUME NEW m \in DOMAIN p, NEW n \in DOMAIN p, p[m].book = p[n].book
        PROVE  m = n
    <2>1. m \in Nat /\ n \in Nat
      BY <1>6
    <2>2. \A i \in DOMAIN r : r[i] \in Elems(r)
      BY DEF Elems
    <2>3. m = 1 <=> n = 1
      BY <1>1, <1>7, <1>8, <2>2
    <2>4. CASE m # 1 /\ n # 1
      <3>1. m - 1 = n - 1
        BY <1>1, <1>7, <1>8, <2>4 DEF Distinct
      <3> QED  BY <2>1, <3>1
    <2> QED  BY <2>3, <2>4
  <1>9. Distinct(one)
    BY <1>3 DEF Distinct
  <1> QED  BY <1>8, <1>9 DEF Distinct, Put, p, r, one

(* What is written back names a book once.                                  *)
LEMMA DistinctUpdated ==
  ASSUME NEW op, NEW t, NEW e \in Entry, NEW l \in Seq(Entry), Distinct(l)
  PROVE  Distinct(Updated(op, t, e, l))
  BY DistinctWithout, DistinctPut DEF Updated

(* Only the second half of an update changes a table.                       *)
Updates(w) ==
  LET k == task[w]
  IN  /\ Write(w) /\ db \in Root
      /\ k.entry \in Entry /\ k.table \in Table /\ k.list \in Seq(Entry)
      /\ blob' = [blob EXCEPT ![db][k.table] = Updated(k.op, k.table, k.entry, k.list)]

(* Every step but that one leaves the tables.                               *)
LEMMA TablesChange ==
  ASSUME CoreTyped, [Next]_vars
  PROVE  blob' = blob \/ \E w \in Worker : Updates(w)
  <1>1. ASSUME NEW w \in Worker, Write(w) PROVE blob' = blob \/ Updates(w)
    <2>1. task[w] \in Task /\ task[w].entry \in Entry
      BY <1>1, NoneIsNone DEF Write, CoreTyped, TaskTyped, Works, Placed, HasEntry, Task
    <2> QED  BY <1>1, <2>1 DEF Write, Updates, Task, CoreTyped, PlaceTyped
  <1>2. blob' = blob \/ \E w \in Worker : Write(w)
    BY DEF Next, Ask, Work, SwitchToSame, CloseDb, OpenDb, OpenFails, SetBaseUrl, Start, Ensure,
           Send, NothingToUpload, Read, Find, Unlink, UnlinkFails, Prepare, Check, FetchFails,
           Fetch, Lost, Validate, Received, Complete, Restart, vars, tables, Seal, Open
  <1> QED  BY <1>1, <1>2

(* Work has the list it read, or none, or one that it reads now.            *)
LEMMA ListsChange ==
  ASSUME CoreTyped, [Next]_vars, NEW v \in Worker
  PROVE  \/ task'[v].list = task[v].list
         \/ task'[v].list = <<>>
         \/ \E t \in Table : task'[v].list = Blob(db, t)
  <1> DEFINE Goal == \/ task'[v].list = task[v].list
                     \/ task'[v].list = <<>>
                     \/ \E t \in Table : task'[v].list = Blob(db, t)
  <1>0. task \in [Worker -> Task] /\ \A w \in Worker : DOMAIN task[w] = Fields
    BY DEF CoreTyped, TaskTyped, Works, Task, Fields
  <1>1. task' = Disturbed => Goal
    BY <1>0 DEF Disturbed, Fields
  <1>2. ASSUME NEW w \in Worker, Ask(w) PROVE Goal
    <2>1. \A u \in Worker : Disturbed[u].list = task[u].list
      BY <1>0 DEF Disturbed, Fields
    <2>2. DOMAIN Disturbed = Worker
      BY DEF Disturbed
    <2>3. ASSUME NEW op, NEW pc, NEW s, NEW t, NEW e, Start(w, op, pc, s, t, e) PROVE Goal
      <3> DEFINE new == [Idle EXCEPT !.op = op, !.pc = pc, !.service = s, !.table = t, !.entry = e,
                           !.alone = opening = None /\ \A u \in Worker : task[u].pc = "idle"]
      <3>1. task' = [Disturbed EXCEPT ![w] = new]
        BY <2>3 DEF Start
      <3>2. new.list = <<>>
        BY DEF Idle
      <3> HIDE DEF new
      <3> QED  BY <2>1, <2>2, <3>1, <3>2
    <2> HIDE DEF Goal
    <2> QED  BY <1>2, <2>3 DEF Ask
  <1>3. ASSUME NEW w \in Worker, Read(w) PROVE Goal
    <2>1. task[w].table \in Table
      BY <1>0 DEF Task
    <2>2. task' = [task EXCEPT ![w] = [task[w] EXCEPT !.pc = "write", !.list = Blob(db, task[w].table)]]
      BY <1>3 DEF Read
    <2> QED  BY <1>0, <2>1, <2>2 DEF Fields
  <1>8. ASSUME NEW w \in Worker, Find(w) PROVE Goal
    <2>1. task' = [task EXCEPT ![w] = [task[w] EXCEPT !.pc = "unlink", !.list = Blob(db, "records")]]
      BY <1>8 DEF Find
    <2> QED  BY <1>0, <2>1 DEF Fields, Table
  <1>9. ASSUME NEW w \in Worker, UnlinkFails(w) PROVE Goal
    <2>1. task' = [task EXCEPT ![w] = [task[w] EXCEPT !.pc = "read", !.stuck = TRUE]]
      BY <1>9 DEF UnlinkFails
    <2> QED  BY <1>0, <2>1 DEF Fields
  <1>4. ASSUME NEW w \in Worker, Unlink(w) \/ Fetch(w) \/ Lost(w) PROVE Goal
    <2>1. CASE Unlink(w)
      <3> DEFINE b == task[w].entry.book
                 gone == Paths(b, task[w].list)
                 lost(u) == task[u].linked /\ task[u].entry.book = b /\ task[u].entry.at \in gone
      <3>1. task' = [u \in Worker |-> IF u = w THEN [task[u] EXCEPT !.pc = "read"]
                                      ELSE [task[u] EXCEPT !.linked = @ /\ ~lost(u)]]
        BY <2>1 DEF Unlink
      <3> HIDE DEF lost
      <3> QED  BY <1>0, <3>1 DEF Fields
    <2>2. CASE Fetch(w)
      <3> HIDE DEF SamePath
      <3> QED  BY <1>0, <2>2 DEF Fetch, Fields
    <2>3. CASE Lost(w)
      <3>1. TryNext(w).list = task[w].list
        BY <1>0 DEF TryNext, Fields
      <3> HIDE DEF SamePath, TryNext
      <3> QED  BY <1>0, <2>3, <3>1 DEF Lost, Fields
    <2> QED  BY <1>4, <2>1, <2>2, <2>3
  <1>5. ASSUME NEW w \in Worker,
               \/ Ensure(w) \/ Send(w) \/ NothingToUpload(w) \/ Write(w) \/ Prepare(w)
               \/ Check(w) \/ FetchFails(w) \/ Validate(w) \/ Complete(w)
               \/ \E body \in {"page", "doctype", "whole"}, success \in BOOLEAN :
                    Received(w, body, success)
        PROVE  Goal
    <2>1. TryNext(w).list = task[w].list
      BY <1>0 DEF TryNext, Fields
    <2>2. PICK m : task' = [task EXCEPT ![w] = m] /\ m.list \in {task[w].list, <<>>}
      <3> DEFINE Some == \E m : task' = [task EXCEPT ![w] = m] /\ m.list \in {task[w].list, <<>>}
      <3> HIDE DEF TryNext
      <3>1. ASSUME NEW m, task' = [task EXCEPT ![w] = m], m.list \in {task[w].list, <<>>}
            PROVE  Some
        BY <3>1
      <3>2. ASSUME NEW m, task' = [task EXCEPT ![w] = m], m.list = task[w].list PROVE Some
        BY <3>2
      <3> HIDE DEF Some
      <3>3. ASSUME NEW out, Done(w, out) PROVE Some
        BY <1>0, <3>2, <3>3 DEF Done, Fields
      <3>4. ASSUME NEW pc, task' = [task EXCEPT ![w].pc = pc] PROVE Some
        BY <1>0, <3>2, <3>4 DEF Fields
      <3>5. ASSUME Ensure(w) \/ Send(w) \/ NothingToUpload(w) \/ Write(w) \/ Prepare(w)
            PROVE  Some
        <4>1. CASE Ensure(w) \/ Send(w) \/ NothingToUpload(w)
          BY <3>3, <3>4, <4>1 DEF Ensure, Send, NothingToUpload
        <4>2. CASE Write(w)
          <5>1. CASE task' = [task EXCEPT ![w].pc = "read", ![w].table = "records"]
            <6> DEFINE m == [task[w] EXCEPT !.pc = "read", !.table = "records"]
            <6>1. task' = [task EXCEPT ![w] = m] /\ m.list = task[w].list
              BY <1>0, <5>1 DEF Fields
            <6> HIDE DEF m
            <6> QED  BY <3>2, <6>1
          <5> QED  BY <3>3, <4>2, <5>1 DEF Write
        <4>3. CASE Prepare(w)
          BY <1>0, <3>2, <4>3 DEF Prepare, Fields
        <4> QED  BY <3>5, <4>1, <4>2, <4>3
      <3>6. ASSUME Check(w) \/ FetchFails(w) \/ Validate(w) PROVE Some
        BY <2>1, <3>6, <3>2, <3>3, <3>4 DEF Check, FetchFails, Validate
      <3>7. ASSUME NEW body, NEW success \in BOOLEAN, Received(w, body, success)
            PROVE  Some
        <4>1. CASE success
          <5> DEFINE m == [task[w] EXCEPT !.pc = "validate", !.linked = FALSE]
          <5>1. task' = [task EXCEPT ![w] = m] /\ m.list = task[w].list
            BY <1>0, <3>7, <4>1 DEF Received, Fields
          <5> HIDE DEF m
          <5> QED  BY <3>2, <5>1
        <4>2. CASE ~success
          <5>1. task' = [task EXCEPT ![w] = TryNext(w)]
            BY <3>7, <4>2 DEF Received
          <5> QED  BY <2>1, <3>2, <5>1
        <4> QED  BY <4>1, <4>2
      <3>8. ASSUME Complete(w) PROVE Some
        BY <3>8, <3>1 DEF Complete, Idle
      <3>9. Some
        BY <1>5, <3>5, <3>6, <3>7, <3>8
      <3> QED  BY <3>9 DEF Some
    <2> QED  BY <1>0, <2>2
  <1>6. CASE Restart
    BY <1>6 DEF Restart, Idle
  <1>7. CASE UNCHANGED task
    BY <1>7
  <1> QED
    BY <1>1, <1>2, <1>3, <1>4, <1>5, <1>6, <1>7, <1>8, <1>9
       DEF Next, Work, SwitchToSame, CloseDb, OpenDb, OpenFails, SetBaseUrl, Seal, Open, vars

(* No step names a book twice.                                              *)
LEMMA DistinctNext ==
  ASSUME CoreTyped, NoDuplicateRecords, [Next]_vars
  PROVE  NoDuplicateRecords'
  <1>1. Distinct(<<>>)
    BY DEF Distinct
  <1>2. \A t \in Table : Distinct(Blob(db, t))
    BY <1>1 DEF Blob, NoDuplicateRecords, CoreTyped, PlaceTyped
  <1>3. \A v \in Worker : Distinct(task'[v].list)
    BY <1>1, <1>2, ListsChange DEF NoDuplicateRecords
  <1>4. ASSUME NEW w \in Worker, Updates(w), NEW r \in Root, NEW t \in Table
        PROVE  Distinct(blob'[r][t])
    <2> DEFINE k == task[w]
               u == Updated(k.op, k.table, k.entry, k.list)
    <2>1. /\ blob' = [blob EXCEPT ![db][k.table] = u] /\ k.entry \in Entry /\ k.list \in Seq(Entry)
          /\ db \in Root /\ k.table \in Table
      BY <1>4 DEF Updates
    <2>2. Distinct(u)
      BY <2>1, DistinctUpdated DEF NoDuplicateRecords
    <2> HIDE DEF u
    <2>3. blob'[r][t] = u \/ blob'[r][t] = blob[r][t]
      BY <2>1 DEF CoreTyped, DataTyped
    <2> QED  BY <2>2, <2>3 DEF NoDuplicateRecords
  <1>5. CASE blob' = blob
    BY <1>3, <1>5 DEF NoDuplicateRecords
  <1> QED  BY <1>3, <1>4, <1>5, TablesChange DEF NoDuplicateRecords

(* Nothing is recorded at start.                                            *)
LEMMA DistinctInit == Init => NoDuplicateRecords
  BY DEF Init, NoDuplicateRecords, Distinct, Idle

(* However the halves of concurrent updates, switches and deaths            *)
(* interleave, no table names a book twice.                                 *)
THEOREM RecordsDistinct == Spec => []NoDuplicateRecords
  <1>1. CoreTyped /\ NoDuplicateRecords /\ [Next]_vars => (CoreTyped /\ NoDuplicateRecords)'
    BY CoreTypedNext, DistinctNext
  <1> QED  BY CoreTypedInit, DistinctInit, <1>1, PTL DEF Spec

-----------------------------------------------------------------------------
(* Work on a table that nothing overlaps.                                   *)

\* Every record of the book says a path where no file is.
Gone(b) ==
  \A n \in DOMAIN Blob(db, "records") :
    LET e == Blob(db, "records")[n] IN e.book = b => file[e.at][e.book] = "absent"

\* What is about to be written back is what the table still holds.
ReadBackOf(w) ==
  LET k == task[w]
  IN  k.alone /\ k.pc = "write" /\ k.op # "save" => k.list = Blob(db, k.table)

\* A deletion looked for the file in what the table still holds.
FoundOf(w) ==
  LET k == task[w]
  IN  k.alone /\ k.pc = "unlink" => k.list = Blob(db, "records")

\* A deletion that comes to the record has removed the file, if it could.
UnlinkedOf(w) ==
  LET k == task[w]
  IN  k.alone /\ ~k.stuck /\ k.op = "delete" /\ k.pc \in {"read", "write"} => Gone(k.entry.book)

TableInv == \A w \in Worker : ReadBackOf(w) /\ FoundOf(w) /\ UnlinkedOf(w)

(* In a table without doubles every record of the book is the first one.    *)
LEMMA PathsAreAll ==
  ASSUME NEW l \in Seq(Entry), Distinct(l), NEW n \in DOMAIN l
  PROVE  l[n].at \in Paths(l[n].book, l)
  <1>1. DOMAIN l = 1..Len(l) /\ Len(l) \in Nat
    OBVIOUS
  <1>2. \A m \in 1..(n - 1) : m \in DOMAIN l /\ m # n
    BY <1>1
  <1>3. \A m \in 1..(n - 1) : l[m].book # l[n].book
    BY <1>2 DEF Distinct
  <1> QED  BY <1>3 DEF Paths

(* The work of v after a step that leaves it alone: it began with the step, *)
(* it made the step, or nothing that it looks at changed.                   *)
LEMMA AloneStep ==
  ASSUME Alone, [Next]_vars, NEW v \in Worker, task'[v].alone, task'[v].pc # "idle"
  PROVE  \/ /\ task'[v].pc \in {"read", "write"} => task'[v].op # "delete"
            /\ task'[v].pc = "write" => task'[v].op = "save"
            /\ task'[v].pc # "unlink"
         \/ Work(v) /\ ~Complete(v)
         \/ task'[v] = task[v] /\ UNCHANGED <<db, blob, file>>
  <1> DEFINE Fresh == /\ task'[v].pc \in {"read", "write"} => task'[v].op # "delete"
                      /\ task'[v].pc = "write" => task'[v].op = "save"
                      /\ task'[v].pc # "unlink"
             Goal == \/ Fresh
                     \/ Work(v) /\ ~Complete(v)
                     \/ task'[v] = task[v] /\ UNCHANGED <<db, blob, file>>
  <1>0. Shape
    BY DEF Alone, CoreInv
  <1>1. ~Disturbs
    BY <1>0, DisturbedStep
  <1>2. ASSUME NEW w \in Worker, Ask(w) PROVE Fresh
    <2>1. ASSUME NEW op, NEW pc, NEW s, NEW t, NEW e, Start(w, op, pc, s, t, e),
                 pc \in {"read", "write"} => op # "delete",
                 pc = "write" => op = "save", pc # "unlink"
          PROVE  Fresh
      BY <1>0, <2>1, StartStep
    <2> HIDE DEF Fresh
    <2> QED  BY <1>2, <2>1 DEF Ask
  <1>3. ASSUME NEW w \in Worker, Complete(w) PROVE Goal
    <2>1. w # v
      BY <1>0, <1>3, CompleteStep DEF Idle
    <2> QED  BY <1>0, <1>3, <2>1 DEF Complete, Shape, tables
  <1>4. ASSUME NEW w \in Worker, Work(w), ~Complete(w) PROVE w = v
    <2>1. Stepped(w)
      BY <1>0, <1>4, RequestStep, TableStep, DownloadStep DEF Work
    <2>2. CASE w # v
      <3>1. task[v].alone => task[v].pc = "idle"
        BY <2>1, <2>2, OthersKeep
      <3> QED  BY <2>1, <2>2, <3>1 DEF Stepped, Steady, Kept
    <2> QED  BY <2>2
  <1>5. ~Restart
    BY DEF Restart, Idle
  <1>6. ASSUME task' = task, UNCHANGED <<db, blob, file>> PROVE Goal
    BY <1>6
  <1>7. \/ Disturbs
        \/ task' = task /\ UNCHANGED <<db, blob, file>>
        \/ \E w \in Worker : Ask(w) \/ Work(w)
        \/ Restart
    BY DEF Next, SwitchToSame, CloseDb, OpenDb, OpenFails, SetBaseUrl, Seal, Open, Disturbs,
           tables, vars
  <1> HIDE DEF Fresh
  <1>8. Goal
    BY <1>1, <1>2, <1>3, <1>4, <1>5, <1>6, <1>7
  <1> QED  BY <1>8 DEF Fresh

(* Read takes the table as it is.                                           *)
LEMMA ReadTable ==
  ASSUME CoreTyped, NEW w \in Worker, Read(w), UnlinkedOf(w)
  PROVE  (ReadBackOf(w) /\ FoundOf(w) /\ UnlinkedOf(w))'
  <1>1. DOMAIN task = Worker /\ DOMAIN task[w] = Fields
    BY DEF CoreTyped, TaskTyped, Works, Task, Fields
  <1>2. /\ task'[w].list = Blob(db, task[w].table) /\ task'[w].table = task[w].table
        /\ task'[w].alone = task[w].alone /\ task'[w].op = task[w].op
        /\ task'[w].entry = task[w].entry /\ task'[w].stuck = task[w].stuck
        /\ task[w].pc = "read" /\ task'[w].pc = "write"
    BY <1>1 DEF Read, Fields
  <1>3. UNCHANGED <<db, blob, file>>
    BY DEF Read, tables
  <1> QED  BY <1>2, <1>3 DEF ReadBackOf, FoundOf, UnlinkedOf, Gone, Blob

(* Find takes the table as it is.                                           *)
LEMMA FindTable ==
  ASSUME CoreTyped, NEW w \in Worker, Find(w)
  PROVE  (ReadBackOf(w) /\ FoundOf(w) /\ UnlinkedOf(w))'
  <1>1. DOMAIN task = Worker /\ DOMAIN task[w] = Fields
    BY DEF CoreTyped, TaskTyped, Works, Task, Fields
  <1>2. task'[w].list = Blob(db, "records") /\ task'[w].pc = "unlink"
    BY <1>1 DEF Find, Fields
  <1>3. UNCHANGED <<db, blob>>
    BY DEF Find, tables
  <1> QED  BY <1>2, <1>3 DEF ReadBackOf, FoundOf, UnlinkedOf, Blob

(* Unlink takes the file of every record of the book.                       *)
LEMMA UnlinkTable ==
  ASSUME CoreTyped, NoDuplicateRecords, NEW w \in Worker, Unlink(w), FoundOf(w)
  PROVE  (ReadBackOf(w) /\ FoundOf(w) /\ UnlinkedOf(w))'
  <1> DEFINE b == task[w].entry.book
             l == task[w].list
             gone == Paths(b, l)
             lost(v) == task[v].linked /\ task[v].entry.book = b /\ task[v].entry.at \in gone
  <1>1. DOMAIN task = Worker /\ DOMAIN task[w] = Fields
    BY DEF CoreTyped, TaskTyped, Works, Task, Fields
  <1>2. /\ file' = [r \in Root |-> IF r \in gone THEN [file[r] EXCEPT ![b] = "absent"]
                                   ELSE file[r]]
        /\ task' = [v \in Worker |-> IF v = w THEN [task[v] EXCEPT !.pc = "read"]
                                     ELSE [task[v] EXCEPT !.linked = @ /\ ~lost(v)]]
        /\ db' = db /\ blob' = blob
    BY DEF Unlink, tables
  <1>3. l \in Seq(Entry) /\ Distinct(l)
    BY DEF CoreTyped, TaskTyped, Works, Task, NoDuplicateRecords
  <1> HIDE DEF l, lost
  <1>4. /\ task'[w].pc = "read" /\ task'[w].entry = task[w].entry
        /\ task'[w].alone = task[w].alone /\ task[w].pc = "unlink"
    BY <1>1, <1>2 DEF Fields, Unlink
  <1>5. ASSUME NEW n \in DOMAIN l, l[n].book = b
        PROVE  file'[l[n].at][l[n].book] = "absent"
    <2>1. l[n] \in Entry
      BY <1>3
    <2>2. l[n].at \in gone /\ l[n].at \in Root /\ b \in Book
      BY <1>3, <1>5, <2>1, PathsAreAll DEF Entry
    <2>3. file[l[n].at] \in [Book -> Content]
      BY <2>2 DEF CoreTyped, DataTyped
    <2> HIDE DEF gone, b
    <2> QED  BY <1>2, <1>5, <2>2, <2>3
  <1>6. task[w].alone => Blob(db, "records")' = l
    BY <1>2, <1>4 DEF Blob, l, FoundOf
  <1>7. task[w].alone => Gone(b)'
    BY <1>4, <1>5, <1>6 DEF Gone
  <1> QED  BY <1>4, <1>7 DEF ReadBackOf, FoundOf, UnlinkedOf

(* Every step keeps what is said of work on a table.                        *)
LEMMA TableInvNext ==
  ASSUME CoreTyped, NoDuplicateRecords, Alone, TableInv, [Next]_vars
  PROVE  TableInv'
  <1> SUFFICES ASSUME NEW v \in Worker PROVE (ReadBackOf(v) /\ FoundOf(v) /\ UnlinkedOf(v))'
    BY DEF TableInv
  <1>0. Shape /\ task[v] \in Works
    BY DEF Alone, CoreInv, CoreTyped, TaskTyped
  <1>1. CASE ~task'[v].alone \/ task'[v].pc = "idle"
    BY <1>1 DEF ReadBackOf, FoundOf, UnlinkedOf
  <1>2. CASE /\ task'[v].pc \in {"read", "write"} => task'[v].op # "delete"
             /\ task'[v].pc = "write" => task'[v].op = "save"
             /\ task'[v].pc # "unlink"
    BY <1>2 DEF ReadBackOf, FoundOf, UnlinkedOf
  <1>3. CASE task'[v] = task[v] /\ UNCHANGED <<db, blob, file>>
    BY <1>3 DEF TableInv, ReadBackOf, FoundOf, UnlinkedOf, Gone, Blob
  <1>4. CASE Work(v) /\ ~Complete(v)
    <2>1. CASE Ensure(v) \/ Send(v) \/ NothingToUpload(v)
      <3>1. task'[v].pc \in {"send", "done"}
        BY <1>0, <2>1 DEF Shape, Fields, Ensure, Send, NothingToUpload, Done
      <3> QED  BY <3>1 DEF ReadBackOf, FoundOf, UnlinkedOf
    <2>2. CASE Read(v)
      BY <2>2, ReadTable DEF TableInv
    <2>3. CASE Unlink(v)
      BY <2>3, UnlinkTable DEF TableInv
    <2>6. CASE Find(v)
      BY <2>6, FindTable
    <2>7. CASE UnlinkFails(v)
      <3>1. task'[v].pc = "read" /\ task'[v].stuck
        BY <1>0, <2>7 DEF Shape, Fields, UnlinkFails
      <3> QED  BY <3>1 DEF ReadBackOf, FoundOf, UnlinkedOf
    <2>4. CASE Write(v)
      <3>1. task'[v].op = task[v].op
        BY <1>0, <2>4, TableStep DEF Stepped, Own
      <3>2. /\ task'[v].pc \in {"read", "done"}
            /\ task'[v].pc = "read" => task[v].op = "history"
        BY <1>0, <2>4 DEF Shape, Fields, Write, Done
      <3> QED  BY <3>1, <3>2 DEF ReadBackOf, FoundOf, UnlinkedOf
    <2>5. CASE \/ Prepare(v) \/ Check(v) \/ FetchFails(v) \/ Fetch(v) \/ Lost(v) \/ Validate(v)
               \/ \E body \in {"page", "doctype", "whole"}, success \in BOOLEAN :
                    Received(v, body, success)
      <3>1. task'[v].pc \in {"check", "fetch", "transfer", "validate", "done"}
        BY <1>0, <2>5, DownloadStep
      <3> QED  BY <3>1 DEF ReadBackOf, FoundOf, UnlinkedOf
    <2> QED  BY <1>4, <2>1, <2>2, <2>3, <2>4, <2>5, <2>6, <2>7 DEF Work
  <1> QED  BY <1>1, <1>2, <1>3, <1>4, AloneStep

TablesInv == CoreTyped /\ NoDuplicateRecords /\ Alone /\ TableInv

(* There is no work at start.                                               *)
LEMMA TablesInit == Init => TablesInv
  <1> SUFFICES ASSUME Init PROVE TablesInv
    OBVIOUS
  <1>1. TableInv
    BY DEF Init, Idle, TableInv, ReadBackOf, FoundOf, UnlinkedOf
  <1> QED  BY <1>1, CoreTypedInit, DistinctInit, AloneInit DEF TablesInv

(* The four parts carry each other.                                         *)
LEMMA TablesNext == TablesInv /\ [Next]_vars => TablesInv'
  BY CoreTypedNext, DistinctNext, AloneNext, TableInvNext DEF TablesInv

(* Only the work that is alone can be the one that writes.                  *)
LEMMA WriterAlone ==
  ASSUME TablesInv, [Next]_vars, NEW w \in Worker,
         task[w].alone, task[w].pc = "write", blob' # blob
  PROVE  Updates(w)
  <1>1. PICK v \in Worker : Updates(v)
    BY TablesChange DEF TablesInv
  <1>2. task[v].pc = "write"
    BY <1>1 DEF Updates, Write
  <1> QED  BY <1>1, <1>2 DEF TablesInv, Alone, CoreInv, Solo

(* What is written back has the other books of what was read.               *)
LEMMA UpdatedOthers ==
  ASSUME NEW op, NEW t, NEW e \in Entry, NEW l \in Seq(Entry), op # "save"
  PROVE  Without(e.book, Updated(op, t, e, l)) = Without(e.book, l)
  <1> DEFINE S == {x \in Entry : x.book # e.book}
             r == Only(l, S)
  <1>1. \A m : Without(e.book, m) = Only(m, S)
    BY DEF Without
  <1>2. Only(r, S) = r
    BY OnlyTwice
  <1>3. r \in Seq(Entry)
    BY OnlyOrder
  <1>4. Only(<<e>> \o r, S) = Only(r, S)
    <2>1. e \notin S
      OBVIOUS
    <2> HIDE DEF S, r
    <2> QED  BY <1>3, <2>1, OnlyInFront
  <1>5. Updated(op, t, e, l) \in {r, l, <<e>> \o r}
    BY <1>1 DEF Updated, Put
  <1> HIDE DEF S, r
  <1> QED  BY <1>1, <1>2, <1>4, <1>5 DEF r

(* An update that nothing overlapped changes the record of no other book:   *)
(* addDownloadRecord, removeDownloadRecord, updateDownloadProgress and      *)
(* recordReadingHistory, which read a whole table and write it back.        *)
THEOREM OthersSafe == Spec => OthersKept
  <1> DEFINE Stays(r, t, w) ==
        task[w].alone /\ task[w].pc = "write" /\ task'[w].pc # "write" /\ task'[w].op # "none"
        => Without(task[w].entry.book, blob'[r][t]) = Without(task[w].entry.book, blob[r][t])
  <1>1. ASSUME TablesInv, [Next]_vars, NEW r \in Root, NEW t \in {"records", "history"},
               NEW w \in Worker
        PROVE  Stays(r, t, w)
    <2> SUFFICES ASSUME task[w].alone, task[w].pc = "write", blob' # blob
                 PROVE  Without(task[w].entry.book, blob'[r][t])
                        = Without(task[w].entry.book, blob[r][t])
      OBVIOUS
    <2> DEFINE k == task[w]
               u == Updated(k.op, k.table, k.entry, k.list)
    <2>1. Updates(w)
      BY <1>1, WriterAlone
    <2>2. /\ db \in Root /\ k.entry \in Entry /\ k.table \in Table /\ k.list \in Seq(Entry)
          /\ blob' = [blob EXCEPT ![db][k.table] = u]
      BY <2>1 DEF Updates
    <2>3. k \in Works /\ blob \in [Root -> [Table -> Seq(Entry)]]
      BY <1>1 DEF TablesInv, CoreTyped, TaskTyped, DataTyped
    <2>4. t \in Table
      BY DEF Table
    <2> HIDE DEF u
    <2>5. CASE r = db /\ t = k.table
      <3>1. k.op # "save"
        BY <2>3, <2>5 DEF Works, Placed
      <3>2. k.list = blob[db][k.table]
        BY <1>1, <2>2, <3>1, NoneIsNone DEF TablesInv, TableInv, ReadBackOf, Blob
      <3>3. blob'[r][t] = u
        BY <2>2, <2>3, <2>4, <2>5
      <3>4. Without(k.entry.book, u) = Without(k.entry.book, k.list)
        BY <2>2, <3>1, UpdatedOthers DEF u
      <3> QED  BY <2>5, <3>2, <3>3, <3>4
    <2>6. CASE ~(r = db /\ t = k.table)
      <3>1. blob'[r][t] = blob[r][t]
        BY <2>2, <2>3, <2>4, <2>6
      <3> QED  BY <3>1
    <2> QED  BY <2>5, <2>6
  <1>2. TablesInv /\ [Next]_vars =>
          \A r \in Root, t \in {"records", "history"}, w \in Worker : Stays(r, t, w)
    BY <1>1
  <1> QED  BY <1>2, TablesInit, TablesNext, PTL DEF Spec, OthersKept

(* A deletion that nothing overlapped takes the record away only when the   *)
(* file that the record names is gone, unless std::remove failed, whose     *)
(* result deleteDownloadRecord does not look at.                            *)
THEOREM FileFirst == Spec => FileGoesFirst
  <1> DEFINE Removed(w) ==
        /\ task[w].op = "delete" /\ task[w].alone /\ ~task[w].stuck
        /\ task[w].pc = "write" /\ blob' # blob
        => \A n \in DOMAIN blob[db]["records"] :
             LET e == blob[db]["records"][n]
             IN  e.book = task[w].entry.book => file[e.at][e.book] = "absent"
  <1>1. ASSUME TablesInv, [Next]_vars, NEW w \in Worker PROVE Removed(w)
    <2> SUFFICES ASSUME task[w].op = "delete", task[w].alone, ~task[w].stuck,
                        task[w].pc = "write", blob' # blob
                 PROVE  \A n \in DOMAIN blob[db]["records"] :
                          LET e == blob[db]["records"][n]
                          IN  e.book = task[w].entry.book => file[e.at][e.book] = "absent"
      OBVIOUS
    <2>1. db \in Root
      BY <1>1, WriterAlone DEF Updates
    <2>2. Blob(db, "records") = blob[db]["records"]
      BY <2>1, NoneIsNone DEF Blob
    <2>3. Gone(task[w].entry.book)
      BY <1>1 DEF TablesInv, TableInv, UnlinkedOf
    <2> QED  BY <2>2, <2>3 DEF Gone
  <1>2. TablesInv /\ [Next]_vars => \A w \in Worker : Removed(w)
    BY <1>1
  <1> QED  BY <1>2, TablesInit, TablesNext, PTL DEF Spec, FileGoesFirst
=============================================================================
