------------------------------ MODULE NativeText ------------------------------
(***************************************************************************)
(* What libmybooks_core computes from text and bytes: its JSON             *)
(* (json_util.cpp), the fields that ArkTS joins with bars (napi_init.cpp), *)
(* the requests behind the calls (api_service.cpp), server addresses       *)
(* (http_client.cpp), zip archives (epub_parser.cpp) and sealed secrets    *)
(* (secure_crypto.cpp); and the pages of libentry (talebook_api.cpp).      *)
(*                                                                         *)
(* A text is a sequence of characters, one-letter strings.  White space    *)
(* between the tokens of JSON is left out: nobody writes any.              *)
(***************************************************************************)
EXTENDS Integers, Lists, SequencesExt, FiniteSetsExt

CONSTANTS
  EocdSize, MaxComment,             \* bytes of parts of an archive: 22, 65535,
  HeaderSize, LocalSize,            \* 46, 30
  IvLen, TagLen,                    \* bytes of parts of a sealed secret: 12, 16
  Char,                             \* characters of texts
  Texts,                            \* texts in JSON
  FieldTexts,                       \* texts of the fields of a call
  Batches,                          \* lists of files to upload
  Pages, Limits,                    \* pages of a list, and how long they can be
  Hosts, Routes,                    \* of servers
  Directories,                      \* central directories, lists of headers
  Sizes,                            \* of files, and numbers read from them
  Bytes                             \* values of bytes

\* A file to upload; a text that is empty is missing.
File == [path : STRING, name : STRING, relative : STRING]

Quote == "\""
Back == "\\"
Line == "\n"
Bar == "|"

\* Characters that the code itself writes.
Written == {Quote, Back, Line, Bar, "n", ",", ":", "{", "}", "[", "]", "/", "h", "_", " ", "p"}

\* Keys of the objects below, one letter each.
Keys == {"c", "i", "x", "z"}

HasScheme(s) == \E n \in 1..(Len(s) - 2) : SubSeq(s, n, n + 2) = <<":", "/", "/">>

ASSUME InputsOK ==
  /\ {EocdSize, HeaderSize, LocalSize} \subseteq Nat \ {0} /\ {MaxComment, IvLen, TagLen} \subseteq Nat
  /\ Written \cup Keys \subseteq Char
  /\ Texts \subseteq Seq(Char) /\ FieldTexts \subseteq Seq(Char)
  /\ Batches \subseteq Seq(File)
  /\ Pages \in Nat /\ Limits \subseteq Nat \ {0}
  /\ Hosts \subseteq {h \in Seq(Char) : h # <<>> /\ h[Len(h)] # "/" /\ ~HasScheme(h)}
  /\ Routes \subseteq {h \in Seq(Char) : h # <<>> => h[1] # "/"}
  /\ Directories \subseteq Seq([name : Seq(Char), rest : Nat])
  /\ Sizes \subseteq Nat /\ Bytes \subseteq 0..255

NoChar == "none"

First(S, default) == IF S = {} THEN default ELSE Min(S)

-----------------------------------------------------------------------------
(* JSON.                                                                    *)

\* Mutant: a backslash is written as it is.
EscapedQuoteOnly(c) == CASE c = Quote -> <<Back, Quote>>
                         [] c = Line -> <<Back, "n">>
                         [] OTHER -> <<c>>

Escaped(c) == CASE c = Quote -> <<Back, Quote>>
                [] c = Back -> <<Back, Back>>
                [] c = Line -> <<Back, "n">>
                [] OTHER -> <<c>>

\* jsonEscape; of its five escapes two line ends and the tab are one here.
Escape(s) == FlattenSeq([n \in DOMAIN s |-> Escaped(s[n])])

Quoted(s) == <<Quote>> \o Escape(s) \o <<Quote>>

Joined(items, sep) ==
  FlattenSeq([n \in DOMAIN items |-> IF n = 1 THEN items[n] ELSE sep \o items[n]])

\* jsonStringify, of the members in the order of their keys.
Stringify(members) ==
  <<"{">> \o Joined([n \in DOMAIN members |->
                      Quoted(members[n][1]) \o <<":">> \o Quoted(members[n][2])], <<",">>) \o <<"}">>

StringifyArray(items) == <<"[">> \o Joined(items, <<",">>) \o <<"]">>

At(s, p) == IF p \in DOMAIN s THEN s[p] ELSE NoChar

NoString(s) == [ok |-> FALSE, value |-> <<>>, next |-> Len(s) + 1]

\* parseJsonStringValue: from the quote at p to the first one that no backslash
\* escapes; the letter after a backslash stands for itself, or for a line end.
ParseString(s, p) ==
  LET escaped[n \in p..Len(s)] == n > p + 1 /\ s[n - 1] = Back /\ ~escaped[n - 1]
      close == First({n \in (p + 1)..Len(s) : s[n] = Quote /\ ~escaped[n]}, 0)
      char(n) == CASE ~escaped[n] /\ s[n] = Back -> <<>>
                   [] escaped[n] /\ s[n] = "n" -> <<Line>>
                   [] OTHER -> <<s[n]>>
  IN  IF At(s, p) # Quote \/ close = 0 THEN NoString(s)
      ELSE [ok |-> TRUE, next |-> close + 1,
            value |-> FlattenSeq([k \in 1..(close - p - 1) |-> char(p + k)])]

\* jsonGetString: what follows the first occurrence of the key.
GetString(s, k) ==
  LET needle == <<Quote>> \o k \o <<Quote>>
      found == First({n \in 1..(Len(s) - Len(needle)) :
                        SubSeq(s, n, n + Len(needle) - 1) = needle}, 0)
      after == found + Len(needle)
  IN  IF found = 0 \/ At(s, after) # ":" THEN NoString(s) ELSE ParseString(s, after + 1)

\* Mutant: an object ends at its first brace.
FirstBrace(s, p) == First({n \in p..Len(s) : s[n] = "}"}, Len(s))

\* The end of the object at p: braces are counted, in strings too.
ObjectEnd(s, p) ==
  LET depth[n \in (p - 1)..Len(s)] ==
        IF n < p THEN 0
        ELSE depth[n - 1] + (CASE s[n] = "{" -> 1 [] s[n] = "}" -> -1 [] OTHER -> 0)
  IN  First({n \in p..Len(s) : depth[n] = 0}, Len(s))

\* The end of a number or a word.
WordEnd(s, p, closing) == First({n \in p..Len(s) : s[n] \in {",", closing}}, Len(s) + 1) - 1

SkipComma(s, p) == IF At(s, p) = "," THEN p + 1 ELSE p

\* jsonParseArray: the texts of its items.
ParseArray(s) ==
  LET string(p) == ParseString(s, p)
      end(p) == CASE s[p] = Quote -> string(p).next - 1
                  [] s[p] = "{" -> ObjectEnd(s, p)
                  [] OTHER -> WordEnd(s, p, "]")
      item(p) == CASE s[p] # Quote -> <<SubSeq(s, p, end(p))>>
                   [] s[p] = Quote /\ string(p).ok -> <<Quoted(string(p).value)>>
                   [] OTHER -> <<>>
      items[p \in 1..(Len(s) + 1)] ==
        IF At(s, p) \in {"]", NoChar} THEN <<>>
        ELSE item(p) \o items[SkipComma(s, end(p) + 1)]
  IN  IF At(s, 1) = "[" THEN items[2] ELSE <<>>

\* jsonParseObject: its members, in the order of the text.
ParseObject(s) ==
  LET key(p) == ParseString(s, p)
      from(p) == key(p).next + 1
      string(p) == ParseString(s, from(p))
      quoted(p) == At(s, from(p)) = Quote
      end(p) == IF quoted(p) THEN string(p).next - 1 ELSE WordEnd(s, from(p), "}")
      member(p) == CASE ~quoted(p) -> <<<<key(p).value, SubSeq(s, from(p), end(p))>>>>
                     [] quoted(p) /\ string(p).ok -> <<<<key(p).value, string(p).value>>>>
                     [] OTHER -> <<>>
      members[p \in 1..(Len(s) + 1)] ==
        IF ~key(p).ok \/ At(s, key(p).next) # ":" THEN <<>>
        ELSE member(p) \o members[SkipComma(s, end(p) + 1)]
  IN  IF At(s, 1) = "{" THEN members[2] ELSE <<>>

\* updateDownloadProgress puts the progress before the last brace of a record.
WithProgress(record, progress) ==
  LET last == Max({0} \cup {n \in DOMAIN record : record[n] = "}"})
  IN  IF last = 0 THEN record
      ELSE SubSeq(record, 1, last - 1) \o <<",", Quote, "p", Quote, ":">> \o progress \o <<"}">>

-----------------------------------------------------------------------------
(* Calls: the fields of one text, and the request they become.              *)

\* Mutant: the search for the next bar begins at the last one.
SameBar(s, p) == First({n \in DOMAIN s : n >= p /\ s[n] = Bar}, Len(s) + 1)

\* find('|', p + 1): the next bar, or none.
NextBar(s, p) == First({n \in DOMAIN s : n > p /\ s[n] = Bar}, Len(s) + 1)

\* Fields that a call needs, and fields that it takes, from its one text.
TalebookArity(call) ==
  CASE call = "TalebookGet" -> <<1, 2>>
    [] call \in {"TalebookDelete", "TalebookUploadBookBatch"} -> <<1, 1>>
    [] call \in {"TalebookPost", "TalebookPostForm", "TalebookDeleteWithBody",
                 "TalebookPatch", "TalebookPut"} -> <<2, 2>>
    [] call = "TalebookUploadBook" -> <<3, 3>>
    [] call = "TalebookUploadFile" -> <<4, 5>>
    [] call = "TalebookUploadFiles" -> <<2, 3>>

StoreArity(call) ==
  CASE call \in {"GetDownloadRecords", "GetReadingHistory", "GetReaderConfig"} -> <<0, 0>>
    [] call \in {"SecureSet", "KvSet"} -> <<2, 2>>
    [] OTHER -> <<1, 1>>

AdminArity(call) ==
  CASE call \in {"AdminTrashBooks", "AdminTrashSize", "AdminTrashClear", "AdminImportCancel",
                 "AdminSyslog", "AdminResources", "AdminToolList"} -> <<0, 0>>
    [] call \in {"AdminTrashRestore", "AdminTrashPurge", "AdminImportDelete",
                 "AdminMemoDelete"} -> <<1, 1>>
    [] call \in {"AdminBookReviewAction", "AdminImportRun", "AdminToolAction",
                 "AdminMemoList"} -> <<2, 2>>
    [] call \in {"AdminBookReviews", "AdminImportList", "AdminMemoAction"} -> <<3, 3>>

TalebookCall == {"TalebookGet", "TalebookPost", "TalebookPostForm", "TalebookDelete",
                 "TalebookDeleteWithBody", "TalebookPatch", "TalebookPut", "TalebookUploadFile",
                 "TalebookUploadBook", "TalebookUploadBookBatch", "TalebookUploadFiles"}

StoreCall == {"GetDownloadRecords", "AddDownloadRecord", "DeleteDownloadRecord",
              "GetReadingHistory", "RecordReadingHistory", "GetReaderConfig", "SaveReaderConfig",
              "DownloadBookLocal", "SecureSet", "SecureGet", "KvSet", "KvGet", "SonovelGet"}

Arity(call) == CASE call \in TalebookCall -> TalebookArity(call)
                 [] call \in StoreCall -> StoreArity(call)
                 [] OTHER -> AdminArity(call)

\* The fields of the input of a call, or nothing if it is invalid.
Fields(call, s) ==
  LET least == Arity(call)[1]
      most == Arity(call)[2]
      first == NextBar(s, 0)
      second == NextBar(s, first)
      third == NextBar(s, second)
      bars == <<first, second, third, NextBar(s, third)>>
      start(n) == IF n = 1 THEN 0 ELSE bars[n - 1]
      end(n) == IF n = most THEN Len(s) + 1 ELSE bars[n]
  IN  IF most = 0 \/ (least > 1 /\ start(least) > Len(s)) THEN <<>>
      ELSE [n \in 1..most |-> SubSeq(s, start(n) + 1, end(n) - 1)]

\* Bars that NativeCore.ets replaces: in file names and in extra form fields.
NamesCleaned == {<<"TalebookUploadBook", 2>>, <<"TalebookUploadFile", 4>>}
FieldsCleaned == {<<"TalebookUploadFile", 5>>, <<"TalebookUploadFiles", 3>>}

Cleaned(call, n) == <<call, n>> \in NamesCleaned \cup FieldsCleaned

CleanField(call, n, f) ==
  LET bar == CASE <<call, n>> \in NamesCleaned -> "_"
               [] <<call, n>> \in FieldsCleaned -> " "
               [] OTHER -> Bar
  IN  [m \in DOMAIN f |-> IF f[m] = Bar THEN bar ELSE f[m]]

\* What NativeCore.ets hands over.
Input(call, fields) == Joined([n \in DOMAIN fields |-> CleanField(call, n, fields[n])], <<Bar>>)

\* Fields that NativeCore.ets joins; a path of talebookGet goes alone.
Given(call) == IF call = "TalebookGet" THEN 1 ELSE Arity(call)[2]

Request(method, path, sends) == [method |-> method, path |-> path, sends |-> sends]

\* The request of an administration call, and the parts of it that are fields.
AdminRequest(call) ==
  CASE call = "AdminTrashBooks" -> Request("GET", "/api/admin/trash/books", <<>>)
    [] call = "AdminTrashSize" -> Request("GET", "/api/admin/trash/size", <<>>)
    [] call = "AdminTrashRestore" -> Request("POST", "/api/admin/trash/books/restore", <<"book_ids">>)
    [] call = "AdminTrashPurge" -> Request("POST", "/api/admin/trash/books/purge", <<"book_ids">>)
    [] call = "AdminTrashClear" -> Request("POST", "/api/admin/trash/clear", <<>>)
    [] call = "AdminBookReviews" ->
         Request("GET", "/api/admin/book-reviews", <<"status", "page", "page_size">>)
    [] call = "AdminBookReviewAction" ->
         Request("POST", "/api/admin/book-reviews", <<"id", "action">>)
    [] call = "AdminImportList" ->
         Request("GET", "/api/admin/import/list", <<"page", "num", "filter">>)
    [] call = "AdminImportRun" -> Request("POST", "/api/admin/import/run", <<"filelist", "force">>)
    [] call = "AdminImportCancel" -> Request("POST", "/api/admin/import/cancel", <<>>)
    [] call = "AdminImportDelete" -> Request("POST", "/api/admin/import/delete", <<"hashlist">>)
    [] call = "AdminSyslog" -> Request("GET", "/api/admin/syslog", <<>>)
    [] call = "AdminResources" -> Request("GET", "/api/admin/resources", <<>>)
    [] call = "AdminToolList" -> Request("GET", "/api/toolbox/list", <<>>)
    [] call = "AdminToolAction" -> Request("POST", "/api/toolbox", <<"id", "action">>)
    [] call = "AdminMemoList" -> Request("GET", "/api/user/memo", <<"page", "page_size">>)
    [] call = "AdminMemoAction" -> Request("POST", "/api/user/memo", <<"id", "action", "reply">>)
    [] call = "AdminMemoDelete" -> Request("DELETE", "/api/user/memo", <<"id">>)

AdminCall == {"AdminTrashBooks", "AdminTrashSize", "AdminTrashRestore", "AdminTrashPurge",
              "AdminTrashClear", "AdminBookReviews", "AdminBookReviewAction", "AdminImportList",
              "AdminImportRun", "AdminImportCancel", "AdminImportDelete", "AdminSyslog",
              "AdminResources", "AdminToolList", "AdminToolAction", "AdminMemoList",
              "AdminMemoAction", "AdminMemoDelete"}

\* Mutant: a file that is left out keeps its path in the batch.
AllPaths(files) == [n \in DOMAIN files |-> files[n].name]

Valid(f) == f.path # "" /\ f.name # ""

\* Paths of a batch of uploads, one for each part: the name stands in for none.
RelativePaths(files) ==
  LET valid == Only(files, {f \in File : Valid(f)})
  IN  [n \in DOMAIN valid |-> IF valid[n].relative # "" THEN valid[n].relative ELSE valid[n].name]

\* Parts of a batch.
UploadParts(files) == Only(files, {f \in File : Valid(f)})

\* Mutant: the page is the offset.
OffsetByPage(page, limit) == page * limit

\* getAllBooks: the server counts books, the caller pages from 1.
Offset(page, limit) == (IF page > 0 THEN page - 1 ELSE 0) * (IF limit > 0 THEN limit ELSE 20)

-----------------------------------------------------------------------------
(* Server addresses.                                                        *)

Scheme == <<"h", ":", "/", "/">>

\* Mutant: one slash is taken off.
StripOne(s) == IF s # <<>> /\ Last(s) = "/" THEN Front(s) ELSE s

StripSlashes(s) == SubSeq(s, 1, Max({0} \cup {n \in DOMAIN s : s[n] # "/"}))

\* HttpClient::setBaseUrl.
BaseUrl(s) ==
  LET host == StripSlashes(s)
  IN  IF host = <<>> \/ HasScheme(host) THEN host ELSE Scheme \o host

\* HttpClient::resolveUrl, for a path that is no address itself.
ResolveUrl(base, path) ==
  CASE base = <<>> -> path
    [] At(path, 1) = "/" -> base \o path
    [] OTHER -> base \o <<"/">> \o path

-----------------------------------------------------------------------------
(* Zip archives.  A record of the end of the central directory has EocdSize *)
(* bytes, its comment at most MaxComment, a local header LocalSize, one in  *)
(* the central directory HeaderSize, its name and the rest: extra field and *)
(* comment.                                                                 *)

\* Mutant: the search is one byte short.
SearchedShort(size) == {i \in 0..(size - EocdSize) : i > size - Min({size, EocdSize + MaxComment})}

\* Offsets at which findEocd looks for the signature.
Searched(size) == {i \in 0..(size - EocdSize) : i + 1 > size - Min({size, EocdSize + MaxComment})}

\* findEocd: the last signature, or -1.
FindEocd(size, signatures) == Max({-1} \cup (Searched(size) \cap signatures))

\* Where the headers of a central directory begin that starts at start: header n
\* at DirectoryAt(headers, start)[n - 1], what is behind the last one at the end.
DirectoryAt(headers, start) ==
  LET at[n \in 0..Len(headers)] ==
        IF n = 0 THEN start
        ELSE at[n - 1] + HeaderSize + Len(headers[n].name) + headers[n].rest
  IN  at

\* hasEntry: the names that it reads in a file with these headers at these
\* offsets.  The walk ends at a header that has no signature or leaves the file
\* with its fixed part or its name; extra field and comment may leave it.
EntriesRead(zip, start, total) ==
  LET Readable(o) == /\ o \in DOMAIN zip.header /\ o + HeaderSize <= zip.size
                     /\ o + HeaderSize + Len(zip.header[o].name) <= zip.size
      at[n \in 0..total] ==
        IF n = 0 THEN start
        ELSE IF ~Readable(at[n - 1]) THEN at[n - 1]
        ELSE at[n - 1] + HeaderSize + Len(zip.header[at[n - 1]].name) + zip.header[at[n - 1]].rest
  IN  {zip.header[o].name : o \in {p \in {at[n - 1] : n \in 1..total} : Readable(p)}}

\* Mutant: the data is taken as long as its header says.
Trusting(size, local, entry) ==
  [from |-> local.at + LocalSize + local.skip, bytes |-> entry.compressed]

\* extractEntry: the bytes of the file that are taken for the data of an entry,
\* none if its local header or its data do not lie within the file.
DataOf(size, local, entry) ==
  LET from == local.at + LocalSize + local.skip
      bytes == IF local.compressed = 0 \/ local.described THEN entry.compressed ELSE local.compressed
  IN  IF local.at + LocalSize > size \/ from + bytes > size THEN [from |-> 0, bytes |-> 0]
      ELSE [from |-> from, bytes |-> bytes]

-----------------------------------------------------------------------------
(* Sealed secrets, with an iv of IvLen bytes and a tag of TagLen.           *)

Digits == <<"0", "1", "2", "3", "4", "5", "6", "7", "8", "9", "a", "b", "c", "d", "e", "f">>
Upper == <<"A", "B", "C", "D", "E", "F">>

ToHex(bytes) ==
  [n \in 1..(2 * Len(bytes)) |->
    LET b == bytes[(n + 1) \div 2] IN Digits[(IF n % 2 = 1 THEN b \div 16 ELSE b % 16) + 1]]

Nibble(c) ==
  CASE Contains(Digits, c) -> CHOOSE n \in 0..15 : Digits[n + 1] = c
    [] Contains(Upper, c) -> CHOOSE n \in 10..15 : Upper[n - 9] = c
    [] OTHER -> -1

\* FromHex: nothing for an odd length or a character that is no digit.
FromHex(s) ==
  IF Len(s) % 2 # 0 \/ (\E n \in DOMAIN s : Nibble(s[n]) < 0) THEN <<>>
  ELSE [n \in 1..(Len(s) \div 2) |-> 16 * Nibble(s[2 * n - 1]) + Nibble(s[2 * n])]

\* SecureCrypto::seal: what becomes of iv, cipher text and tag.
SealedText(iv, cipher, tag) == ToHex(iv) \o ToHex(cipher) \o ToHex(tag)

\* Mutant: a sealed text without cipher text is too short.
OpensNonEmpty(s) ==
  IF Len(s) <= (IvLen + TagLen) * 2 THEN <<>>
  ELSE LET blob == FromHex(SubSeq(s, IvLen * 2 + 1, Len(s)))
       IN  <<FromHex(SubSeq(s, 1, IvLen * 2)), SubSeq(blob, 1, Len(blob) - TagLen),
             SubSeq(blob, Len(blob) - TagLen + 1, Len(blob))>>

\* SecureCrypto::open: iv, cipher text and tag of a sealed text, or nothing.
OpenedText(s) ==
  LET iv == FromHex(SubSeq(s, 1, IvLen * 2))
      blob == FromHex(SubSeq(s, IvLen * 2 + 1, Len(s)))
  IN  IF Len(s) < (IvLen + TagLen) * 2 \/ Len(iv) # IvLen \/ Len(blob) < TagLen THEN <<>>
      ELSE <<iv, SubSeq(blob, 1, Len(blob) - TagLen),
             SubSeq(blob, Len(blob) - TagLen + 1, Len(blob))>>

-----------------------------------------------------------------------------
(* What is to hold, for all texts, files and sizes out of the sets given.   *)

(* Members come back as they were written, in keys and values with quotes,  *)
(* backslashes, line ends and all that separates (jsonStringify,            *)
(* jsonParseObject).                                                        *)
ObjectRoundTrip ==
  \A k, v, u \in Texts :
    LET members == <<<<k, v>>, <<<<"z">> \o k, u>>>>
    IN  ParseObject(Stringify(members)) = members

(* Records come back from an array each as it was, and with its id, also    *)
(* after a progress was put into it and whatever quotes its texts hold; but *)
(* for braces in texts, which jsonParseArray counts (jsonStringifyArray,    *)
(* jsonParseArray, jsonGetString, updateDownloadProgress).                  *)
ArrayRoundTrip ==
  \A v, u \in {t \in Texts : {"{", "}"} \cap ToSet(t) = {}} :
    LET record(t) == Stringify(<<<<<<"i">>, t>>, <<<<"x">>, v>>>>)
        progress == Stringify(<<<<<<"c">>, u>>>>)
        items == <<WithProgress(record(u), progress), record(v),
                   WithProgress(WithProgress(record(v), progress), progress)>>
    IN  /\ ParseArray(StringifyArray(items)) = items
        /\ [n \in 1..3 |-> GetString(items[n], <<"i">>).value] = <<u, v, v>>

(* What was sealed is what is opened, the empty password too (SecureCrypto).*)
SealRoundTrip ==
  \A iv \in [1..IvLen -> Bytes], tag \in [1..TagLen -> Bytes], n \in Sizes :
    \A cipher \in [1..n -> Bytes] :
      OpenedText(SealedText(iv, cipher, tag)) = <<iv, cipher, tag>>

(* Every call gets the fields that ArkTS gave it, as long as only the last  *)
(* one that it takes holds bars that NativeCore does not replace, and an    *)
(* administration call sends as many (NativeCore.ets, napi_init.cpp,        *)
(* api_service.cpp).                                                        *)
FieldsArrive ==
  /\ \A call \in TalebookCall \cup StoreCall \cup AdminCall :
       \A fields \in [1..Given(call) -> FieldTexts] :
         (\A n \in 1..Given(call) :
            n = Arity(call)[2] \/ Cleaned(call, n) \/ ~Contains(fields[n], Bar))
         => SubSeq(Fields(call, Input(call, fields)), 1, Given(call))
              = [n \in 1..Given(call) |-> CleanField(call, n, fields[n])]
  /\ \A call \in AdminCall : Len(AdminRequest(call).sends) = Arity(call)[2]

(* Each part of a batch has its own path, whichever files are left out      *)
(* (talebookUploadBookBatch).                                               *)
PartsAligned ==
  \A files \in Batches :
    LET parts == UploadParts(files)
        paths == RelativePaths(files)
    IN  /\ Len(paths) = Len(parts)
        /\ \A n \in DOMAIN parts : paths[n] \in {parts[n].relative, parts[n].name}

(* Pages of any size hold every book once (getAllBooks).                    *)
PagesPartition ==
  \A limit \in Limits : \A book \in 0..(Pages * limit - 1) :
    Cardinality({page \in 1..Pages :
                   book \in Offset(page, limit)..(Offset(page, limit) + limit - 1)}) = 1

(* A server is the same however many slashes end its address and whether a  *)
(* path begins with one (setBaseUrl, resolveUrl).                           *)
SameServer ==
  \A host \in Hosts, path \in Routes, slashes \in Sizes :
    \A s \in {host, Scheme \o host}, p \in {path, <<"/">> \o path} :
      ResolveUrl(BaseUrl(s \o [n \in 1..slashes |-> "/"]), p) = Scheme \o host \o <<"/">> \o path

(* The end of the central directory is found behind every comment, the      *)
(* longest too, and in the shortest archive (findEocd).                     *)
EocdReached ==
  \A before \in Sizes, comment \in 0..MaxComment :
    FindEocd(before + EocdSize + comment, {before}) = before

(* Data taken from a file lie within it, whatever its headers say           *)
(* (extractEntry).                                                          *)
DataInside ==
  \A size, at, skip, c, d \in Sizes, described \in BOOLEAN :
    LET data == DataOf(size, [at |-> at, skip |-> skip, compressed |-> c, described |-> described],
                       [compressed |-> d])
    IN  data.from + data.bytes <= size

(* All entries of an archive are found, and no others: those that the end   *)
(* of the central directory counts, wherever it says that the directory     *)
(* starts, and the last one also if the file is cut behind its name         *)
(* (hasEntry).                                                              *)
EntriesFound ==
  \A headers \in Directories, start, behind \in Sizes :
    LET at == DirectoryAt(headers, start)
        Named(o) == CHOOSE n \in DOMAIN headers : at[n - 1] = o
        zip == [size |-> (IF headers = <<>> THEN start
                          ELSE at[Len(headers)] - headers[Len(headers)].rest) + behind,
                header |-> [o \in {at[n - 1] : n \in DOMAIN headers} |-> headers[Named(o)]]]
    IN  \A total \in 0..Len(headers) :
          EntriesRead(zip, start, total) = {headers[n].name : n \in 1..total}
=============================================================================
