---------------------------- MODULE ProfileFiles ----------------------------
(***************************************************************************)
(* JsonProfilePersistence: two files per profile, metadata.json and        *)
(* state.json, in a directory named after it.  A save opens the file,      *)
(* which empties it, and writes through the buffer of a QFile; nothing     *)
(* excludes other callers, and a caller can crash anywhere.                *)
(***************************************************************************)
EXTENDS Naturals, FiniteSets

CONSTANTS
    Callers,             \* threads or programs that use the same directory
    Texts,               \* names, descriptions and ids
    AsText,              \* what is left of a text that has been a QString
    SizeOf,              \* text -> its length
    BufferSize,          \* the longest text that fits into the buffer of a QFile
    Requests,            \* the calls considered
    FirstFiles           \* what the files may hold at first

CURRENT_SCHEMA_VERSION == 1
Parts == {"metadata", "state"}
Operations == [part : Parts, save : BOOLEAN]

\* ProfileMetadata (version, description) or ProfileState (selected_game_id;
\* enabled_packages and load_order).  Optional values are sets.
Values == [version : SUBSET Nat, text : SUBSET Texts, lists : SUBSET Texts]

\* What is in a file.  A number in JSON is counted in halves.
Contents ==
    [form : {"missing", "empty", "damaged", "document"}, version : SUBSET Nat,
     text : SUBSET Texts]

ASSUME TextsAssumption ==
    /\ AsText \in [Texts -> Texts] /\ SizeOf \in [Texts -> Nat] /\ BufferSize \in Nat
    /\ "" \in Texts /\ AsText[""] = ""
ASSUME RequestsAssumption ==
    \A r \in Requests : /\ r.operation \in Operations /\ r.name \in Texts
                        /\ r.value \in Values /\ Cardinality(r.value.text) <= 1
                        /\ r.operation = [part |-> "metadata", save |-> TRUE] =>
                              /\ r.value.version # {} /\ r.value.text # {}
                              /\ \A v, w \in r.value.version : v = w
                        /\ r.operation = [part |-> "state", save |-> TRUE] =>
                              r.value.version = {}

\* The path goes through a QString; the parent of a profile is not in it.
FileOf(r) == <<AsText[r.name], r.operation.part>>
Files == {FileOf(r) : r \in Requests}

ASSUME FilesAssumption == Requests # {} /\ FirstFiles \subseteq [Files -> Contents]

Codes ==
    {"ok", "FileNotFound", "AccessDenied", "InvalidFormat", "UnsupportedSchemaVersion",
     "WriteFailed"}

VARIABLES
    file,                \* file -> what it holds
    directories,         \* names of profiles that have a directory
    pc, request,         \* per caller: where its call is, what it asks for
    answer,              \* per caller: the code and the value returned
    \* history
    asked,               \* file -> its first contents, or what is written since it was opened
    undisturbed,         \* callers whose file nobody else had open since they opened it
    kept                 \* file -> the request of the save that ran undisturbed, if last

vars == <<file, directories, pc, request, answer, asked, undisturbed, kept>>
history == <<asked, undisturbed, kept>>

Bare(form) == [form |-> form, version |-> {}, text |-> {}]
Value(version, text) == [version |-> version, text |-> text, lists |-> {}]
NoValue == Value({}, {})
Answer(code, value) == [code |-> code, value |-> value]

NoRequest == CHOOSE r \in Requests : TRUE          \* of a caller that is idle

\* The document that a save makes.
ToJson(r) ==
    [form |-> "document",
     version |-> {2 * v : v \in r.value.version},
     text |-> IF r.value.text = {} THEN {""} ELSE {AsText[s] : s \in r.value.text}]

\* QJsonValue::toInt: 0 for a number that is not an integer.
toInt(halves) == IF halves % 2 = 0 THEN halves \div 2 ELSE 0

Supported(versions) == versions \subseteq 1 .. CURRENT_SCHEMA_VERSION

\* The parser's error not looked at (a mutated form).
IsAnything(content) == TRUE

\* No parse error, and the document is an object.
IsObject(content) == content.form = "document"

\* What loadMetadata or loadState makes of the bytes it read.
Loaded(part, content) ==
    LET versions == {toInt(h) : h \in content.version}
    IN  IF ~IsObject(content) THEN Answer("InvalidFormat", NoValue)
        ELSE IF part = "state"
        THEN Answer("ok", Value({}, content.text \ {""}))
        ELSE IF versions # {} /\ ~Supported(versions)
        THEN Answer("UnsupportedSchemaVersion", NoValue)
        ELSE IF versions = {} \/ content.text = {} THEN Answer("InvalidFormat", NoValue)
        ELSE Answer("ok", Value(versions, content.text))

Init ==
    /\ file \in FirstFiles
    /\ directories = {f[1] : f \in {f \in Files : file[f].form # "missing"}}
    /\ pc = [c \in Callers |-> "idle"]
    /\ request = [c \in Callers |-> NoRequest]
    /\ answer = [c \in Callers |-> Answer("ok", NoValue)]
    /\ asked = [f \in Files |-> {file[f]}]
    /\ undisturbed = {}
    /\ kept = [f \in Files |-> {}]

Goto(c, from, to) ==
    pc[c] = from /\ pc' = [pc EXCEPT ![c] = to] /\ UNCHANGED <<request, answer>>
Finish(c, reply) ==
    /\ pc' = [pc EXCEPT ![c] = "idle"]
    /\ request' = [request EXCEPT ![c] = NoRequest]
    /\ answer' = [answer EXCEPT ![c] = reply]
Fail(c, code) == Finish(c, Answer(code, NoValue))
Saves(c) == request[c].operation.save
My(c) == FileOf(request[c])
HasOpen(c, f) == pc[c] \in {"opened", "buffered"} /\ My(c) = f

Call(c) ==
    /\ pc[c] = "idle"
    /\ \E r \in Requests : request' = [request EXCEPT ![c] = r]
    /\ pc' = [pc EXCEPT ![c] = "called"]
    /\ answer' = [answer EXCEPT ![c] = Answer("ok", NoValue)]
    /\ UNCHANGED <<file, directories, history>>

-----------------------------------------------------------------------------
(* loadMetadata and loadState.                                             *)

LookForFile(c) ==
    /\ ~Saves(c) /\ pc[c] = "called"
    /\ IF file[My(c)].form = "missing"
       THEN Fail(c, "FileNotFound")
       ELSE Goto(c, "called", "found")
    /\ UNCHANGED <<file, directories, history>>

OpenToRead(c) ==
    /\ \/ Goto(c, "found", "reading")
       \/ pc[c] = "found" /\ Fail(c, "AccessDenied")
    /\ UNCHANGED <<file, directories, history>>

\* readAll and the checks; a read that fails gives no bytes.
Read(c) ==
    /\ pc[c] = "reading"
    /\ \E content \in {file[My(c)], Bare("empty")} :
          Finish(c, Loaded(request[c].operation.part, content))
    /\ UNCHANGED <<file, directories, history>>

-----------------------------------------------------------------------------
(* saveMetadata and saveState.                                             *)

\* create_directories takes the name as it is.
MakeDirectory(c) ==
    /\ Saves(c) /\ pc[c] = "called"
    /\ \/ Fail(c, "WriteFailed") /\ UNCHANGED directories
       \/ /\ directories' = directories \union {request[c].name}
          /\ Goto(c, "called", "made")
    /\ UNCHANGED <<file, history>>

\* For the properties: who else has the file open, and what may get into it now.
Disturb(c) ==
    LET others == {d \in Callers \ {c} : HasOpen(d, My(c))}
    IN  /\ undisturbed' = IF others = {} THEN undisturbed \union {c} ELSE undisturbed \ others
        /\ kept' = [kept EXCEPT ![My(c)] = {}]
        /\ asked' = [asked EXCEPT ![My(c)] = {ToJson(request[d]) : d \in others \union {c}}]

\* The file opened without being emptied (a mutated form).
OpenInPlace(c) ==
    /\ Goto(c, "made", "opened")
    /\ My(c)[1] \in directories
    /\ file' = [file EXCEPT ![My(c)] = IF @.form = "missing" THEN Bare("empty") ELSE @]
    /\ Disturb(c)

\* WriteOnly empties the file, which is created if its directory is there.
OpenToWrite(c) ==
    /\ Goto(c, "made", "opened")
    /\ My(c)[1] \in directories
    /\ file' = [file EXCEPT ![My(c)] = Bare("empty")]
    /\ Disturb(c)

Open(c) ==
    /\ \/ OpenToWrite(c)
       \/ pc[c] = "made" /\ Fail(c, "AccessDenied") /\ UNCHANGED <<file, history>>
    /\ UNCHANGED directories

\* The bytes go over what is there, from its beginning: of a document that is
\* longer by more than the newline at its end, a tail is left.
Size(content) ==
    IF content.text = {} THEN 0 ELSE SizeOf[CHOOSE s \in content.text : TRUE]
Over(old, new) ==
    CASE old.form = "document" -> {IF Size(old) > Size(new) + 1 THEN Bare("damaged") ELSE new}
      [] old.form = "damaged" -> {Bare("damaged"), new}
      [] OTHER -> {new}

\* All bytes reach the file.
PutAll(c) ==
    /\ \E content \in Over(file[My(c)], ToJson(request[c])) :
          file' = [file EXCEPT ![My(c)] = content]
    /\ kept' = [kept EXCEPT ![My(c)] = IF c \in undisturbed THEN {request[c]} ELSE @]

\* The disk is full where the file would have to grow.
PutSome(c) ==
    /\ file[My(c)].form = "document" => Size(file[My(c)]) < Size(ToJson(request[c]))
    /\ file' = [file EXCEPT ![My(c)] = Bare("damaged")]
    /\ UNCHANGED kept

\* QFile::write of a long document goes to the file; it answers -1 only if not
\* one byte was written.  A short document goes no further than the buffer.
Write(c) ==
    /\ pc[c] = "opened"
    /\ IF Size(ToJson(request[c])) > BufferSize
       THEN /\ \/ (PutAll(c) \/ PutSome(c)) /\ Finish(c, Answer("ok", NoValue))
               \/ Fail(c, "WriteFailed") /\ UNCHANGED <<file, kept>>
            /\ undisturbed' = undisturbed \ {c}
       ELSE Goto(c, "opened", "buffered") /\ UNCHANGED <<file, kept, undisturbed>>
    /\ UNCHANGED <<directories, asked>>

\* The destructor of the QFile writes the buffer, and nobody asks how it went.
Flush(c) ==
    /\ pc[c] = "buffered"
    /\ PutAll(c) \/ PutSome(c) \/ UNCHANGED <<file, kept>>
    /\ Finish(c, Answer("ok", NoValue))
    /\ undisturbed' = undisturbed \ {c}
    /\ UNCHANGED <<directories, asked>>

\* The program ends, and what it had in a buffer is gone.
Crash(c) ==
    /\ pc[c] # "idle"
    /\ pc' = [pc EXCEPT ![c] = "idle"]
    /\ request' = [request EXCEPT ![c] = NoRequest]
    /\ undisturbed' = undisturbed \ {c}
    /\ UNCHANGED <<file, directories, answer, asked, kept>>

Next ==
    \E c \in Callers :
        \/ Call(c) \/ LookForFile(c) \/ OpenToRead(c) \/ Read(c)
        \/ MakeDirectory(c) \/ Open(c) \/ Write(c) \/ Flush(c) \/ Crash(c)

Spec == Init /\ [][Next]_vars

-----------------------------------------------------------------------------
(* Properties.                                                             *)

TypeOK ==
    /\ file \in [Files -> Contents] /\ directories \subseteq Texts
    /\ pc \in [Callers -> {"idle", "called", "found", "reading", "made", "opened",
                           "buffered"}]
    /\ request \in [Callers -> Requests]
    /\ answer \in [Callers -> [code : Codes,
                               value : [version : SUBSET (1 .. CURRENT_SCHEMA_VERSION),
                                        text : SUBSET Texts, lists : {{}}]]]
    /\ asked \in [Files -> SUBSET Contents] /\ undisturbed \subseteq Callers
    /\ kept \in [Files -> SUBSET Requests]

(* A load that succeeds answers what the file held at first or, once it was *)
(* opened by a save, what the saves want in it that have it open since:     *)
(* emptied files, half-written ones and tails of longer documents never     *)
(* pass for a profile, nor for an empty one.                               *)
LoadedWasSaved ==
    [][\A c \in Callers :
          Read(c) /\ answer'[c].code = "ok" =>
              \E d \in asked[My(c)] :
                  d.form = "document" /\ answer'[c] = Loaded(request[c].operation.part, d)]_vars

(* A save that reached the disk while nobody else had the file open can be  *)
(* loaded, whatever it found there (a longer document, the remains of a     *)
(* crash): the game, or the description with a version that is supported.  *)
(* Any other version is saved all the same, and refused by every load.     *)
UndisturbedSavesLoad ==
    \A f \in Files : \A r \in kept[f] :
        LET back == Loaded(f[2], file[f])
        IN  IF f[2] = "state" \/ r.value.version = {CURRENT_SCHEMA_VERSION}
            THEN /\ back.code = "ok" /\ back.value.version = r.value.version
                 /\ back.value.text \union {""} = {AsText[s] : s \in r.value.text} \union {""}
            ELSE back.code = "UnsupportedSchemaVersion"

(* What json_profile_persistence_test.cpp says: "Saving and loading state   *)
(* successfully preserves state".                                          *)
StateIsPreserved ==
    \A f \in Files : \A r \in kept[f] : f[2] = "state" => Loaded("state", file[f]).value = r.value
=============================================================================
