--------------------------- MODULE PackageCatalog ---------------------------
(***************************************************************************)
(* JsonPackageCatalog: the list of installed packages, kept in one JSON    *)
(* file.  Every call locks the mutex of its catalog object, reads the      *)
(* whole file, and add and remove write the whole list back through a      *)
(* temporary file that replaces the catalog in one step (QSaveFile).       *)
(* Several threads may call one object, and several objects (of one        *)
(* program or of two running at a time) may use the same file: the mutex   *)
(* excludes only the threads of the same object.  Any access to the file   *)
(* can fail, and a program can end between any two steps.                  *)
(*                                                                         *)
(* Of the metadata the name stands for all three texts.                    *)
(***************************************************************************)
EXTENDS Integers, Sequences

CONSTANTS
    Threads,             \* the threads that call
    Objects,             \* the catalog objects, all on the same file
    ObjectOf,            \* thread -> the object it calls
    Nobody,              \* the owner of a free mutex
    Texts,               \* the byte strings used as ids, names, references
    AsText,              \* text -> its bytes once it has been a QString
    Missing,             \* the value of an optional field that is not there
    Packages,            \* the packages callers add
    CatalogFiles         \* what the catalog file can be when all begins

Empty == ""
Bytes == 0 .. 255
Fields(Path) ==
    [id : Texts \union {Missing}, name : Texts \union {Missing},
     path : Path \union {Missing}, ref : Texts \union {Missing}]
InstalledPackages == {p \in Fields(Seq(Bytes)) : p.id # Missing /\ p.name # Missing}
Entries == Fields(Seq(Nat))            \* of the file: paths are written in hex

\* The schema number counts halves, so that some are not whole.
Files == [form : {"absent", "garbage", "document"}, schema : Int, entries : Seq(Entries)]

ASSUME CatalogAssumption ==
    /\ ObjectOf \in [Threads -> Objects]
    /\ Nobody \notin Threads
    /\ Empty \in Texts /\ Missing \notin Texts /\ Missing \notin Seq(Nat)
    /\ AsText \in [Texts -> Texts]
    /\ \A p \in Packages : p \in InstalledPackages
    /\ CatalogFiles \subseteq Files

VARIABLES
    file,                \* the catalog file
    mutex,               \* object -> the thread that holds its mutex
    pc,                  \* thread -> where its call is
    call,                \* thread -> the call it makes
    packages,            \* thread -> the list it is about to save
    answer               \* thread -> what its call answers

vars == <<file, mutex, pc, call, packages, answer>>

Ids == {s \in Texts : \E p \in Packages : s = p.id}
Calls ==
    [op : {"add"}, package : Packages]
        \union [op : {"get", "contains", "remove"}, id : Ids]
        \union [op : {"list"}]
NoCall == [op |-> "none"]
Errors == {"NotFound", "AlreadyExists", "IoError", "InvalidFormat", "UnsupportedSchemaVersion"}
Answer(status, list) == [status |-> status, packages |-> list]
NoAnswer == Answer("none", <<>>)

-----------------------------------------------------------------------------
(* The format of the file.                                                 *)

SCHEMA_VERSION == 1

\* The low half of a byte first (a mutated form).
encodePathSwapped(path) ==
    [i \in 1 .. 2 * Len(path) |-> IF i % 2 = 1 THEN path[(i + 1) \div 2] % 16
                                  ELSE path[i \div 2] \div 16]

encodePath(path) ==
    [i \in 1 .. 2 * Len(path) |-> IF i % 2 = 1 THEN path[(i + 1) \div 2] \div 16
                                  ELSE path[i \div 2] % 16]

IsHexPath(digits) ==
    digits # <<>> /\ Len(digits) % 2 = 0 /\ \A i \in DOMAIN digits : digits[i] < 16

\* The high half shifted by eight (a mutated form).
decodePathWide(digits) ==
    [i \in 1 .. Len(digits) \div 2 |-> 256 * digits[2 * i - 1] + digits[2 * i]]

decodePath(digits) ==
    [i \in 1 .. Len(digits) \div 2 |-> 16 * digits[2 * i - 1] + digits[2 * i]]

validatePackage(p) ==
    /\ p.id # Empty
    /\ p.name # Empty
    /\ p.path # Missing \/ p.ref # Missing
    /\ p.path # <<>>
    /\ p.ref # Empty

packageToJson(p) ==
    [id |-> AsText[p.id],
     name |-> AsText[p.name],
     path |-> IF p.path = Missing THEN Missing ELSE encodePath(p.path),
     ref |-> IF p.ref = Missing THEN Missing ELSE AsText[p.ref]]

\* What jsonToPackage accepts, and what it makes of it.
IsPackage(entry) ==
    /\ entry.id \notin {Missing, Empty}
    /\ entry.name \notin {Missing, Empty}
    /\ entry.path # Missing \/ entry.ref # Missing
    /\ entry.path # Missing => IsHexPath(entry.path)
    /\ entry.ref # Empty

jsonToPackage(entry) ==
    [entry EXCEPT !.path = IF @ = Missing THEN Missing ELSE decodePath(@)]

Read(entries) == [i \in DOMAIN entries |-> jsonToPackage(entries[i])]

Distinct(list) == \A i, j \in DOMAIN list : list[i].id = list[j].id => i = j

\* load, once the file is open.
Loaded(f) ==
    IF f.form = "absent" THEN Answer("ok", <<>>)
    ELSE IF f.form = "garbage" \/ f.schema % 2 # 0 \/ f.schema <= 0
    THEN Answer("InvalidFormat", <<>>)
    ELSE IF f.schema # 2 * SCHEMA_VERSION
    THEN Answer("UnsupportedSchemaVersion", <<>>)
    ELSE IF (\A i \in DOMAIN f.entries : IsPackage(f.entries[i])) /\ Distinct(f.entries)
    THEN Answer("ok", Read(f.entries))
    ELSE Answer("InvalidFormat", <<>>)

\* The document save writes.
Document(list) ==
    [form |-> "document", schema |-> 2 * SCHEMA_VERSION,
     entries |-> [i \in DOMAIN list |-> packageToJson(list[i])]]

Init ==
    /\ file \in CatalogFiles
    /\ mutex = [o \in Objects |-> Nobody]
    /\ pc = [t \in Threads |-> "idle"]
    /\ call = [t \in Threads |-> NoCall]
    /\ packages = [t \in Threads |-> <<>>]
    /\ answer = [t \in Threads |-> NoAnswer]

-----------------------------------------------------------------------------
(* A call.                                                                 *)

At(t, from, to) == pc[t] = from /\ pc' = [pc EXCEPT ![t] = to]

\* The call leaves with an answer; the mutex is released when it returns.
Finish(t, status, list) ==
    /\ pc' = [pc EXCEPT ![t] = "done"]
    /\ answer' = [answer EXCEPT ![t] = Answer(status, list)]
    /\ UNCHANGED <<mutex, call, packages>>

Begin(t) ==
    /\ At(t, "idle", "called")
    /\ \E c \in Calls : call' = [call EXCEPT ![t] = c]
    /\ UNCHANGED <<file, mutex, packages, answer>>

\* add turns an invalid package away before it locks.
RejectPackage(t) ==
    /\ pc[t] = "called"
    /\ call[t].op = "add" /\ ~validatePackage(call[t].package)
    /\ Finish(t, "InvalidFormat", <<>>)
    /\ UNCHANGED file

\* No mutual exclusion (a mutated form).
LockNothing(t) ==
    /\ At(t, "called", "locked")
    /\ call[t].op = "add" => validatePackage(call[t].package)
    /\ mutex' = [mutex EXCEPT ![ObjectOf[t]] = t]
    /\ UNCHANGED <<file, call, packages, answer>>

Lock(t) ==
    /\ At(t, "called", "locked")
    /\ call[t].op = "add" => validatePackage(call[t].package)
    /\ mutex[ObjectOf[t]] = Nobody
    /\ mutex' = [mutex EXCEPT ![ObjectOf[t]] = t]
    /\ UNCHANGED <<file, call, packages, answer>>

Save(t, list) ==
    /\ pc' = [pc EXCEPT ![t] = "saving"]
    /\ packages' = [packages EXCEPT ![t] = list]
    /\ UNCHANGED <<mutex, call, answer>>

\* Only an equal package is in the way (a mutated form).
IsInstalledEqual(list, p) == \E i \in DOMAIN list : list[i] = p

IsInstalled(list, p) == \E i \in DOMAIN list : list[i].id = p.id

\* load refuses a list that has an id twice, so remove_if finds one at most.
Without(list, i) == [j \in 1 .. Len(list) - 1 |-> list[IF j < i THEN j ELSE j + 1]]

\* What the call does with the packages it has loaded.
ServeId(t, list) ==
    LET c == call[t] IN
    /\ c.op \in {"get", "contains", "remove"}
    /\ \/ \E i \in DOMAIN list :
             /\ list[i].id = c.id
             /\ IF c.op = "remove" THEN Save(t, Without(list, i))
                ELSE Finish(t, "ok", <<list[i]>>)
       \/ /\ \A i \in DOMAIN list : list[i].id # c.id
          /\ Finish(t, IF c.op = "contains" THEN "ok" ELSE "NotFound", <<>>)

ServeAdd(t, list) ==
    /\ call[t].op = "add"
    /\ IF IsInstalled(list, call[t].package)
       THEN Finish(t, "AlreadyExists", <<>>)
       ELSE Save(t, Append(list, call[t].package))

ServeList(t, list) == call[t].op = "list" /\ Finish(t, "ok", list)

Serve(t, list) == ServeId(t, list) \/ ServeAdd(t, list) \/ ServeList(t, list)

\* std::filesystem::exists: a missing file is an empty catalog.
LookForFile(t) ==
    /\ pc[t] = "locked"
    /\ UNCHANGED file
    /\ \/ Finish(t, "IoError", <<>>)
       \/ file.form = "absent" /\ Serve(t, Loaded(file).packages)
       \/ /\ file.form # "absent"
          /\ At(t, "locked", "found")
          /\ UNCHANGED <<mutex, call, packages, answer>>

\* A file that cannot be used is taken for an empty one (a mutated form).
ReadFileLeniently(t) ==
    /\ pc[t] = "found"
    /\ UNCHANGED file
    /\ Finish(t, "IoError", <<>>) \/ Serve(t, Loaded(file).packages)

\* An open file keeps its contents while another one takes its name.
ReadFile(t) ==
    /\ pc[t] = "found"
    /\ UNCHANGED file
    /\ \/ Finish(t, "IoError", <<>>)
       \/ /\ Loaded(file).status = "ok"
          /\ Serve(t, Loaded(file).packages)
       \/ /\ Loaded(file).status # "ok"
          /\ Finish(t, Loaded(file).status, <<>>)

\* The catalog itself is opened for writing (a mutated form).
WriteInPlace(t) ==
    /\ pc[t] = "saving"
    /\ \/ Finish(t, "IoError", <<>>) /\ UNCHANGED file
       \/ /\ At(t, "saving", "written")
          /\ file' = [form |-> "garbage", schema |-> 0, entries |-> <<>>]
          /\ UNCHANGED <<mutex, call, packages, answer>>

\* save: the directory, the temporary file and its contents, which nobody else
\* looks at.
WriteTemporary(t) ==
    /\ pc[t] = "saving"
    /\ UNCHANGED file
    /\ IF \E i \in DOMAIN packages[t] : ~validatePackage(packages[t][i])
       THEN Finish(t, "InvalidFormat", <<>>)
       ELSE \/ Finish(t, "IoError", <<>>)
            \/ At(t, "saving", "written") /\ UNCHANGED <<mutex, call, packages, answer>>

\* QSaveFile::commit: the temporary file takes the name of the catalog.
Commit(t) ==
    /\ pc[t] = "written"
    /\ \/ Finish(t, "IoError", <<>>) /\ UNCHANGED file
       \/ Finish(t, "ok", <<>>) /\ file' = Document(packages[t])

Forget(gone) ==
    /\ pc' = [t \in Threads |-> IF t \in gone THEN "idle" ELSE pc[t]]
    /\ call' = [t \in Threads |-> IF t \in gone THEN NoCall ELSE call[t]]
    /\ packages' = [t \in Threads |-> IF t \in gone THEN <<>> ELSE packages[t]]
    /\ answer' = [t \in Threads |-> IF t \in gone THEN NoAnswer ELSE answer[t]]
    /\ mutex' = [o \in Objects |-> IF mutex[o] \in gone THEN Nobody ELSE mutex[o]]
    /\ UNCHANGED file

\* ~scoped_lock.
Return(t) == pc[t] = "done" /\ Forget({t})

\* The program an object belongs to ends; a new one can begin at once.
Crash(o) == Forget({t \in Threads : ObjectOf[t] = o})

Step(t) ==
    \/ RejectPackage(t) \/ Lock(t) \/ LookForFile(t) \/ ReadFile(t)
    \/ WriteTemporary(t) \/ Commit(t) \/ Return(t)

Next ==
    \/ \E t \in Threads : Begin(t) \/ Step(t)
    \/ \E o \in Objects : Crash(o)

Spec == Init /\ [][Next]_vars

-----------------------------------------------------------------------------
(* Properties.                                                             *)

TypeOK ==
    /\ file \in Files
    /\ mutex \in [Objects -> Threads \union {Nobody}]
    /\ pc \in [Threads -> {"idle", "called", "locked", "found", "saving", "written", "done"}]
    /\ call \in [Threads -> Calls \union {NoCall}]
    /\ packages \in [Threads -> Seq(InstalledPackages)]
    /\ answer \in [Threads -> [status : Errors \union {"none", "ok"},
                               packages : Seq(InstalledPackages)]]

Elements(list) == {list[i] : i \in DOMAIN list}
Stored == Elements(Loaded(file).packages)

\* The packages that come back from the file as they were given: QString keeps
\* UTF-8 texts only.
Keeps(p) == jsonToPackage(packageToJson(p)) = p

\* A catalog that is used through one object behaves as if every call took
\* effect at one instant (CatalogStore), whatever fails and whenever the
\* program ends: no update is lost, no answer is made of two versions.
Store == INSTANCE CatalogStore WITH
    Clients <- Threads,
    catalog <- Stored,
    request <- call,
    answer <- [t \in Threads |-> Answer(answer[t].status, Elements(answer[t].packages))]
ImplementsStore == Store!Spec

\* A file that load does not accept (damaged, or of a newer program) is never
\* written over, not even by an add that would turn it into a good one.
DamageIsKept == [][Loaded(file).status # "ok" => UNCHANGED file]_vars

\* What the catalog writes it can read again, even when several objects write:
\* a readable catalog never turns into one that every later call refuses.
StaysLoadable == [][Loaded(file).status = "ok" => Loaded(file').status = "ok"]_vars

\* The file changes only in the step in which an add or a remove succeeds: a
\* call that fails or is cut short by the end of the program leaves it alone.
ChangesOnlyWithSuccess ==
    [][file' # file =>
          \E t \in Threads :
              /\ call[t].op \in {"add", "remove"}
              /\ pc[t] # "done" /\ pc'[t] = "done" /\ answer'[t].status = "ok"]_vars

\* A package as the catalog can keep it: its path byte for byte, its texts as
\* they are once they have been QStrings, and nothing missing.
AsStored(p) ==
    [p EXCEPT !.id = AsText[@], !.name = AsText[@],
              !.ref = IF @ = Missing THEN Missing ELSE AsText[@]]

\* When add answers success the file has the package, with nothing changed but
\* what QString cannot hold; when remove does, the file has none with that id.
Succeeds(t, op) ==
    call[t].op = op /\ pc[t] # "done" /\ pc'[t] = "done" /\ answer'[t].status = "ok"
SuccessIsInFile ==
    [][\A t \in Threads :
          /\ Succeeds(t, "add") => AsStored(call[t].package) \in Stored'
          /\ Succeeds(t, "remove") => \A p \in Stored' : p.id # call[t].id]_vars
=============================================================================
