------------------------ MODULE PackageCatalogProofs ------------------------
(***************************************************************************)
(* What holds of the package catalog for every number of threads, objects, *)
(* packages and texts: the format of the file keeps paths and packages,    *)
(* the file changes with successes only and stays readable, and a catalog  *)
(* used through one object implements CatalogStore.                        *)
(***************************************************************************)
EXTENDS PackageCatalog, TLAPS

\* A list as load returns it and as save may write it.
IsValidList(list) ==
    /\ list \in Seq(InstalledPackages)
    /\ \A i \in DOMAIN list : validatePackage(list[i])
    /\ Distinct(list)

-----------------------------------------------------------------------------
(* The format of the file.                                                 *)

\* A byte is its two hex digits.
LEMMA TwoDigits ==
    ASSUME NEW b \in Bytes
    PROVE  /\ b \div 16 \in 0 .. 15 /\ b % 16 \in 0 .. 15
           /\ 16 * (b \div 16) + (b % 16) = b
  <1>1. b \in Int /\ 0 <= b /\ b <= 255
    BY DEF Bytes
  <1>2. b \div 16 \in 0 .. 15
    BY <1>1
  <1>3. b % 16 \in 0 .. 15
    BY <1>1
  <1>4. 16 * (b \div 16) + (b % 16) = b
    BY <1>1
  <1>5. QED
    BY <1>2, <1>3, <1>4

\* encodePath and decodePath: every path comes back byte for byte, also one
\* that is no UTF-8 text.
THEOREM PathsSurvive ==
    ASSUME NEW path \in Seq(Bytes), path # <<>>
    PROVE  /\ encodePath(path) \in Seq(Nat)
           /\ IsHexPath(encodePath(path))
           /\ decodePath(encodePath(path)) = path
  <1> DEFINE n == Len(path)
             digits == encodePath(path)
  <1>1. n \in Nat \ {0} /\ \A i \in 1 .. n : path[i] \in Bytes
    OBVIOUS
  <1>2. \A i \in 1 .. n : /\ 2 * i - 1 \in 1 .. 2 * n /\ 2 * i \in 1 .. 2 * n
                          /\ (2 * i - 1) % 2 = 1 /\ (2 * i) % 2 # 1
                          /\ ((2 * i - 1) + 1) \div 2 = i /\ (2 * i) \div 2 = i
    BY <1>1
  <1>3. \A k \in 1 .. 2 * n : digits[k] \in 0 .. 15
    <2> SUFFICES ASSUME NEW k \in 1 .. 2 * n
                 PROVE  digits[k] \in 0 .. 15
      OBVIOUS
    <2>1. CASE k % 2 = 1
      <3>1. (k + 1) \div 2 \in 1 .. n
        BY <1>1, <2>1
      <3>2. QED
        BY <1>1, <2>1, <3>1, TwoDigits DEF encodePath
    <2>2. CASE k % 2 # 1
      <3>1. k \div 2 \in 1 .. n
        BY <1>1, <2>2
      <3>2. QED
        BY <1>1, <2>2, <3>1, TwoDigits DEF encodePath
    <2>3. QED
      BY <2>1, <2>2
  <1>4. digits \in Seq(Nat) /\ Len(digits) = 2 * n /\ DOMAIN digits = 1 .. 2 * n
    <2>1. digits = [k \in 1 .. 2 * n |-> digits[k]]
      BY DEF encodePath
    <2>2. 2 * n \in Nat
      BY <1>1
    <2>3. \A k \in 1 .. 2 * n : digits[k] \in Nat
      BY <1>3
    <2>4. QED
      BY <2>1, <2>2, <2>3
  <1>5. IsHexPath(digits)
    <2>1. Len(digits) % 2 = 0 /\ digits # <<>>
      BY <1>1, <1>4
    <2>2. \A k \in DOMAIN digits : digits[k] < 16
      <3>1. \A x \in 0 .. 15 : x < 16
        OBVIOUS
      <3>2. QED
        BY <1>3, <1>4, <3>1
    <2>3. QED
      BY <2>1, <2>2 DEF IsHexPath
  <1>6. \A i \in 1 .. n : digits[2 * i - 1] = path[i] \div 16 /\ digits[2 * i] = path[i] % 16
    BY <1>2 DEF encodePath
  <1>7. \A i \in 1 .. n : 16 * digits[2 * i - 1] + digits[2 * i] = path[i]
    <2>1. \A b \in Bytes : 16 * (b \div 16) + (b % 16) = b
      BY TwoDigits
    <2>2. ASSUME NEW i \in 1 .. n
          PROVE  16 * digits[2 * i - 1] + digits[2 * i] = path[i]
      <3>1. path[i] \in Bytes
        BY <1>1
      <3>2. digits[2 * i - 1] = path[i] \div 16 /\ digits[2 * i] = path[i] % 16
        BY <1>6
      <3>3. QED
        BY ONLY <2>1, <3>1, <3>2
    <2>3. QED
      BY <2>2
  <1>8. Len(digits) \div 2 = n
    BY <1>1, <1>4
  <1>9. decodePath(digits) = [i \in 1 .. n |-> path[i]]
    BY <1>7, <1>8 DEF decodePath
  <1>10. path = [i \in 1 .. n |-> path[i]]
    OBVIOUS
  <1>11. QED
    BY <1>4, <1>5, <1>9, <1>10

\* What decodePath makes of hex digits is a path that is not empty.
LEMMA DecodedPaths ==
    ASSUME NEW digits \in Seq(Nat), IsHexPath(digits)
    PROVE  decodePath(digits) \in Seq(Bytes) /\ decodePath(digits) # <<>>
  <1> DEFINE n == Len(digits) \div 2
  <1>1. Len(digits) \in Nat \ {0} /\ Len(digits) % 2 = 0
    BY DEF IsHexPath
  <1>2. n \in Nat \ {0} /\ 2 * n = Len(digits)
    BY <1>1
  <1>3. \A i \in 1 .. n : 2 * i - 1 \in 1 .. Len(digits) /\ 2 * i \in 1 .. Len(digits)
    BY <1>2
  <1>4. \A k \in 1 .. Len(digits) : digits[k] \in 0 .. 15
    <2>1. \A k \in 1 .. Len(digits) : digits[k] \in Nat
      OBVIOUS
    <2>2. \A k \in 1 .. Len(digits) : digits[k] < 16
      BY DEF IsHexPath
    <2>3. \A x \in Nat : x < 16 => x \in 0 .. 15
      OBVIOUS
    <2>4. QED
      BY <2>1, <2>2, <2>3
  <1>5. \A i \in 1 .. n : 16 * digits[2 * i - 1] + digits[2 * i] \in Bytes
    <2>1. \A high, low \in 0 .. 15 : 16 * high + low \in Bytes
      BY DEF Bytes
    <2>2. QED
      BY <1>3, <1>4, <2>1
  <1>6. decodePath(digits) = [i \in 1 .. n |-> 16 * digits[2 * i - 1] + digits[2 * i]]
    BY DEF decodePath
  <1>7. decodePath(digits) \in Seq(Bytes) /\ Len(decodePath(digits)) = n
    BY <1>2, <1>5, <1>6
  <1>8. QED
    BY <1>2, <1>7

\* A package reads the same after it has been written, when QString keeps its
\* texts.
TextsSurvive == \A s \in Texts : AsText[s] = s

\* An entry that jsonToPackage accepts is a valid package.
LEMMA ReadPackages ==
    ASSUME NEW entry \in Entries, IsPackage(entry)
    PROVE  /\ jsonToPackage(entry) \in InstalledPackages
           /\ validatePackage(jsonToPackage(entry))
           /\ jsonToPackage(entry).id = entry.id
  <1> DEFINE p == jsonToPackage(entry)
  <1>1. /\ entry.id \in Texts \ {Missing, Empty} /\ entry.name \in Texts \ {Missing, Empty}
        /\ entry.path \in Seq(Nat) \union {Missing}
        /\ entry.ref \in (Texts \union {Missing}) \ {Empty}
        /\ entry.path # Missing \/ entry.ref # Missing
    BY DEF Entries, Fields, IsPackage
  <1>2. /\ p = [id |-> entry.id, name |-> entry.name, ref |-> entry.ref,
                path |-> IF entry.path = Missing THEN Missing ELSE decodePath(entry.path)]
    BY DEF jsonToPackage, Entries, Fields
  <1>3. CASE entry.path = Missing
    <2>1. Missing # <<>>
      <3>1. <<>> \in Seq(Nat)
        OBVIOUS
      <3>2. QED
        BY <3>1, CatalogAssumption
    <2>2. QED
      BY <1>1, <1>2, <1>3, <2>1 DEF InstalledPackages, Fields, validatePackage
  <1>4. CASE entry.path # Missing
    <2>1. entry.path \in Seq(Nat) /\ IsHexPath(entry.path)
      BY <1>1, <1>4 DEF IsPackage
    <2>2. decodePath(entry.path) \in Seq(Bytes) /\ decodePath(entry.path) # <<>>
      BY <2>1, DecodedPaths
    <2>3. decodePath(entry.path) # Missing
      <3>1. \A s \in Seq(Bytes) : s \in Seq(Nat)
        <4>1. Bytes \subseteq Nat
          BY DEF Bytes
        <4>2. ASSUME NEW s \in Seq(Bytes)
              PROVE  s \in Seq(Nat)
          <5>1. s = [i \in 1 .. Len(s) |-> s[i]] /\ Len(s) \in Nat
            OBVIOUS
          <5>2. \A i \in 1 .. Len(s) : s[i] \in Bytes
            OBVIOUS
          <5>3. \A i \in 1 .. Len(s) : s[i] \in Nat
            BY ONLY <4>1, <5>2
          <5>4. QED
            BY <5>1, <5>3
        <4>3. QED
          BY <4>2
      <3>2. QED
        BY <2>2, <3>1, CatalogAssumption
    <2>4. QED
      BY <1>1, <1>2, <1>4, <2>2, <2>3 DEF InstalledPackages, Fields, validatePackage
  <1>5. QED
    BY <1>3, <1>4

\* packageToJson writes entries.
LEMMA WrittenEntries ==
    ASSUME NEW p \in InstalledPackages, validatePackage(p)
    PROVE  packageToJson(p) \in Entries
  <1>1. /\ p.id \in Texts /\ p.name \in Texts /\ p.ref \in Texts \union {Missing}
        /\ p.path \in Seq(Bytes) \union {Missing}
    BY DEF InstalledPackages, Fields
  <1>2. \A s \in Texts : AsText[s] \in Texts
    BY CatalogAssumption
  <1>3. p.path # Missing => encodePath(p.path) \in Seq(Nat)
    BY <1>1, PathsSurvive DEF validatePackage
  <1>4. QED
    BY <1>1, <1>2, <1>3 DEF packageToJson, Entries, Fields

\* With texts that QString keeps, every valid package comes back.
LEMMA PackagesSurvive ==
    ASSUME TextsSurvive, NEW p \in InstalledPackages, validatePackage(p)
    PROVE  IsPackage(packageToJson(p)) /\ Keeps(p)
  <1>1. /\ p.id \in Texts /\ p.name \in Texts /\ p.ref \in Texts \union {Missing}
        /\ p.path \in Seq(Bytes) \union {Missing} /\ p.path # <<>>
        /\ p.id # Missing /\ p.name # Missing
    BY DEF InstalledPackages, Fields, validatePackage
  <1>2. packageToJson(p) =
            [id |-> p.id, name |-> p.name, ref |-> p.ref,
             path |-> IF p.path = Missing THEN Missing ELSE encodePath(p.path)]
    BY <1>1 DEF packageToJson, TextsSurvive
  <1>3. p.path # Missing =>
            /\ encodePath(p.path) \in Seq(Nat) /\ IsHexPath(encodePath(p.path))
            /\ decodePath(encodePath(p.path)) = p.path
    BY <1>1, PathsSurvive
  <1>4. p.path # Missing => encodePath(p.path) # Missing
    BY <1>3, CatalogAssumption
  <1>5. IsPackage(packageToJson(p))
    BY <1>1, <1>2, <1>3, <1>4 DEF IsPackage, validatePackage
  <1>6. p = [id |-> p.id, name |-> p.name, ref |-> p.ref, path |-> p.path]
    BY DEF InstalledPackages, Fields
  <1>7. jsonToPackage(packageToJson(p)) =
            [id |-> p.id, name |-> p.name, ref |-> p.ref, path |-> p.path]
    BY <1>2, <1>3, <1>4 DEF jsonToPackage
  <1>8. QED
    BY <1>5, <1>6, <1>7 DEF Keeps

\* load answers a list of valid packages with distinct ids, or an empty one
\* and an error.
LEMMA LoadedLists ==
    ASSUME NEW f \in Files
    PROVE  /\ Loaded(f).status \in {"ok", "InvalidFormat", "UnsupportedSchemaVersion"}
           /\ IsValidList(Loaded(f).packages)
           /\ f.form = "absent" => Loaded(f).status = "ok"
  <1>1. IsValidList(<<>>)
    BY DEF IsValidList, Distinct
  <1>2. CASE Loaded(f) # Answer("ok", Read(f.entries))
    <2>1. /\ Loaded(f).status \in {"ok", "InvalidFormat", "UnsupportedSchemaVersion"}
          /\ Loaded(f).packages = <<>>
          /\ f.form = "absent" => Loaded(f).status = "ok"
      BY <1>2 DEF Loaded, Answer
    <2>2. QED
      BY <1>1, <2>1
  <1>3. CASE f.form # "absent" /\ Loaded(f) = Answer("ok", Read(f.entries))
    <2>1. (\A i \in DOMAIN f.entries : IsPackage(f.entries[i])) /\ Distinct(f.entries)
      BY <1>3 DEF Loaded, Answer
    <2>2. f.entries \in Seq(Entries)
      BY DEF Files
    <2>3. \A i \in DOMAIN f.entries :
              /\ Read(f.entries)[i] \in InstalledPackages
              /\ validatePackage(Read(f.entries)[i])
              /\ Read(f.entries)[i].id = f.entries[i].id
      BY <2>1, <2>2, ReadPackages DEF Read
    <2>4. DOMAIN Read(f.entries) = 1 .. Len(f.entries) /\ DOMAIN f.entries = 1 .. Len(f.entries)
      BY <2>2 DEF Read
    <2>5. Read(f.entries) \in Seq(InstalledPackages)
      <3>1. Read(f.entries) = [i \in 1 .. Len(f.entries) |-> Read(f.entries)[i]]
        BY <2>4 DEF Read
      <3>2. Len(f.entries) \in Nat
        BY <2>2
      <3>3. QED
        BY <2>3, <2>4, <3>1, <3>2
    <2>6. IsValidList(Read(f.entries))
      BY <2>1, <2>3, <2>4, <2>5 DEF IsValidList, Distinct
    <2>7. QED
      BY <1>3, <2>6 DEF Answer
  <1>4. CASE f.form = "absent"
    <2>1. Loaded(f) = Answer("ok", <<>>)
      BY <1>4 DEF Loaded
    <2>2. QED
      BY <1>1, <2>1 DEF Answer
  <1>5. QED
    BY <1>2, <1>3, <1>4

\* save writes a catalog file, and load reads from it the list that was saved.
LEMMA SavedLists ==
    ASSUME NEW list, IsValidList(list)
    PROVE  /\ Document(list) \in Files
           /\ TextsSurvive => Loaded(Document(list)) = Answer("ok", list)
  <1> DEFINE entries == [i \in DOMAIN list |-> packageToJson(list[i])]
  <1>1. /\ list \in Seq(InstalledPackages) /\ DOMAIN list = 1 .. Len(list) /\ Len(list) \in Nat
        /\ \A i \in DOMAIN list : list[i] \in InstalledPackages /\ validatePackage(list[i])
        /\ Distinct(list)
    BY DEF IsValidList
  <1>2. \A i \in DOMAIN list : packageToJson(list[i]) \in Entries
    BY <1>1, WrittenEntries
  <1>3. entries \in Seq(Entries)
    BY <1>1, <1>2
  <1>4. Document(list) = [form |-> "document", schema |-> 2, entries |-> entries]
    BY DEF Document, SCHEMA_VERSION
  <1>5. Document(list) \in Files
    BY <1>3, <1>4 DEF Files
  <1>6. ASSUME TextsSurvive
        PROVE  Loaded(Document(list)) = Answer("ok", list)
    <2>1. \A i \in DOMAIN list : /\ IsPackage(entries[i])
                                 /\ jsonToPackage(entries[i]) = list[i]
                                 /\ entries[i].id = list[i].id
      <3> SUFFICES ASSUME NEW i \in DOMAIN list
                   PROVE  /\ IsPackage(entries[i])
                          /\ jsonToPackage(entries[i]) = list[i]
                          /\ entries[i].id = list[i].id
        OBVIOUS
      <3>1. IsPackage(entries[i]) /\ jsonToPackage(entries[i]) = list[i]
        BY <1>1, <1>6, PackagesSurvive DEF Keeps
      <3>2. entries[i].id = list[i].id
        BY <1>1, <1>6 DEF packageToJson, TextsSurvive, InstalledPackages, Fields
      <3>3. QED
        BY <3>1, <3>2
    <2>2. DOMAIN entries = DOMAIN list
      OBVIOUS
    <2>3. Distinct(entries)
      BY <1>1, <2>1, <2>2 DEF Distinct
    <2>4. Read(entries) = [i \in DOMAIN list |-> list[i]]
      BY <2>1, <2>2 DEF Read
    <2>5. list = [i \in DOMAIN list |-> list[i]]
      BY <1>1
    <2>6. /\ Document(list).form = "document" /\ Document(list).schema = 2
          /\ Document(list).entries = entries
      BY <1>4
    <2>7. Loaded(Document(list)) = Answer("ok", Read(entries))
      <3>1. 2 % 2 = 0 /\ ~(2 <= 0) /\ 2 * SCHEMA_VERSION = 2
        BY DEF SCHEMA_VERSION
      <3> HIDE DEF entries
      <3>2. QED
        BY <2>1, <2>2, <2>3, <2>6, <3>1 DEF Loaded
    <2>8. QED
      BY <2>4, <2>5, <2>7
  <1>7. QED
    BY <1>5, <1>6

-----------------------------------------------------------------------------
(* The lists add and remove save.                                          *)

\* What the call c makes of the list it has read.
Updates(list, c, new) ==
    \/ /\ c.op = "add" /\ ~IsInstalled(list, c.package)
       /\ new = Append(list, c.package)
    \/ /\ c.op = "remove"
       /\ \E i \in DOMAIN list : list[i].id = c.id /\ new = Without(list, i)

\* What the call c, a success, must have done to the packages of the file.
Effective(c, list) ==
    /\ c.op = "add" => c.package \in Elements(list)
    /\ c.op = "remove" => \A p \in Elements(list) : p.id # c.id

\* The fields of a call.
LEMMA CallFields ==
    ASSUME NEW c \in Calls
    PROVE  /\ c.op = "add" => c.package \in InstalledPackages /\ c.package \in Packages
           /\ c.op \in {"get", "contains", "remove"} => c.id \in Ids
           /\ c # NoCall
  BY CatalogAssumption DEF Calls, NoCall

\* A new package at the end of a valid list keeps it valid.
LEMMA Added ==
    ASSUME NEW list, IsValidList(list), NEW p \in InstalledPackages, validatePackage(p),
           ~IsInstalled(list, p)
    PROVE  /\ IsValidList(Append(list, p))
           /\ Elements(Append(list, p)) = Elements(list) \union {p}
  <1> DEFINE new == Append(list, p)
             n == Len(list)
  <1>1. /\ list \in Seq(InstalledPackages) /\ n \in Nat /\ DOMAIN list = 1 .. n
        /\ \A i \in 1 .. n : validatePackage(list[i]) /\ list[i].id # p.id
        /\ \A i, j \in 1 .. n : list[i].id = list[j].id => i = j
    BY DEF IsValidList, Distinct, IsInstalled
  <1>2. /\ new \in Seq(InstalledPackages) /\ Len(new) = n + 1 /\ DOMAIN new = 1 .. n + 1
        /\ \A i \in 1 .. n : new[i] = list[i]
        /\ new[n + 1] = p
    BY <1>1
  <1>3. \A i \in 1 .. n + 1 : i \in 1 .. n \/ i = n + 1
    BY <1>1
  <1>4. \A i \in 1 .. n : i \in 1 .. n + 1
    BY <1>1
  <1>5. n + 1 \in 1 .. n + 1
    BY <1>1
  <1> HIDE DEF new, n
  <1>6. IsValidList(new)
    <2>1. \A i \in DOMAIN new : validatePackage(new[i])
      BY <1>1, <1>2, <1>3
    <2>2. Distinct(new)
      BY <1>1, <1>2, <1>3 DEF Distinct
    <2>3. QED
      BY <1>2, <2>1, <2>2 DEF IsValidList
  <1>7. Elements(new) = Elements(list) \union {p}
    <2>1. \A e \in Elements(new) : e \in Elements(list) \union {p}
      BY <1>1, <1>2, <1>3 DEF Elements
    <2>2. \A e \in Elements(list) \union {p} : e \in Elements(new)
      BY <1>1, <1>2, <1>4, <1>5 DEF Elements
    <2>3. QED
      BY <2>1, <2>2
  <1>8. QED
    BY <1>6, <1>7 DEF new

\* Without the package at i a valid list is valid, and has all the others.
LEMMA Removed ==
    ASSUME NEW list, IsValidList(list), NEW i \in DOMAIN list
    PROVE  /\ IsValidList(Without(list, i))
           /\ Elements(Without(list, i)) = {p \in Elements(list) : p.id # list[i].id}
  <1> DEFINE new == Without(list, i)
             n == Len(list)
             Old(j) == IF j < i THEN j ELSE j + 1
  <1>1. /\ list \in Seq(InstalledPackages) /\ n \in Nat /\ DOMAIN list = 1 .. n /\ i \in 1 .. n
        /\ \A j \in 1 .. n : list[j] \in InstalledPackages /\ validatePackage(list[j])
        /\ \A j, k \in 1 .. n : list[j].id = list[k].id => j = k
    BY DEF IsValidList, Distinct
  <1>2. \A j \in 1 .. n - 1 : Old(j) \in 1 .. n /\ Old(j) # i
    BY <1>1
  <1>3. \A j, k \in 1 .. n - 1 : Old(j) = Old(k) => j = k
    BY <1>1
  <1>4. \A k \in 1 .. n : k # i => \E j \in 1 .. n - 1 : Old(j) = k
    <2> SUFFICES ASSUME NEW k \in 1 .. n, k # i
                 PROVE  \E j \in 1 .. n - 1 : Old(j) = k
      OBVIOUS
    <2>1. CASE k < i
      <3>1. k \in 1 .. n - 1 /\ Old(k) = k
        BY <1>1, <2>1
      <3>2. QED
        BY <3>1
    <2>2. CASE ~(k < i)
      <3>1. k - 1 \in 1 .. n - 1 /\ Old(k - 1) = k
        BY <1>1, <2>2
      <3>2. QED
        BY <3>1
    <2>3. QED
      BY <2>1, <2>2
  <1>5. n - 1 \in Nat
    BY <1>1
  <1>6. new = [j \in 1 .. n - 1 |-> list[Old(j)]]
    BY DEF Without
  <1> HIDE DEF new, n, Old
  <1>7. new \in Seq(InstalledPackages) /\ DOMAIN new = 1 .. n - 1
    BY <1>1, <1>2, <1>5, <1>6
  <1>8. \A j \in 1 .. n - 1 : new[j] = list[Old(j)]
    BY <1>6
  <1>9. IsValidList(new)
    <2>1. \A j \in DOMAIN new : validatePackage(new[j])
      BY <1>1, <1>2, <1>7, <1>8
    <2>2. Distinct(new)
      BY <1>1, <1>2, <1>3, <1>7, <1>8 DEF Distinct
    <2>3. QED
      BY <1>7, <2>1, <2>2 DEF IsValidList
  <1>10. Elements(new) = {p \in Elements(list) : p.id # list[i].id}
    <2>1. ASSUME NEW p \in Elements(new)
          PROVE  p \in Elements(list) /\ p.id # list[i].id
      <3>1. PICK j \in 1 .. n - 1 : p = list[Old(j)]
        BY <1>7, <1>8 DEF Elements
      <3>2. QED
        BY <1>1, <1>2, <3>1 DEF Elements
    <2>2. ASSUME NEW p \in Elements(list), p.id # list[i].id
          PROVE  p \in Elements(new)
      <3>1. PICK k \in 1 .. n : p = list[k]
        BY <1>1 DEF Elements
      <3>2. PICK j \in 1 .. n - 1 : Old(j) = k
        BY <1>4, <2>2, <3>1
      <3>3. QED
        BY <1>7, <1>8, <3>1, <3>2 DEF Elements
    <2>3. QED
      BY <2>1, <2>2
  <1>11. QED
    BY <1>9, <1>10 DEF new

\* A list that add or remove saves is valid and has what the call asked for.
LEMMA UpdatedLists ==
    ASSUME NEW list, IsValidList(list), NEW c \in Calls, NEW new, Updates(list, c, new),
           c.op = "add" => validatePackage(c.package)
    PROVE  IsValidList(new) /\ Effective(c, new) /\ c.op \in {"add", "remove"}
  <1>1. CASE c.op = "add"
    <2>1. ~IsInstalled(list, c.package) /\ new = Append(list, c.package)
      BY <1>1 DEF Updates
    <2>2. QED
      BY <1>1, <2>1, CallFields, Added DEF Effective
  <1>2. CASE c.op = "remove"
    <2>1. PICK i \in DOMAIN list : list[i].id = c.id /\ new = Without(list, i)
      BY <1>2 DEF Updates
    <2>2. QED
      BY <1>2, <2>1, Removed DEF Effective
  <1>3. QED
    BY <1>1, <1>2 DEF Updates

\* With the packages it has loaded, a call finishes or goes on to save.
LEMMA ServeCases ==
    ASSUME NEW t \in Threads, NEW list, IsValidList(list), Serve(t, list)
    PROVE  \/ \E status \in Errors \union {"ok"}, result \in Seq(InstalledPackages) :
                 Finish(t, status, result)
           \/ \E new : Save(t, new) /\ Updates(list, call[t], new)
  <1>1. list \in Seq(InstalledPackages) /\ <<>> \in Seq(InstalledPackages)
    BY DEF IsValidList
  <1>2. \A i \in DOMAIN list : <<list[i]>> \in Seq(InstalledPackages)
    BY <1>1
  <1>3. "ok" \in Errors \union {"ok"} /\ {"NotFound", "AlreadyExists"} \subseteq Errors
    BY DEF Errors
  <1>4. CASE ServeId(t, list)
    BY <1>1, <1>2, <1>3, <1>4 DEF ServeId, Updates
  <1>5. CASE ServeAdd(t, list)
    BY <1>1, <1>3, <1>5 DEF ServeAdd, Updates
  <1>6. CASE ServeList(t, list)
    BY <1>1, <1>3, <1>6 DEF ServeList
  <1>7. QED
    BY <1>4, <1>5, <1>6 DEF Serve

-----------------------------------------------------------------------------
(* The invariant.                                                          *)

Inside == {"locked", "found", "saving", "written"}
Saving == {"saving", "written"}

\* A call that has locked holds the mutex of its object until it answers.
Owners == \A t \in Threads : pc[t] \in Inside => mutex[ObjectOf[t]] = t

Requests ==
    \A t \in Threads :
        /\ IF pc[t] = "idle" THEN call[t] = NoCall ELSE call[t] \in Calls
        /\ pc[t] # "done" => answer[t] = NoAnswer
        /\ pc[t] \in Inside /\ call[t].op = "add" => validatePackage(call[t].package)

\* What is about to be saved is valid, and what the call asked for.
Lists ==
    \A t \in Threads :
        pc[t] \in Saving =>
            /\ call[t].op \in {"add", "remove"}
            /\ IsValidList(packages[t]) /\ Effective(call[t], packages[t])

IInv == TypeOK /\ Owners /\ Requests /\ Lists

\* The invariant holds when all begins.
LEMMA CatalogInit == Init => IInv
  <1> SUFFICES ASSUME Init
               PROVE  IInv
    OBVIOUS
  <1>1. <<>> \in Seq(InstalledPackages)
    OBVIOUS
  <1>2. TypeOK
    BY <1>1, CatalogAssumption DEF Init, TypeOK, NoAnswer, Answer
  <1>3. Owners /\ Requests /\ Lists
    BY DEF Init, Owners, Requests, Lists, Inside, Saving
  <1>4. QED
    BY <1>2, <1>3 DEF IInv

\* A call that finishes, whatever it has done to the file.
LEMMA FinishStep ==
    ASSUME IInv, NEW t \in Threads, pc[t] # "idle", file' \in Files,
           NEW status \in Errors \union {"ok"}, NEW list \in Seq(InstalledPackages),
           Finish(t, status, list)
    PROVE  IInv'
  <1> USE DEF IInv, Finish
  <1>1. TypeOK'
    BY DEF TypeOK, Answer
  <1>2. Owners'
    BY DEF Owners, TypeOK, Inside
  <1>3. Requests'
    BY DEF Requests, TypeOK, Inside
  <1>4. Lists'
    BY DEF Lists, TypeOK, Saving
  <1>5. QED
    BY <1>1, <1>2, <1>3, <1>4

\* A call that goes on to its next step.
LEMMA AdvanceStep ==
    ASSUME IInv, NEW t \in Threads, NEW from, NEW to, At(t, from, to),
           \/ from = "locked" /\ to = "found"
           \/ from = "saving" /\ to = "written",
           UNCHANGED <<file, mutex, call, packages, answer>>
    PROVE  IInv'
  <1> USE DEF IInv, At
  <1>1. TypeOK'
    BY DEF TypeOK
  <1>2. Owners'
    BY DEF Owners, TypeOK, Inside
  <1>3. Requests'
    BY DEF Requests, TypeOK, Inside
  <1>4. Lists'
    BY DEF Lists, TypeOK, Saving
  <1>5. QED
    BY <1>1, <1>2, <1>3, <1>4

\* A call that has loaded the list finishes or goes on to save.
LEMMA ServeStep ==
    ASSUME IInv, NEW t \in Threads, pc[t] \in {"locked", "found"}, UNCHANGED file,
           NEW list, IsValidList(list), Serve(t, list)
    PROVE  IInv'
  <1>1. CASE \E status \in Errors \union {"ok"}, result \in Seq(InstalledPackages) :
                 Finish(t, status, result)
    BY <1>1, FinishStep DEF IInv, TypeOK
  <1>2. ASSUME NEW new, Save(t, new), Updates(list, call[t], new)
        PROVE  IInv'
    <2>1. call[t] \in Calls /\ (call[t].op = "add" => validatePackage(call[t].package))
      BY DEF IInv, Requests, Inside
    <2>2. /\ IsValidList(new) /\ Effective(call[t], new)
          /\ call[t].op \in {"add", "remove"}
      BY <1>2, <2>1, UpdatedLists
    <2>3. new \in Seq(InstalledPackages)
      BY <2>2 DEF IsValidList
    <2> USE <1>2 DEF IInv, Save
    <2>4. TypeOK'
      BY <2>3 DEF TypeOK
    <2>5. Owners'
      BY DEF Owners, TypeOK, Inside
    <2>6. Requests'
      BY DEF Requests, TypeOK, Inside
    <2>7. Lists'
      BY <2>2 DEF Lists, TypeOK, Saving
    <2>8. QED
      BY <2>4, <2>5, <2>6, <2>7
  <1>3. QED
    BY <1>1, <1>2, ServeCases

\* Calls that return, or end with their program.
LEMMA ForgetStep ==
    ASSUME IInv, NEW gone \in SUBSET Threads, Forget(gone)
    PROVE  IInv'
  <1> USE DEF IInv, Forget
  <1>1. TypeOK'
    <2>1. <<>> \in Seq(InstalledPackages)
      OBVIOUS
    <2>2. QED
      BY <2>1 DEF TypeOK, NoAnswer, Answer
  <1>2. Owners'
    <2>1. \A t \in Threads : ObjectOf[t] \in Objects
      BY CatalogAssumption
    <2>2. QED
      BY <2>1 DEF Owners, TypeOK, Inside
  <1>3. Requests'
    BY DEF Requests, TypeOK, Inside
  <1>4. Lists'
    BY DEF Lists, TypeOK, Saving
  <1>5. QED
    BY <1>1, <1>2, <1>3, <1>4

\* Every answer but success is one of these.
LEMMA ErrorAnswers ==
    /\ {"IoError", "InvalidFormat", "UnsupportedSchemaVersion", "ok"} \subseteq Errors \union {"ok"}
    /\ <<>> \in Seq(InstalledPackages)
  BY DEF Errors

\* Every step of every thread keeps the invariant.
LEMMA CatalogNext == IInv /\ [Next]_vars => IInv'
  <1> SUFFICES ASSUME IInv, [Next]_vars
               PROVE  IInv'
    OBVIOUS
  <1>1. ASSUME NEW t \in Threads, Begin(t)
        PROVE  IInv'
    <2> USE <1>1 DEF IInv, Begin, At
    <2>1. TypeOK'
      BY DEF TypeOK
    <2>2. Owners'
      BY DEF Owners, TypeOK, Inside
    <2>3. Requests'
      BY DEF Requests, TypeOK, Inside
    <2>4. Lists'
      BY DEF Lists, TypeOK, Saving
    <2>5. QED
      BY <2>1, <2>2, <2>3, <2>4
  <1>2. ASSUME NEW t \in Threads, RejectPackage(t)
        PROVE  IInv'
    BY <1>2, FinishStep, ErrorAnswers DEF RejectPackage, IInv, TypeOK
  <1>3. ASSUME NEW t \in Threads, Lock(t)
        PROVE  IInv'
    <2> USE <1>3 DEF IInv, Lock, At
    <2>1. TypeOK'
      BY CatalogAssumption DEF TypeOK
    <2>2. Owners'
      BY CatalogAssumption DEF Owners, TypeOK, Inside
    <2>3. Requests'
      BY DEF Requests, TypeOK, Inside
    <2>4. Lists'
      BY DEF Lists, TypeOK, Saving
    <2>5. QED
      BY <2>1, <2>2, <2>3, <2>4
  <1>4. ASSUME NEW t \in Threads, LookForFile(t)
        PROVE  IInv'
    <2>1. file \in Files /\ file' \in Files /\ IsValidList(Loaded(file).packages)
      BY <1>4, LoadedLists DEF LookForFile, IInv, TypeOK
    <2>2. CASE Finish(t, "IoError", <<>>)
      BY <1>4, <2>1, <2>2, FinishStep, ErrorAnswers DEF LookForFile
    <2>3. CASE Serve(t, Loaded(file).packages)
      BY <1>4, <2>1, <2>3, ServeStep DEF LookForFile
    <2>4. CASE At(t, "locked", "found") /\ UNCHANGED <<mutex, call, packages, answer>>
      BY <1>4, <2>4, AdvanceStep DEF LookForFile
    <2>5. QED
      BY <1>4, <2>2, <2>3, <2>4 DEF LookForFile
  <1>5. ASSUME NEW t \in Threads, ReadFile(t)
        PROVE  IInv'
    <2>1. /\ file \in Files /\ file' \in Files /\ IsValidList(Loaded(file).packages)
          /\ Loaded(file).status \in {"ok", "InvalidFormat", "UnsupportedSchemaVersion"}
      BY <1>5, LoadedLists DEF ReadFile, IInv, TypeOK
    <2>2. CASE Finish(t, "IoError", <<>>) \/ Finish(t, Loaded(file).status, <<>>)
      BY <1>5, <2>1, <2>2, FinishStep, ErrorAnswers DEF ReadFile
    <2>3. CASE Serve(t, Loaded(file).packages)
      BY <1>5, <2>1, <2>3, ServeStep DEF ReadFile
    <2>4. QED
      BY <1>5, <2>2, <2>3 DEF ReadFile
  <1>6. ASSUME NEW t \in Threads, WriteTemporary(t)
        PROVE  IInv'
    <2>1. file' \in Files
      BY <1>6 DEF WriteTemporary, IInv, TypeOK
    <2>2. CASE Finish(t, "IoError", <<>>) \/ Finish(t, "InvalidFormat", <<>>)
      BY <1>6, <2>1, <2>2, FinishStep, ErrorAnswers DEF WriteTemporary
    <2>3. CASE At(t, "saving", "written") /\ UNCHANGED <<mutex, call, packages, answer>>
      BY <1>6, <2>3, AdvanceStep DEF WriteTemporary
    <2>4. QED
      BY <1>6, <2>2, <2>3 DEF WriteTemporary
  <1>7. ASSUME NEW t \in Threads, Commit(t)
        PROVE  IInv'
    <2>1. IsValidList(packages[t])
      BY <1>7 DEF Commit, IInv, Lists, Saving
    <2>2. file' \in Files
      BY <1>7, <2>1, SavedLists DEF Commit, IInv, TypeOK
    <2>3. QED
      BY <1>7, <2>2, FinishStep, ErrorAnswers DEF Commit
  <1>8. ASSUME NEW t \in Threads, Return(t)
        PROVE  IInv'
    BY <1>8, ForgetStep DEF Return
  <1>9. ASSUME NEW o \in Objects, Crash(o)
        PROVE  IInv'
    BY <1>9, ForgetStep DEF Crash
  <1>10. CASE UNCHANGED vars
    <2> USE <1>10 DEF vars, IInv
    <2>1. TypeOK'
      BY DEF TypeOK
    <2>2. Owners' /\ Requests' /\ Lists'
      BY DEF Owners, Requests, Lists
    <2>3. QED
      BY <2>1, <2>2
  <1>11. QED
    BY <1>1, <1>2, <1>3, <1>4, <1>5, <1>6, <1>7, <1>8, <1>9, <1>10 DEF Next, Step

\* The invariant holds in every reachable state, however many threads and
\* objects there are.
THEOREM CatalogInvariant == Spec => []IInv
  BY CatalogInit, CatalogNext, PTL DEF Spec

\* The types of the variables.
THEOREM CatalogTypes == Spec => []TypeOK
  <1>1. IInv => TypeOK
    BY DEF IInv
  <1>2. QED
    BY <1>1, CatalogInvariant, PTL

-----------------------------------------------------------------------------
(* What a step does to the file.                                           *)

\* Serve leaves the file to save, and no add or remove succeeds in it.
LEMMA ServeSucceeds ==
    ASSUME NEW t \in Threads, NEW list, Serve(t, list), IInv,
           NEW u \in Threads, NEW op \in {"add", "remove"}
    PROVE  ~Succeeds(u, op)
  <1> SUFFICES ASSUME Succeeds(u, op)
               PROVE  FALSE
    OBVIOUS
  <1>1. pc[u] # "done" /\ pc'[u] = "done" /\ answer'[u].status = "ok" /\ call[u].op = op
    BY DEF Succeeds
  <1>2. \A x, y : Finish(t, x, y) => u = t /\ x = "ok"
    BY <1>1 DEF Finish, IInv, TypeOK, Answer
  <1>3. \A y : ~Save(t, y)
    BY <1>1 DEF Save, IInv, TypeOK
  <1>4. CASE ServeId(t, list)
    <2>1. \A x, y : Finish(t, x, y) => call[t].op \in {"add", "remove"} /\ x # "NotFound"
      BY <1>1, <1>2
    <2>2. QED
      BY <1>3, <1>4, <2>1 DEF ServeId
  <1>5. CASE ServeAdd(t, list)
    BY <1>2, <1>3, <1>5 DEF ServeAdd
  <1>6. CASE ServeList(t, list)
    BY <1>1, <1>2, <1>6 DEF ServeList
  <1>7. QED
    BY <1>4, <1>5, <1>6 DEF Serve

\* The file changes, and an add or a remove succeeds, in Commit only: there
\* both happen, and there always.
LEMMA CommitOnly ==
    ASSUME IInv, [Next]_vars
    PROVE  /\ file' # file =>
                 \E t \in Threads : Commit(t) /\ Finish(t, "ok", <<>>)
                                    /\ file' = Document(packages[t])
           /\ \A t \in Threads, op \in {"add", "remove"} : Succeeds(t, op) =>
                 Commit(t) /\ file' = Document(packages[t])
  <1> DEFINE Quiet == \A t \in Threads, op \in {"add", "remove"} : ~Succeeds(t, op)
             OfIt == \A t \in Threads, op \in {"add", "remove"} : Succeeds(t, op) =>
                         Commit(t) /\ file' = Document(packages[t])
             Changed == \E t \in Threads : Commit(t) /\ Finish(t, "ok", <<>>)
                                    /\ file' = Document(packages[t])
  <1>1. ASSUME NEW t \in Threads, NEW status, NEW list, Finish(t, status, list), status # "ok"
        PROVE  Quiet
    BY <1>1 DEF Finish, Succeeds, IInv, TypeOK, Answer
  <1>2. ASSUME \A t \in Threads : pc[t] # "done" => pc'[t] # "done"
        PROVE  Quiet
    BY <1>2 DEF Succeeds
  <1>3. ASSUME NEW t \in Threads, NEW from, NEW to, At(t, from, to), to # "done"
        PROVE  Quiet
    BY <1>2, <1>3 DEF At, IInv, TypeOK
  <1>4. ASSUME NEW t \in Threads, Begin(t)
        PROVE  Quiet /\ UNCHANGED file
    BY <1>3, <1>4 DEF Begin
  <1>5. ASSUME NEW t \in Threads, RejectPackage(t)
        PROVE  Quiet /\ UNCHANGED file
    BY <1>1, <1>5 DEF RejectPackage
  <1>6. ASSUME NEW t \in Threads, Lock(t)
        PROVE  Quiet /\ UNCHANGED file
    BY <1>3, <1>6 DEF Lock
  <1>7. ASSUME NEW t \in Threads, LookForFile(t)
        PROVE  Quiet /\ UNCHANGED file
    <2>1. CASE Finish(t, "IoError", <<>>)
      BY <1>1, <1>7, <2>1 DEF LookForFile
    <2>2. CASE Serve(t, Loaded(file).packages)
      BY <1>7, <2>2, ServeSucceeds DEF LookForFile
    <2>3. CASE At(t, "locked", "found")
      BY <1>3, <1>7, <2>3 DEF LookForFile
    <2>4. QED
      BY <1>7, <2>1, <2>2, <2>3 DEF LookForFile
  <1>8. ASSUME NEW t \in Threads, ReadFile(t)
        PROVE  Quiet /\ UNCHANGED file
    <2>1. CASE Finish(t, "IoError", <<>>)
      BY <1>1, <1>8, <2>1 DEF ReadFile
    <2>2. CASE Serve(t, Loaded(file).packages)
      BY <1>8, <2>2, ServeSucceeds DEF ReadFile
    <2>3. CASE Loaded(file).status # "ok" /\ Finish(t, Loaded(file).status, <<>>)
      BY <1>1, <1>8, <2>3 DEF ReadFile
    <2>4. QED
      BY <1>8, <2>1, <2>2, <2>3 DEF ReadFile
  <1>9. ASSUME NEW t \in Threads, WriteTemporary(t)
        PROVE  Quiet /\ UNCHANGED file
    <2>1. CASE Finish(t, "IoError", <<>>) \/ Finish(t, "InvalidFormat", <<>>)
      BY <1>1, <1>9, <2>1 DEF WriteTemporary
    <2>2. CASE At(t, "saving", "written")
      BY <1>3, <1>9, <2>2 DEF WriteTemporary
    <2>3. QED
      BY <1>9, <2>1, <2>2 DEF WriteTemporary
  <1>10. ASSUME NEW t \in Threads, Commit(t)
         PROVE  OfIt /\ (file' # file => Changed)
    <2>1. CASE Finish(t, "IoError", <<>>) /\ UNCHANGED file
      BY <1>1, <2>1
    <2>2. CASE Finish(t, "ok", <<>>) /\ file' = Document(packages[t])
      <3>1. \A u \in Threads : pc[u] # "done" /\ pc'[u] = "done" => u = t
        BY <2>2 DEF Finish, IInv, TypeOK
      <3>2. QED
        BY <1>10, <2>2, <3>1 DEF Succeeds
    <2>3. QED
      BY <1>10, <2>1, <2>2 DEF Commit
  <1>11. ASSUME NEW gone, Forget(gone)
         PROVE  Quiet /\ UNCHANGED file
    <2>1. \A t \in Threads : pc[t] # "done" => pc'[t] # "done"
      BY <1>11 DEF Forget
    <2>2. QED
      BY <1>2, <1>11, <2>1 DEF Forget
  <1>12. ASSUME UNCHANGED vars
         PROVE  Quiet /\ UNCHANGED file
    <2>1. Quiet
      BY <1>12 DEF vars, Succeeds
    <2>2. QED
      BY <1>12, <2>1 DEF vars
  <1>13. Quiet => OfIt
    OBVIOUS
  <1>14. OfIt /\ (file' # file => Changed)
    <2>1. Quiet /\ UNCHANGED file => OfIt /\ (file' # file => Changed)
      BY <1>13
    <2> HIDE DEF Quiet, OfIt, Changed
    <2>2. ASSUME NEW t \in Threads, Begin(t) \/ Step(t)
          PROVE  OfIt /\ (file' # file => Changed)
      <3>1. CASE Return(t)
        BY <1>11, <2>1, <3>1 DEF Return
      <3>2. CASE Commit(t)
        BY <1>10, <3>2
      <3>3. QED
        BY <1>4, <1>5, <1>6, <1>7, <1>8, <1>9, <2>1, <2>2, <3>1, <3>2 DEF Step
    <2>3. ASSUME NEW o \in Objects, Crash(o)
          PROVE  OfIt /\ (file' # file => Changed)
      BY <1>11, <2>1, <2>3 DEF Crash
    <2>4. CASE UNCHANGED vars
      BY <1>12, <2>1, <2>4
    <2>5. CASE Next
      BY <2>2, <2>3, <2>5 DEF Next
    <2>6. QED
      BY <2>4, <2>5
  <1>15. QED
    BY <1>14

\* The file changes in no step but the one in which an add or a remove answers
\* success, whatever fails and whenever programs end.
THEOREM ChangesWithSuccess == Spec => ChangesOnlyWithSuccess
  <1> DEFINE Due == \E t \in Threads :
                        /\ call[t].op \in {"add", "remove"}
                        /\ pc[t] # "done" /\ pc'[t] = "done" /\ answer'[t].status = "ok"
  <1>1. ASSUME IInv, [Next]_vars, file' # file
        PROVE  Due
    <2>1. PICK t \in Threads : Commit(t) /\ Finish(t, "ok", <<>>)
      BY <1>1, CommitOnly
    <2>2. call[t].op \in {"add", "remove"} /\ pc[t] = "written"
      BY <1>1, <2>1 DEF Commit, IInv, Lists, Saving
    <2>3. pc'[t] = "done" /\ answer'[t].status = "ok"
      BY <1>1, <2>1 DEF Finish, IInv, TypeOK, Answer
    <2>4. QED
      BY <2>2, <2>3
  <1>2. QED
    BY <1>1, CatalogInvariant, PTL DEF Spec, ChangesOnlyWithSuccess

\* With texts that QString keeps, whatever the catalog writes can be read
\* again, through any number of objects.
THEOREM CatalogStaysLoadable ==
    ASSUME TextsSurvive
    PROVE  Spec => StaysLoadable
  <1>1. ASSUME IInv, [Next]_vars, Loaded(file).status = "ok"
        PROVE  Loaded(file').status = "ok"
    <2>1. CASE file' = file
      BY <1>1, <2>1
    <2>2. CASE file' # file
      <3>1. PICK t \in Threads : Commit(t) /\ file' = Document(packages[t])
        BY <1>1, <2>2, CommitOnly
      <3>2. IsValidList(packages[t])
        BY <1>1, <3>1 DEF Commit, IInv, Lists, Saving
      <3>3. QED
        BY <3>1, <3>2, SavedLists, TextsSurvive DEF Answer
    <2>3. QED
      BY <2>1, <2>2
  <1>2. QED
    BY <1>1, CatalogInvariant, PTL DEF Spec, StaysLoadable

\* With texts that QString keeps, a package whose add answered success is in
\* the file then, and one whose remove did is not.
THEOREM SuccessesAreInFile ==
    ASSUME TextsSurvive
    PROVE  Spec => SuccessIsInFile
  <1> DEFINE Kept == \A t \in Threads :
                 /\ Succeeds(t, "add") => AsStored(call[t].package) \in Stored'
                 /\ Succeeds(t, "remove") => \A p \in Stored' : p.id # call[t].id
  <1>1. ASSUME IInv, [Next]_vars
        PROVE  Kept
    <2> SUFFICES ASSUME NEW t \in Threads, NEW op \in {"add", "remove"}, Succeeds(t, op)
                 PROVE  Effective(call[t], Loaded(file').packages) /\ call[t].op = op
      <3>1. ASSUME NEW t \in Threads, call[t].op = "add"
            PROVE  AsStored(call[t].package) = call[t].package
        <4>1. call[t].package \in InstalledPackages
          BY <1>1, <3>1, CallFields DEF IInv, TypeOK, NoCall
        <4>2. QED
          BY <4>1, TextsSurvive DEF AsStored, InstalledPackages, Fields, TextsSurvive
      <3>2. QED
        BY <3>1 DEF Effective, Stored, Succeeds
    <2>1. Commit(t) /\ file' = Document(packages[t])
      BY <1>1, CommitOnly
    <2>2. IsValidList(packages[t]) /\ Effective(call[t], packages[t])
      BY <1>1, <2>1 DEF Commit, IInv, Lists, Saving
    <2>3. Loaded(file').packages = packages[t]
      BY <2>1, <2>2, SavedLists, TextsSurvive DEF Answer
    <2>4. QED
      BY <2>2, <2>3 DEF Succeeds
  <1>2. QED
    BY <1>1, CatalogInvariant, PTL DEF Spec, SuccessIsInFile

-----------------------------------------------------------------------------
(* A catalog that is used through one object.                              *)

OneObject == \A t, u \in Threads : ObjectOf[t] = ObjectOf[u]

\* What is about to be saved is an update of what the file still holds.
Current ==
    \A t \in Threads :
        pc[t] \in Saving =>
            /\ Loaded(file).status = "ok"
            /\ Updates(Loaded(file).packages, call[t], packages[t])

\* Nothing is being saved when all begins.
LEMMA CurrentInit == Init => Current
  BY DEF Init, Current, Saving

\* The mutex lets one call at a time past Lock.
LEMMA OneInside ==
    ASSUME OneObject, IInv, NEW t \in Threads, NEW u \in Threads,
           pc[t] \in Inside, pc[u] \in Inside
    PROVE  t = u
  BY DEF OneObject, IInv, Owners

\* The file changes under no call that is about to save, because the mutex
\* keeps the others out; and a call saves what it makes of the list it reads.
LEMMA CurrentNext ==
    ASSUME OneObject, IInv, Current, [Next]_vars
    PROVE  Current'
  <1>1. CASE file' # file
    <2>1. PICK t \in Threads : Commit(t) /\ Finish(t, "ok", <<>>)
      BY <1>1, CommitOnly
    <2>2. pc[t] \in Inside /\ \A u \in Threads : pc'[u] \in Inside => pc[u] \in Inside /\ u # t
      BY <2>1 DEF Commit, Finish, IInv, TypeOK, Inside
    <2>3. \A u \in Threads : pc'[u] \notin Saving
      BY <2>2, OneInside DEF Inside, Saving
    <2>4. QED
      BY <2>3 DEF Current
  <1>2. CASE file' = file
    <2> DEFINE Same(t) == pc'[t] \in Saving =>
                  pc[t] \in Saving /\ call'[t] = call[t] /\ packages'[t] = packages[t]
               New(t) == /\ Loaded(file).status = "ok"
                         /\ Updates(Loaded(file).packages, call'[t], packages'[t])
    <2>1. ASSUME NEW t \in Threads, NEW status, NEW list, Finish(t, status, list)
          PROVE  \A u \in Threads : Same(u)
      BY <2>1 DEF Finish, IInv, TypeOK, Saving
    <2>2. ASSUME NEW t \in Threads, NEW from, NEW to, At(t, from, to),
                 to \in Saving => from \in Saving, UNCHANGED packages,
                 \A u \in Threads : u # t => call'[u] = call[u],
                 from \in Saving => call'[t] = call[t]
          PROVE  \A u \in Threads : Same(u)
      BY <2>2 DEF At, IInv, TypeOK
    <2>3. ASSUME NEW t \in Threads, Serve(t, Loaded(file).packages), Loaded(file).status = "ok"
          PROVE  \A u \in Threads : Same(u) \/ New(u)
      <3>1. IsValidList(Loaded(file).packages)
        BY LoadedLists DEF IInv, TypeOK
      <3>2. CASE \E status \in Errors \union {"ok"}, result \in Seq(InstalledPackages) :
                     Finish(t, status, result)
        BY <2>1, <3>2
      <3>3. CASE \E new : Save(t, new) /\ Updates(Loaded(file).packages, call[t], new)
        <4>1. PICK new : Save(t, new) /\ Updates(Loaded(file).packages, call[t], new)
          BY <3>3
        <4>2. \A u \in Threads : u # t => Same(u)
          BY <4>1 DEF Save, IInv, TypeOK
        <4>3. New(t)
          BY <2>3, <4>1 DEF Save, IInv, TypeOK
        <4>4. QED
          BY <4>2, <4>3
      <3>4. QED
        BY <2>3, <3>1, <3>2, <3>3, ServeCases
    <2>4. \A u \in Threads : Same(u) \/ New(u)
      <3> HIDE DEF Same, New
      <3>1. ASSUME NEW t \in Threads, Begin(t)
            PROVE  \A u \in Threads : Same(u)
        <4>1. /\ At(t, "idle", "called") /\ UNCHANGED packages
              /\ \A u \in Threads : u # t => call'[u] = call[u]
          BY <3>1 DEF Begin, IInv, TypeOK
        <4>2. QED
          BY <2>2, <4>1 DEF Saving
      <3>2. ASSUME NEW t \in Threads, RejectPackage(t) \/ Commit(t)
            PROVE  \A u \in Threads : Same(u)
        BY <2>1, <3>2 DEF RejectPackage, Commit
      <3>3. ASSUME NEW t \in Threads, Lock(t)
            PROVE  \A u \in Threads : Same(u)
        BY <2>2, <3>3 DEF Lock, Saving
      <3>4. ASSUME NEW t \in Threads, LookForFile(t)
            PROVE  \A u \in Threads : Same(u) \/ New(u)
        <4>1. CASE Finish(t, "IoError", <<>>)
          BY <2>1, <4>1
        <4>2. CASE file.form = "absent" /\ Serve(t, Loaded(file).packages)
          BY <2>3, <4>2, LoadedLists DEF IInv, TypeOK
        <4>3. CASE At(t, "locked", "found") /\ UNCHANGED <<call, packages>>
          BY <2>2, <4>3 DEF Saving
        <4>4. QED
          BY <3>4, <4>1, <4>2, <4>3 DEF LookForFile
      <3>5. ASSUME NEW t \in Threads, ReadFile(t)
            PROVE  \A u \in Threads : Same(u) \/ New(u)
        BY <2>1, <2>3, <3>5 DEF ReadFile
      <3>6. ASSUME NEW t \in Threads, WriteTemporary(t)
            PROVE  \A u \in Threads : Same(u)
        <4>1. CASE Finish(t, "IoError", <<>>) \/ Finish(t, "InvalidFormat", <<>>)
          BY <2>1, <4>1
        <4>2. CASE At(t, "saving", "written") /\ UNCHANGED <<call, packages>>
          BY <2>2, <4>2 DEF Saving
        <4>3. QED
          BY <3>6, <4>1, <4>2 DEF WriteTemporary
      <3>7. ASSUME NEW gone, Forget(gone)
            PROVE  \A u \in Threads : Same(u)
        BY <3>7 DEF Forget, Same, Saving
      <3>8. CASE UNCHANGED vars
        BY <3>8 DEF vars, Same
      <3>9. ASSUME NEW t \in Threads, Begin(t) \/ Step(t)
            PROVE  \A u \in Threads : Same(u) \/ New(u)
        BY <3>1, <3>2, <3>3, <3>4, <3>5, <3>6, <3>7, <3>9 DEF Step, Return
      <3>10. ASSUME NEW o \in Objects, Crash(o)
             PROVE  \A u \in Threads : Same(u) \/ New(u)
        BY <3>7, <3>10 DEF Crash
      <3>11. CASE Next
        BY <3>9, <3>10, <3>11 DEF Next
      <3>12. QED
        BY <3>8, <3>11
    <2>5. QED
      BY <1>2, <2>4 DEF Current
  <1>3. QED
    BY <1>1, <1>2

\* Through one object, no call saves a list that is out of date.
THEOREM CurrentInvariant ==
    ASSUME OneObject
    PROVE  Spec => []Current
  <1>1. IInv /\ Current /\ [Next]_vars => Current'
    BY CurrentNext
  <1>2. QED
    BY <1>1, CurrentInit, CatalogInvariant, PTL DEF Spec

\* Through one object, a file that load refuses is never written over.
THEOREM DamagedFileIsKept ==
    ASSUME OneObject
    PROVE  Spec => DamageIsKept
  <1>1. ASSUME IInv, Current, [Next]_vars, Loaded(file).status # "ok"
        PROVE  UNCHANGED file
    <2> SUFFICES ASSUME file' # file
                 PROVE  FALSE
      OBVIOUS
    <2>1. PICK t \in Threads : Commit(t)
      BY <1>1, CommitOnly
    <2>2. QED
      BY <1>1, <2>1 DEF Commit, Current, Saving
  <1>2. QED
    BY <1>1, CatalogInvariant, CurrentInvariant, PTL DEF Spec, DamageIsKept

-----------------------------------------------------------------------------
(* One object implements CatalogStore.                                     *)

\* The packages the file begins with are among those of the store.
KnownFiles == \A f \in CatalogFiles : Elements(Loaded(f).packages) \subseteq Packages

\* The answers as a client of the store sees them: a set of packages.
StoreAnswer == [t \in Threads |-> Answer(answer[t].status, Elements(answer[t].packages))]

\* The packages of short lists.
LEMMA ShortLists ==
    /\ Elements(<<>>) = {}
    /\ \A p : Elements(<<p>>) = {p}
  <1>1. Elements(<<>>) = {}
    BY DEF Elements
  <1>2. ASSUME NEW p
        PROVE  Elements(<<p>>) = {p}
    <2>1. DOMAIN <<p>> = {1} /\ <<p>>[1] = p
      OBVIOUS
    <2>2. QED
      BY <2>1 DEF Elements
  <1>3. QED
    BY <1>1, <1>2

\* One package at most has an id.
LEMMA InstalledOnce ==
    ASSUME NEW list, IsValidList(list), NEW i \in DOMAIN list
    PROVE  {p \in Elements(list) : p.id = list[i].id} = {list[i]}
  BY DEF IsValidList, Distinct, Elements

\* A call that has not answered is pending for the store.
LEMMA StorePending == Answer(NoAnswer.status, Elements(NoAnswer.packages)) = Store!Pending
  <1>1. NoAnswer.status = "none" /\ NoAnswer.packages = <<>>
    BY DEF NoAnswer, Answer
  <1>2. QED
    BY <1>1, ShortLists DEF Answer, Store!Pending, Store!Answer

\* A catalog file at the start is a state in which the store may begin.
LEMMA StoreInit ==
    ASSUME KnownFiles, Init
    PROVE  Store!Init
  <1>1. file \in Files /\ file \in CatalogFiles
    BY CatalogAssumption DEF Init
  <1>2. IsValidList(Loaded(file).packages)
    BY <1>1, LoadedLists
  <1>3. Stored \in SUBSET Packages
    BY <1>1 DEF KnownFiles, Stored
  <1>4. \A p, q \in Stored : p.id = q.id => p = q
    BY <1>2 DEF IsValidList, Distinct, Stored, Elements
  <1>5. call = [t \in Threads |-> Store!Idle]
    BY DEF Init, NoCall, Store!Idle
  <1>6. StoreAnswer = [t \in Threads |-> Store!Pending]
    BY ShortLists DEF Init, NoAnswer, Answer, StoreAnswer, Store!Pending, Store!Answer
  <1>7. QED
    BY <1>3, <1>4, <1>5, <1>6 DEF Store!Init, StoreAnswer

\* A call that has not answered is pending for the store; when it answers so
\* does the store.
LEMMA StoreAnswers ==
    ASSUME IInv, NEW t \in Threads, pc[t] \notin {"idle", "done"},
           NEW status \in Errors \union {"ok"}, NEW list \in Seq(InstalledPackages),
           Finish(t, status, list)
    PROVE  /\ call[t] \in Calls /\ UNCHANGED call
           /\ StoreAnswer[t] = Store!Pending
           /\ StoreAnswer' = [StoreAnswer EXCEPT ![t] = Store!Answer(status, Elements(list))]
  <1>1. call[t] \in Calls /\ UNCHANGED call
    BY DEF IInv, Requests, Finish
  <1>2. StoreAnswer[t] = Store!Pending
    <2>1. answer[t] = NoAnswer
      BY DEF IInv, Requests
    <2>2. QED
      BY <2>1, StorePending DEF StoreAnswer
  <1>3. StoreAnswer' = [StoreAnswer EXCEPT ![t] = Store!Answer(status, Elements(list))]
    <2>1. answer' = [answer EXCEPT ![t] = Answer(status, list)]
      BY DEF Finish
    <2>2. \A u \in Threads : answer'[u] = IF u = t THEN Answer(status, list) ELSE answer[u]
      BY <2>1 DEF IInv, TypeOK
    <2>3. \A u \in Threads : StoreAnswer'[u] =
              IF u = t THEN Store!Answer(status, Elements(list)) ELSE StoreAnswer[u]
      BY <2>2 DEF StoreAnswer, Answer, Store!Answer
    <2>4. QED
      BY <2>3 DEF StoreAnswer
  <1>4. QED
    BY <1>1, <1>2, <1>3

\* A failure is a failure of the store.
LEMMA StoreFails ==
    ASSUME IInv, NEW t \in Threads, pc[t] \notin {"idle", "done"}, UNCHANGED file,
           NEW status \in {"IoError", "InvalidFormat", "UnsupportedSchemaVersion"},
           Finish(t, status, <<>>)
    PROVE  Store!Next
  <1>1. /\ call[t] \in Calls /\ UNCHANGED call /\ StoreAnswer[t] = Store!Pending
        /\ StoreAnswer' = [StoreAnswer EXCEPT ![t] = Store!Answer(status, {})]
    <2>1. status \in Errors \union {"ok"} /\ <<>> \in Seq(InstalledPackages)
      BY ErrorAnswers
    <2>2. /\ call[t] \in Calls /\ UNCHANGED call /\ StoreAnswer[t] = Store!Pending
          /\ StoreAnswer' = [StoreAnswer EXCEPT ![t] = Store!Answer(status, Elements(<<>>))]
      BY ONLY <2>1, StoreAnswers, IInv, t \in Threads, pc[t] \notin {"idle", "done"},
              Finish(t, status, <<>>)
    <2>3. QED
      BY <2>2, ShortLists
  <1>2. UNCHANGED Stored
    BY DEF Stored
  <1>3. call[t].op \in {"add", "get", "contains", "remove", "list"}
    BY <1>1 DEF Calls
  <1>4. Store!Fail(t)
    BY <1>1, <1>2, <1>3 DEF Store!Fail, Store!Effect, StoreAnswer
  <1>5. QED
    BY <1>4 DEF Store!Next

\* A step that neither answers nor changes the file is none of the store.
LEMMA StoreStutters ==
    ASSUME UNCHANGED <<file, call, answer>>
    PROVE  UNCHANGED Store!vars
  BY DEF Store!vars, Stored

\* A call that finishes with what it has loaded takes effect there and then.
LEMMA StoreServes ==
    ASSUME IInv, NEW t \in Threads, pc[t] \in {"locked", "found"}, UNCHANGED file,
           Serve(t, Loaded(file).packages)
    PROVE  [Store!Next]_(Store!vars)
  <1> DEFINE list == Loaded(file).packages
             c == call[t]
  <1>1. IsValidList(list) /\ list \in Seq(InstalledPackages) /\ <<>> \in Seq(InstalledPackages)
    BY LoadedLists DEF IInv, TypeOK, IsValidList
  <1>2. UNCHANGED Stored /\ Stored = Elements(list)
    BY DEF Stored
  <1>3. ASSUME NEW new, Save(t, new)
        PROVE  UNCHANGED Store!vars
    BY <1>3, StoreStutters DEF Save
  <1>4. ASSUME NEW status \in Errors \union {"ok"}, NEW result \in Seq(InstalledPackages),
               Finish(t, status, result),
               NEW ops, c.op \in ops
        PROVE  Store!Effect(t, ops, Store!Answer(status, Elements(result)))
    BY <1>4, StoreAnswers DEF Store!Effect, StoreAnswer
  <1>5. {"ok", "NotFound", "AlreadyExists"} \subseteq Errors \union {"ok"}
    BY DEF Errors
  <1> HIDE DEF list
  <1>6. CASE ServeId(t, list)
    <2>1. ASSUME NEW i \in DOMAIN list, list[i].id = c.id, c.op \in {"get", "contains"},
                 Finish(t, "ok", <<list[i]>>)
          PROVE  Store!Next
      <3>1. <<list[i]>> \in Seq(InstalledPackages) /\ Elements(<<list[i]>>) = {list[i]}
        BY <1>1, ShortLists
      <3>2. Store!Installed(c.id) = {list[i]} /\ {list[i]} # {}
        BY <1>1, <1>2, <2>1, InstalledOnce DEF Store!Installed
      <3>3. Store!Get(t) \/ Store!Contains(t)
        BY <1>2, <1>4, <1>5, <2>1, <3>1, <3>2 DEF Store!Get, Store!Contains
      <3>4. QED
        BY <3>3 DEF Store!Next
    <2>2. ASSUME \A i \in DOMAIN list : list[i].id # c.id,
                 c.op \in {"get", "contains", "remove"},
                 Finish(t, IF c.op = "contains" THEN "ok" ELSE "NotFound", <<>>)
          PROVE  Store!Next
      <3>1. Store!Installed(c.id) = {}
        BY <1>2, <2>2 DEF Store!Installed, Elements
      <3>2. Stored \ {} = Stored
        OBVIOUS
      <3>3. Store!Get(t) \/ Store!Contains(t) \/ Store!Remove(t)
        BY <1>1, <1>2, <1>4, <1>5, <2>2, <3>1, <3>2, ShortLists
        DEF Store!Get, Store!Contains, Store!Remove
      <3>4. QED
        BY <3>3 DEF Store!Next
    <2>3. QED
      BY <1>3, <1>6, <2>1, <2>2 DEF ServeId
  <1>7. CASE ServeAdd(t, list)
    <2>1. CASE IsInstalled(list, c.package) /\ Finish(t, "AlreadyExists", <<>>)
      <3>1. Store!Installed(c.package.id) # {}
        BY <1>2, <2>1 DEF IsInstalled, Store!Installed, Elements
      <3>2. Store!Add(t)
        BY <1>1, <1>2, <1>4, <1>5, <1>7, <2>1, <3>1, ShortLists DEF Store!Add, ServeAdd
      <3>3. QED
        BY <3>2 DEF Store!Next
    <2>2. CASE \E new : Save(t, new)
      BY <1>3, <2>2
    <2>3. QED
      BY <1>7, <2>1, <2>2 DEF ServeAdd
  <1>8. CASE ServeList(t, list)
    <2>1. Store!List(t)
      BY <1>1, <1>2, <1>4, <1>5, <1>8 DEF ServeList, Store!List
    <2>2. QED
      BY <2>1 DEF Store!Next
  <1>9. QED
    BY <1>6, <1>7, <1>8 DEF Serve, list

\* An add or a remove takes effect when the file is replaced.
LEMMA StoreCommits ==
    ASSUME TextsSurvive, IInv, Current, NEW t \in Threads, pc[t] = "written",
           Finish(t, "ok", <<>>), file' = Document(packages[t])
    PROVE  Store!Next
  <1> DEFINE list == Loaded(file).packages
             c == call[t]
  <1>1. Updates(list, c, packages[t]) /\ IsValidList(packages[t]) /\ IsValidList(list)
    BY LoadedLists DEF Current, IInv, TypeOK, Lists, Saving
  <1>2. /\ c \in Calls /\ UNCHANGED call /\ StoreAnswer[t] = Store!Pending
        /\ StoreAnswer' = [StoreAnswer EXCEPT ![t] = Store!Answer("ok", {})]
    <2>1. "ok" \in Errors \union {"ok"} /\ <<>> \in Seq(InstalledPackages)
      BY ErrorAnswers
    <2>2. /\ call[t] \in Calls /\ UNCHANGED call /\ StoreAnswer[t] = Store!Pending
          /\ StoreAnswer' = [StoreAnswer EXCEPT ![t] = Store!Answer("ok", Elements(<<>>))]
      BY ONLY <2>1, StoreAnswers, IInv, t \in Threads, pc[t] \notin {"idle", "done"},
              Finish(t, "ok", <<>>)
    <2>3. QED
      BY <2>2, ShortLists
  <1>3. Stored = Elements(list) /\ Stored' = Elements(packages[t])
    BY <1>1, SavedLists DEF Stored, Answer
  <1>4. CASE c.op = "add"
    <2>1. /\ ~IsInstalled(list, c.package) /\ packages[t] = Append(list, c.package)
          /\ c.package \in InstalledPackages /\ validatePackage(c.package)
      BY <1>1, <1>2, <1>4, CallFields DEF Updates, IInv, Requests, Inside
    <2>2. Stored' = Stored \union {c.package}
      BY <1>1, <1>3, <2>1, Added
    <2>3. Store!Installed(c.package.id) = {}
      BY <1>3, <2>1 DEF IsInstalled, Store!Installed, Elements
    <2>4. Store!Add(t)
      BY <1>2, <1>4, <2>2, <2>3 DEF Store!Add, Store!Effect, StoreAnswer
    <2>5. QED
      BY <2>4 DEF Store!Next
  <1>5. CASE c.op = "remove"
    <2>1. PICK i \in DOMAIN list : list[i].id = c.id /\ packages[t] = Without(list, i)
      BY <1>1, <1>5 DEF Updates
    <2>2. Stored' = {p \in Stored : p.id # c.id}
      BY <1>1, <1>3, <2>1, Removed
    <2>3. Stored' = Stored \ Store!Installed(c.id)
      BY <2>2 DEF Store!Installed
    <2>4. Store!Installed(c.id) # {}
      BY <1>3, <2>1 DEF Store!Installed, Elements
    <2>5. Store!Remove(t)
      BY <1>2, <1>5, <2>3, <2>4 DEF Store!Remove, Store!Effect, StoreAnswer
    <2>6. QED
      BY <2>5 DEF Store!Next
  <1>6. QED
    BY <1>1, <1>4, <1>5 DEF Updates

\* The calls that return or end with their program leave the store as it is.
LEMMA StoreForgets ==
    ASSUME IInv, NEW gone \in SUBSET Threads, Forget(gone)
    PROVE  Store!Next
  <1>1. UNCHANGED Stored
    BY DEF Forget, Stored
  <1>2. call' = [t \in Threads |-> IF t \in gone THEN Store!Idle ELSE call[t]]
    BY DEF Forget, NoCall, Store!Idle
  <1>3. StoreAnswer' = [t \in Threads |-> IF t \in gone THEN Store!Pending ELSE StoreAnswer[t]]
    <2>1. \A t \in Threads : answer'[t] = IF t \in gone THEN NoAnswer ELSE answer[t]
      BY DEF Forget
    <2>2. \A t \in Threads : StoreAnswer'[t] = IF t \in gone THEN Store!Pending ELSE StoreAnswer[t]
      BY <2>1, StorePending DEF StoreAnswer
    <2>3. QED
      BY <2>2 DEF StoreAnswer
  <1>4. Store!Vanish(gone)
    BY <1>1, <1>2, <1>3 DEF Store!Vanish, StoreAnswer
  <1>5. QED
    BY <1>4 DEF Store!Next

\* Every step is one of the store, or none of its business.
LEMMA StoreNext ==
    ASSUME TextsSurvive, IInv, Current, [Next]_vars
    PROVE  [Store!Next]_(Store!vars)
  <1>1. ASSUME NEW t \in Threads, Begin(t)
        PROVE  Store!Next
    <2>1. PICK c \in Calls : call' = [call EXCEPT ![t] = c]
      BY <1>1 DEF Begin
    <2>2. call[t] = Store!Idle
      BY <1>1 DEF Begin, At, IInv, Requests, NoCall, Store!Idle
    <2>3. c \in Store!Requests
      BY DEF Calls, Store!Requests
    <2>4. UNCHANGED Stored /\ UNCHANGED StoreAnswer
      BY <1>1 DEF Begin, Stored, StoreAnswer
    <2>5. Store!Begin(t)
      BY <2>1, <2>2, <2>3, <2>4 DEF Store!Begin, StoreAnswer
    <2>6. QED
      BY <2>5 DEF Store!Next
  <1>2. ASSUME NEW t \in Threads, RejectPackage(t)
        PROVE  Store!Next
    BY <1>2, StoreFails DEF RejectPackage
  <1>3. ASSUME NEW t \in Threads, Lock(t)
        PROVE  UNCHANGED Store!vars
    BY <1>3, StoreStutters DEF Lock
  <1>4. ASSUME NEW t \in Threads, LookForFile(t)
        PROVE  [Store!Next]_(Store!vars)
    <2>1. CASE Finish(t, "IoError", <<>>)
      BY <1>4, <2>1, StoreFails DEF LookForFile
    <2>2. CASE Serve(t, Loaded(file).packages)
      BY <1>4, <2>2, StoreServes DEF LookForFile
    <2>3. CASE At(t, "locked", "found") /\ UNCHANGED <<mutex, call, packages, answer>>
      BY <1>4, <2>3, StoreStutters DEF LookForFile
    <2>4. QED
      BY <1>4, <2>1, <2>2, <2>3 DEF LookForFile
  <1>5. ASSUME NEW t \in Threads, ReadFile(t)
        PROVE  [Store!Next]_(Store!vars)
    <2>1. Loaded(file).status \in {"ok", "InvalidFormat", "UnsupportedSchemaVersion"}
      BY LoadedLists DEF IInv, TypeOK
    <2>2. CASE Finish(t, "IoError", <<>>)
      BY <1>5, <2>2, StoreFails DEF ReadFile
    <2>3. CASE Serve(t, Loaded(file).packages)
      BY <1>5, <2>3, StoreServes DEF ReadFile
    <2>4. CASE Loaded(file).status # "ok" /\ Finish(t, Loaded(file).status, <<>>)
      BY <1>5, <2>1, <2>4, StoreFails DEF ReadFile
    <2>5. QED
      BY <1>5, <2>2, <2>3, <2>4 DEF ReadFile
  <1>6. ASSUME NEW t \in Threads, WriteTemporary(t)
        PROVE  [Store!Next]_(Store!vars)
    <2>1. CASE Finish(t, "IoError", <<>>) \/ Finish(t, "InvalidFormat", <<>>)
      BY <1>6, <2>1, StoreFails DEF WriteTemporary
    <2>2. CASE At(t, "saving", "written") /\ UNCHANGED <<mutex, call, packages, answer>>
      BY <1>6, <2>2, StoreStutters DEF WriteTemporary
    <2>3. QED
      BY <1>6, <2>1, <2>2 DEF WriteTemporary
  <1>7. ASSUME NEW t \in Threads, Commit(t)
        PROVE  Store!Next
    BY <1>7, StoreFails, StoreCommits DEF Commit
  <1>8. ASSUME NEW t \in Threads, Return(t)
        PROVE  Store!Next
    BY <1>8, StoreForgets DEF Return
  <1>9. ASSUME NEW o \in Objects, Crash(o)
        PROVE  Store!Next
    BY <1>9, StoreForgets DEF Crash
  <1>10. CASE UNCHANGED vars
    BY <1>10, StoreStutters DEF vars
  <1>11. ASSUME NEW t \in Threads, Begin(t) \/ Step(t)
         PROVE  [Store!Next]_(Store!vars)
    BY <1>1, <1>2, <1>3, <1>4, <1>5, <1>6, <1>7, <1>8, <1>11 DEF Step
  <1>12. QED
    BY <1>9, <1>10, <1>11 DEF Next

\* Used through one object, with texts that QString keeps, the catalog
\* implements the store: each call takes effect at one instant.
THEOREM CatalogImplementsStore ==
    ASSUME OneObject, TextsSurvive, KnownFiles
    PROVE  Spec => ImplementsStore
  <1>1. Init => Store!Init
    BY StoreInit
  <1>2. IInv /\ Current /\ [Next]_vars => [Store!Next]_(Store!vars)
    BY StoreNext
  <1>3. QED
    BY <1>1, <1>2, CatalogInvariant, CurrentInvariant, PTL
    DEF Spec, ImplementsStore, Store!Spec
=============================================================================
