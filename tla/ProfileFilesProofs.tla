------------------------- MODULE ProfileFilesProofs -------------------------
(***************************************************************************)
(* What the files of JsonProfilePersistence are worth, for any number of   *)
(* callers, profiles and texts: what is loaded was saved, and what was     *)
(* saved undisturbed can be loaded.                                        *)
(***************************************************************************)
EXTENDS ProfileFiles, TLAPS

IsOpen(c) == pc[c] \in {"opened", "buffered"}

\* A whole document is one of those that may be in the file.
AskedFor ==
    \A f \in Files :
        /\ file[f].form = "document" => file[f] \in asked[f]
        /\ \A c \in Callers : HasOpen(c, f) => ToJson(request[c]) \in asked[f]

\* What is undisturbed has found nothing to write over.
Alone ==
    \A c \in undisturbed :
        /\ IsOpen(c) /\ file[My(c)] = Bare("empty")
        /\ \A d \in Callers \ {c} : ~HasOpen(d, My(c))

\* A save that was kept is what the file holds, and nobody is going to write.
Kept ==
    \A f \in Files : \A r \in kept[f] :
        /\ r \in Requests /\ r.operation.save /\ FileOf(r) = f /\ file[f] = ToJson(r)
        /\ \A c \in Callers : ~HasOpen(c, f)

Saving == \A c \in Callers : IsOpen(c) \/ pc[c] = "made" => Saves(c)

Inv == TypeOK /\ Saving /\ AskedFor /\ Alone /\ Kept

-----------------------------------------------------------------------------
(* The operators.                                                          *)

LEMMA FilesOfRequests == \A r \in Requests : FileOf(r) \in Files
BY DEF Files

LEMMA BareIsContent ==
    \A form \in {"missing", "empty", "damaged"} : Bare(form) \in Contents /\ Bare(form).form = form
BY DEF Bare, Contents

\* saveMetadata and saveState write a document.
LEMMA DocumentsAreContents ==
    ASSUME NEW r \in Requests
    PROVE  ToJson(r) \in Contents /\ ToJson(r).form = "document"
<1>1. r.value.version \subseteq Nat /\ r.value.text \subseteq Texts
  BY RequestsAssumption DEF Values
<1>2. \A v \in r.value.version : 2 * v \in Nat
  BY <1>1
<1>3. {2 * v : v \in r.value.version} \subseteq Nat
  BY <1>2
<1>4. {AsText[s] : s \in r.value.text} \subseteq Texts /\ {""} \subseteq Texts
  BY <1>1, TextsAssumption
<1> QED
  BY <1>3, <1>4 DEF ToJson, Contents

\* Bytes over bytes: the new document, or nothing that can be read.
LEMMA OverIsNewOrDamaged ==
    ASSUME NEW old, NEW new, NEW content \in Over(old, new)
    PROVE  /\ content \in {new, Bare("damaged")}
           /\ old.form \notin {"document", "damaged"} => content = new
BY DEF Over

\* loadMetadata and loadState answer only with a supported version.
LEMMA LoadedHasItsType ==
    ASSUME NEW part, NEW content \in Contents
    PROVE  Loaded(part, content) \in
               [code : Codes,
                value : [version : SUBSET (1 .. CURRENT_SCHEMA_VERSION),
                         text : SUBSET Texts, lists : {{}}]]
BY DEF Loaded, Answer, NoValue, Value, Codes, Contents, Supported

LEMMA FailureHasItsType ==
    ASSUME NEW code \in Codes
    PROVE  Answer(code, NoValue) \in
               [code : Codes,
                value : [version : SUBSET (1 .. CURRENT_SCHEMA_VERSION),
                         text : SUBSET Texts, lists : {{}}]]
BY DEF Answer, NoValue, Value

\* Only a document is loaded.
LEMMA OnlyDocumentsLoad ==
    ASSUME NEW part, NEW content, Loaded(part, content).code = "ok"
    PROVE  content.form = "document"
BY DEF Loaded, Answer, IsObject

LEMMA NoRequestIsRequest == NoRequest \in Requests
BY FilesAssumption DEF NoRequest

-----------------------------------------------------------------------------
(* The invariant.                                                          *)

LEMMA InvInit == Init => Inv
<1> SUFFICES ASSUME Init PROVE Inv
  OBVIOUS
<1>1. file \in [Files -> Contents] BY FilesAssumption DEF Init
<1>2. directories \subseteq Texts
  <2>1. \A r \in Requests : AsText[r.name] \in Texts
    BY RequestsAssumption, TextsAssumption
  <2>2. \A f \in Files : f[1] \in Texts BY <2>1 DEF Files, FileOf
  <2> QED BY <2>2 DEF Init
<1>3. answer \in [Callers -> [code : Codes,
                             value : [version : SUBSET (1 .. CURRENT_SCHEMA_VERSION),
                                      text : SUBSET Texts, lists : {{}}]]]
  <2>1. "ok" \in Codes BY DEF Codes
  <2> QED BY <2>1, FailureHasItsType DEF Init
<1>4. asked \in [Files -> SUBSET Contents] BY <1>1 DEF Init
<1>5. TypeOK
  BY <1>1, <1>2, <1>3, <1>4, NoRequestIsRequest DEF Init, TypeOK
<1>6. \A c \in Callers : pc[c] = "idle" BY DEF Init
<1>7. Saving /\ AskedFor /\ Alone /\ Kept
  BY <1>6 DEF Init, Saving, AskedFor, Alone, Kept, IsOpen, HasOpen
<1> QED BY <1>5, <1>7 DEF Inv

\* A step that ends up outside of the part of a save in which the file is open,
\* and changes no file.
LEMMA QuietStep ==
    ASSUME Inv, NEW c \in Callers, NEW place, ~IsOpen(c),
           place \notin {"opened", "buffered"}, place = "made" => Saves(c)',
           pc' = [pc EXCEPT ![c] = place],
           \A d \in Callers \ {c} : request'[d] = request[d],
           UNCHANGED <<file, asked, kept, undisturbed>>
    PROVE  Saving' /\ AskedFor' /\ Alone' /\ Kept'
<1>1. pc'[c] = place /\ \A d \in Callers \ {c} : pc'[d] = pc[d]
  BY DEF Inv, TypeOK
<1>2. \A d \in Callers : IsOpen(d)' => IsOpen(d) /\ request'[d] = request[d]
  BY <1>1 DEF IsOpen
<1>3. \A d \in Callers, f \in Files : HasOpen(d, f)' => HasOpen(d, f)
  BY <1>2 DEF HasOpen, IsOpen, My
<1>4. Saving' BY <1>1, <1>2 DEF Inv, Saving, Saves, IsOpen
<1>5. AskedFor' BY <1>2, <1>3 DEF Inv, AskedFor, HasOpen, IsOpen
<1>6. Alone'
  <2> SUFFICES ASSUME NEW d \in undisturbed
               PROVE  /\ IsOpen(d)' /\ file'[My(d)'] = Bare("empty")
                      /\ \A e \in Callers \ {d} : ~HasOpen(e, My(d))'
    BY DEF Alone
  <2>1. d \in Callers /\ d # c BY DEF Inv, TypeOK, Alone
  <2>2. My(d)' = My(d) /\ My(d) \in Files
    BY <2>1, FilesOfRequests DEF My, Inv, TypeOK
  <2>3. IsOpen(d)' BY <1>1, <2>1 DEF Inv, Alone, IsOpen
  <2>4. \A e \in Callers \ {d} : ~HasOpen(e, My(d))'
    BY <1>3, <2>2 DEF Inv, Alone, HasOpen
  <2> QED BY <2>2, <2>3, <2>4 DEF Inv, Alone
<1>7. Kept' BY <1>3 DEF Inv, Kept
<1> QED BY <1>4, <1>5, <1>6, <1>7

\* A step that closes the file, after writing to it or not.
LEMMA ClosingStep ==
    ASSUME Inv, NEW c \in Callers, IsOpen(c),
           NEW content \in {file[My(c)], ToJson(request[c]), Bare("damaged")},
           file' = [file EXCEPT ![My(c)] = content],
           \/ kept' = kept
           \/ /\ c \in undisturbed /\ content = ToJson(request[c])
              /\ kept' = [kept EXCEPT ![My(c)] = {request[c]}],
           pc' = [pc EXCEPT ![c] = "idle"],
           request' = [request EXCEPT ![c] = NoRequest],
           undisturbed' = undisturbed \ {c}, asked' = asked
    PROVE  /\ file' \in [Files -> Contents] /\ kept' \in [Files -> SUBSET Requests]
           /\ Saving' /\ AskedFor' /\ Alone' /\ Kept'
<1> DEFINE mine == My(c)
<1>1. request[c] \in Requests /\ mine \in Files
  BY FilesOfRequests DEF Inv, TypeOK, My
<1>2. content \in Contents /\ content # ToJson(request[c]) /\ content # file[mine]
      => content.form # "document"
  BY BareIsContent
<1>3. content \in Contents
  BY <1>1, BareIsContent, DocumentsAreContents DEF Inv, TypeOK
<1>4. file' \in [Files -> Contents] /\ kept' \in [Files -> SUBSET Requests]
  BY <1>1, <1>3 DEF Inv, TypeOK
<1>5. /\ file'[mine] = content
      /\ \A f \in Files \ {mine} : file'[f] = file[f] /\ kept'[f] = kept[f]
  BY <1>1 DEF Inv, TypeOK
<1>6. HasOpen(c, mine) BY DEF HasOpen, IsOpen
<1>7. kept[mine] = {} BY <1>1, <1>6 DEF Inv, Kept
<1>8. /\ pc'[c] = "idle"
      /\ \A d \in Callers \ {c} : pc'[d] = pc[d] /\ request'[d] = request[d]
  BY DEF Inv, TypeOK
<1>9. \A d \in Callers : \A f : HasOpen(d, f)' => d # c /\ HasOpen(d, f)
  BY <1>8 DEF HasOpen, My
<1>10. Saving' BY <1>8 DEF Inv, Saving, Saves, IsOpen
<1>11. AskedFor'
  <2>1. ASSUME NEW f \in Files, file'[f].form = "document" PROVE file'[f] \in asked[f]
    <3>1. CASE f # mine BY <2>1, <3>1, <1>5 DEF Inv, AskedFor
    <3>2. CASE f = mine
      <4>1. ToJson(request[c]) \in asked[mine]
        BY <1>1, <1>6 DEF Inv, AskedFor
      <4>2. content = ToJson(request[c]) \/ content = file[mine]
        BY <1>2, <1>3, <1>5, <2>1, <3>2
      <4> QED BY <1>1, <1>5, <2>1, <3>2, <4>1, <4>2 DEF Inv, AskedFor
    <3> QED BY <3>1, <3>2
  <2>2. ASSUME NEW f \in Files, NEW d \in Callers, HasOpen(d, f)'
        PROVE  ToJson(request[d])' \in asked[f]
    <3>1. d # c /\ HasOpen(d, f) BY <1>9, <2>2
    <3>2. ToJson(request[d])' = ToJson(request[d]) BY <1>8, <3>1
    <3> QED BY <3>1, <3>2 DEF Inv, AskedFor
  <2> QED BY <2>1, <2>2 DEF AskedFor
<1>12. Alone'
  <2> SUFFICES ASSUME NEW d \in undisturbed \ {c}
               PROVE  /\ IsOpen(d)' /\ file'[My(d)'] = Bare("empty")
                      /\ \A e \in Callers \ {d} : ~HasOpen(e, My(d))'
    BY DEF Alone
  <2>1. d \in Callers /\ d # c BY DEF Inv, TypeOK
  <2>2. My(d)' = My(d) /\ My(d) \in Files
    BY <1>8, <2>1, FilesOfRequests DEF My, Inv, TypeOK
  <2>3. My(d) # mine BY <1>6, <2>1 DEF Inv, Alone
  <2>4. IsOpen(d)' BY <1>8, <2>1 DEF Inv, Alone, IsOpen
  <2>5. \A e \in Callers \ {d} : ~HasOpen(e, My(d))'
    BY <1>9, <2>2 DEF Inv, Alone, HasOpen
  <2> QED BY <1>5, <2>2, <2>3, <2>4, <2>5 DEF Inv, Alone
<1>13. Kept'
  <2> SUFFICES ASSUME NEW f \in Files, NEW r \in kept'[f]
               PROVE  /\ r \in Requests /\ r.operation.save /\ FileOf(r) = f
                      /\ file'[f] = ToJson(r) /\ \A d \in Callers : ~HasOpen(d, f)'
    BY DEF Kept
  <2>1. CASE f # mine BY <1>5, <1>9, <2>1 DEF Inv, Kept
  <2>2. CASE f = mine
    <3>1. c \in undisturbed /\ content = ToJson(request[c]) /\ r = request[c]
      BY <1>1, <1>7, <2>2 DEF Inv, TypeOK
    <3>2. r.operation.save BY <3>1 DEF Inv, Saving, Saves
    <3>3. FileOf(r) = f BY <2>2, <3>1 DEF My
    <3>4. \A d \in Callers : ~HasOpen(d, f)' BY <1>9, <2>2, <3>1 DEF Inv, Alone
    <3> QED BY <1>1, <1>5, <2>2, <3>1, <3>2, <3>3, <3>4
  <2> QED BY <2>1, <2>2
<1> QED BY <1>4, <1>10, <1>11, <1>12, <1>13

\* OpenToWrite empties the file, and whoever has it open is disturbed.
LEMMA InvOpenToWrite ==
    ASSUME Inv, NEW c \in Callers, OpenToWrite(c), UNCHANGED directories
    PROVE  Inv'
<1> DEFINE mine == My(c)
           others == {d \in Callers \ {c} : HasOpen(d, mine)}
<1>1. request[c] \in Requests /\ mine \in Files
  BY FilesOfRequests DEF Inv, TypeOK, My
<1>2. /\ pc[c] = "made" /\ pc'[c] = "opened" /\ request' = request /\ answer' = answer
      /\ \A d \in Callers \ {c} : pc'[d] = pc[d]
      /\ pc' \in [Callers -> {"idle", "called", "found", "reading", "made", "opened", "buffered"}]
  BY DEF OpenToWrite, Goto, Inv, TypeOK
<1>3. /\ file' = [file EXCEPT ![mine] = Bare("empty")] /\ kept' = [kept EXCEPT ![mine] = {}]
      /\ asked' = [asked EXCEPT ![mine] = {ToJson(request[d]) : d \in others \union {c}}]
      /\ undisturbed' = IF others = {} THEN undisturbed \union {c} ELSE undisturbed \ others
  BY DEF OpenToWrite, Disturb
<1>4. {ToJson(request[d]) : d \in others \union {c}} \subseteq Contents
  BY DocumentsAreContents DEF Inv, TypeOK
<1>5. TypeOK'
  <2>1. file' \in [Files -> Contents] BY <1>3, BareIsContent DEF Inv, TypeOK
  <2>2. asked' \in [Files -> SUBSET Contents] /\ kept' \in [Files -> SUBSET Requests]
    BY <1>3, <1>4 DEF Inv, TypeOK
  <2>3. undisturbed' \subseteq Callers BY <1>3 DEF Inv, TypeOK
  <2> QED BY <1>2, <2>1, <2>2, <2>3 DEF Inv, TypeOK
<1>6. /\ file'[mine].form = "empty" /\ file'[mine] = Bare("empty") /\ kept'[mine] = {}
      /\ \A d \in others \union {c} : ToJson(request[d]) \in asked'[mine]
      /\ \A f \in Files \ {mine} :
            file'[f] = file[f] /\ kept'[f] = kept[f] /\ asked'[f] = asked[f]
  BY <1>1, <1>3, BareIsContent DEF Inv, TypeOK
<1>7. \A d \in Callers : My(d)' = My(d) BY <1>2 DEF My
<1>8. \A d \in Callers, f \in Files \ {mine} : HasOpen(d, f)' => HasOpen(d, f)
  BY <1>2, <1>7 DEF HasOpen
<1>9. \A d \in Callers : HasOpen(d, mine)' => d \in others \union {c}
  BY <1>2, <1>7 DEF HasOpen
<1>10. Saving' BY <1>2 DEF Inv, Saving, Saves, IsOpen
<1>11. AskedFor'
  <2> SUFFICES ASSUME NEW f \in Files
               PROVE  /\ file'[f].form = "document" => file'[f] \in asked'[f]
                      /\ \A d \in Callers : HasOpen(d, f)' => ToJson(request[d])' \in asked'[f]
    BY DEF AskedFor
  <2>1. \A d \in Callers : ToJson(request[d])' = ToJson(request[d]) BY <1>2
  <2>2. CASE f = mine
    <3>1. \A d \in Callers : HasOpen(d, f)' => ToJson(request[d]) \in asked'[f]
      BY <1>6, <1>7, <1>9, <2>2 DEF HasOpen
    <3>2. file'[f].form # "document" BY <1>6, <2>2
    <3> QED BY <2>1, <3>1, <3>2
  <2>3. CASE f # mine BY <1>6, <1>8, <2>1, <2>3 DEF Inv, AskedFor
  <2> QED BY <2>2, <2>3
<1>12. Alone'
  <2> SUFFICES ASSUME NEW d \in undisturbed'
               PROVE  /\ IsOpen(d)' /\ file'[My(d)'] = Bare("empty")
                      /\ \A e \in Callers \ {d} : ~HasOpen(e, My(d))'
    BY DEF Alone
  <2>1. CASE d = c
    <3>1. others = {}
      BY <1>2, <1>3, <2>1 DEF Inv, Alone, IsOpen
    <3>2. \A e \in Callers \ {c} : ~HasOpen(e, mine)' BY <1>9, <3>1
    <3> QED BY <1>2, <1>6, <1>7, <2>1, <3>2 DEF IsOpen, HasOpen
  <2>2. CASE d # c
    <3>1. d \in undisturbed /\ d \in Callers /\ d \notin others
      BY <1>3, <2>2 DEF Inv, TypeOK
    <3>2. IsOpen(d) /\ IsOpen(d)' BY <1>2, <2>2, <3>1 DEF Inv, Alone, IsOpen
    <3>3. My(d) # mine BY <2>2, <3>1, <3>2 DEF HasOpen, IsOpen
    <3>4. My(d) \in Files BY <3>1, FilesOfRequests DEF My, Inv, TypeOK
    <3>5. \A e \in Callers \ {d} : ~HasOpen(e, My(d))
      BY <3>1 DEF Inv, Alone
    <3>6. \A e \in Callers \ {d} : ~HasOpen(e, My(d))'
      BY <1>7, <1>8, <3>1, <3>3, <3>4, <3>5 DEF HasOpen
    <3> QED BY <1>6, <1>7, <3>1, <3>2, <3>3, <3>4, <3>6 DEF Inv, Alone
  <2> QED BY <2>1, <2>2
<1>13. Kept'
  <2> SUFFICES ASSUME NEW f \in Files, NEW r \in kept'[f]
               PROVE  /\ r \in Requests /\ r.operation.save /\ FileOf(r) = f
                      /\ file'[f] = ToJson(r) /\ \A d \in Callers : ~HasOpen(d, f)'
    BY DEF Kept
  <2>1. f # mine BY <1>6
  <2> QED BY <1>6, <1>8, <2>1 DEF Inv, Kept
<1> QED BY <1>5, <1>10, <1>11, <1>12, <1>13 DEF Inv

\* Write into the buffer changes no file.
LEMMA InvBuffer ==
    ASSUME Inv, NEW c \in Callers, Goto(c, "opened", "buffered"),
           UNCHANGED <<file, directories, history>>
    PROVE  Inv'
<1>1. /\ pc[c] = "opened" /\ request' = request /\ answer' = answer
      /\ \A d \in Callers : IsOpen(d)' = IsOpen(d) /\ My(d)' = My(d)
      /\ \A d \in Callers : \A f : HasOpen(d, f)' = HasOpen(d, f)
      /\ \A d \in Callers : pc'[d] = "made" => pc[d] = "made"
  BY DEF Goto, Inv, TypeOK, IsOpen, HasOpen, My
<1>2. TypeOK' BY DEF Inv, TypeOK, Goto, history
<1>3. Saving' BY <1>1 DEF Inv, Saving, Saves
<1>4. AskedFor' BY <1>1 DEF Inv, AskedFor, history
<1>5. Alone'
  <2> SUFFICES ASSUME NEW d \in undisturbed
               PROVE  /\ IsOpen(d)' /\ file'[My(d)'] = Bare("empty")
                      /\ \A e \in Callers \ {d} : ~HasOpen(e, My(d))'
    BY DEF Alone, history
  <2>1. d \in Callers BY DEF Inv, TypeOK
  <2>2. \A e \in Callers \ {d} : HasOpen(e, My(d))' = HasOpen(e, My(d))
    BY <1>1, <2>1 DEF HasOpen
  <2> QED BY <1>1, <2>1, <2>2 DEF Inv, Alone
<1>6. Kept' BY <1>1 DEF Inv, Kept, history
<1> QED BY <1>2, <1>3, <1>4, <1>5, <1>6 DEF Inv

\* A call that ends has an answer of its type.
LEMMA FinishHasItsTypes ==
    ASSUME TypeOK, NEW c \in Callers, NEW reply \in
               [code : Codes,
                value : [version : SUBSET (1 .. CURRENT_SCHEMA_VERSION),
                         text : SUBSET Texts, lists : {{}}]],
           Finish(c, reply), UNCHANGED directories, undisturbed' \subseteq undisturbed,
           asked' = asked, file' \in [Files -> Contents], kept' \in [Files -> SUBSET Requests]
    PROVE  TypeOK'
BY NoRequestIsRequest DEF TypeOK, Finish

\* A call that ends without having its file open changes no file.
LEMMA InvFinish ==
    ASSUME Inv, NEW c \in Callers, ~IsOpen(c), NEW reply \in
               [code : Codes,
                value : [version : SUBSET (1 .. CURRENT_SCHEMA_VERSION),
                         text : SUBSET Texts, lists : {{}}]],
           Finish(c, reply), UNCHANGED <<file, directories, history>>
    PROVE  Inv'
<1>1. TypeOK' BY FinishHasItsTypes DEF Inv, TypeOK, history
<1>2. \A d \in Callers \ {c} : request'[d] = request[d] BY DEF Finish, Inv, TypeOK
<1>3. Saving' /\ AskedFor' /\ Alone' /\ Kept'
  BY <1>2, QuietStep DEF Finish, history
<1> QED BY <1>1, <1>3 DEF Inv

LEMMA InvFail ==
    ASSUME Inv, NEW c \in Callers, ~IsOpen(c), NEW code \in Codes,
           Fail(c, code), UNCHANGED <<file, directories, history>>
    PROVE  Inv'
BY FailureHasItsType, InvFinish DEF Fail

\* A call that goes on without its file open.
LEMMA InvGoto ==
    ASSUME Inv, NEW c \in Callers, NEW from, from \notin {"opened", "buffered"},
           NEW to \in {"found", "reading", "made"}, to = "made" => Saves(c),
           Goto(c, from, to), UNCHANGED <<file, history>>,
           directories' \subseteq Texts
    PROVE  Inv'
<1>1. TypeOK' BY DEF Inv, TypeOK, Goto, history
<1>2. ~IsOpen(c) /\ Saves(c)' = Saves(c) BY DEF Goto, IsOpen, Saves
<1>3. Saving' /\ AskedFor' /\ Alone' /\ Kept'
  BY <1>2, QuietStep DEF Goto, history
<1> QED BY <1>1, <1>3 DEF Inv

LEMMA InvCall == ASSUME Inv, NEW c \in Callers, Call(c) PROVE Inv'
<1>1. PICK r \in Requests : request' = [request EXCEPT ![c] = r] BY DEF Call
<1>2. TypeOK'
  <2>1. "ok" \in Codes BY DEF Codes
  <2>2. answer' \in [Callers -> [code : Codes,
                                value : [version : SUBSET (1 .. CURRENT_SCHEMA_VERSION),
                                         text : SUBSET Texts, lists : {{}}]]]
    BY <2>1, FailureHasItsType DEF Call, Inv, TypeOK
  <2> QED BY <1>1, <2>2 DEF Call, Inv, TypeOK, history
<1>3. ~IsOpen(c) /\ \A d \in Callers \ {c} : request'[d] = request[d]
  BY <1>1 DEF Call, IsOpen, Inv, TypeOK
<1>4. Saving' /\ AskedFor' /\ Alone' /\ Kept'
  BY <1>3, QuietStep DEF Call, history
<1> QED BY <1>2, <1>4 DEF Inv

LEMMA InvRead == ASSUME Inv, NEW c \in Callers, Read(c) PROVE Inv'
<1>1. PICK content \in {file[My(c)], Bare("empty")} :
          Finish(c, Loaded(request[c].operation.part, content))
  BY DEF Read
<1>2. My(c) \in Files BY FilesOfRequests DEF Inv, TypeOK, My
<1>3. content \in Contents BY <1>2, BareIsContent DEF Inv, TypeOK
<1>4. ~IsOpen(c) BY DEF Read, IsOpen
<1> QED BY <1>1, <1>3, <1>4, LoadedHasItsType, InvFinish DEF Read

\* PutAll and PutSome, with the end of the call: what ClosingStep needs to know.
LEMMA Written ==
    ASSUME Inv, NEW c \in Callers, PutAll(c) \/ PutSome(c) \/ UNCHANGED <<file, kept>>
    PROVE  \E content \in {file[My(c)], ToJson(request[c]), Bare("damaged")} :
               /\ file' = [file EXCEPT ![My(c)] = content]
               /\ \/ kept' = kept
                  \/ /\ c \in undisturbed /\ content = ToJson(request[c])
                     /\ kept' = [kept EXCEPT ![My(c)] = {request[c]}]
<1> DEFINE mine == My(c)
<1>1. mine \in Files BY FilesOfRequests DEF Inv, TypeOK, My
<1>2. CASE PutAll(c)
  <2>1. PICK content \in Over(file[mine], ToJson(request[c])) :
            file' = [file EXCEPT ![mine] = content]
    BY <1>2 DEF PutAll
  <2>2. content \in {ToJson(request[c]), Bare("damaged")}
    BY <2>1, OverIsNewOrDamaged
  <2>3. kept' = [kept EXCEPT ![mine] = IF c \in undisturbed THEN {request[c]} ELSE @]
    BY <1>2 DEF PutAll
  <2>4. CASE c \in undisturbed
    <3>1. file[mine] = Bare("empty") BY <2>4 DEF Inv, Alone
    <3>2. file[mine].form = "empty" BY <3>1, BareIsContent
    <3>3. content = ToJson(request[c]) BY <2>1, <3>2, OverIsNewOrDamaged
    <3> QED BY <2>1, <2>3, <2>4, <3>3
  <2>5. CASE c \notin undisturbed
    <3>1. kept' = kept BY <1>1, <2>3, <2>5 DEF Inv, TypeOK
    <3> QED BY <2>1, <2>2, <3>1
  <2> QED BY <2>4, <2>5
<1>3. CASE PutSome(c) BY <1>3 DEF PutSome
<1>4. CASE UNCHANGED <<file, kept>> BY <1>1, <1>4 DEF Inv, TypeOK
<1> QED BY <1>2, <1>3, <1>4

\* Write of a long document, and Flush, end the call.
LEMMA InvWritten ==
    ASSUME Inv, NEW c \in Callers, IsOpen(c),
           PutAll(c) \/ PutSome(c) \/ UNCHANGED <<file, kept>>,
           NEW code \in Codes, Finish(c, Answer(code, NoValue)),
           undisturbed' = undisturbed \ {c}, UNCHANGED <<directories, asked>>
    PROVE  Inv'
<1>1. PICK content \in {file[My(c)], ToJson(request[c]), Bare("damaged")} :
          /\ file' = [file EXCEPT ![My(c)] = content]
          /\ \/ kept' = kept
             \/ /\ c \in undisturbed /\ content = ToJson(request[c])
                /\ kept' = [kept EXCEPT ![My(c)] = {request[c]}]
  BY Written
<1>2. /\ file' \in [Files -> Contents] /\ kept' \in [Files -> SUBSET Requests]
      /\ Saving' /\ AskedFor' /\ Alone' /\ Kept'
  BY <1>1, ClosingStep DEF Finish
<1>3. TypeOK' BY <1>2, FailureHasItsType, FinishHasItsTypes DEF Inv
<1> QED BY <1>2, <1>3 DEF Inv

LEMMA InvWrite == ASSUME Inv, NEW c \in Callers, Write(c) PROVE Inv'
<1>1. IsOpen(c) BY DEF Write, IsOpen
<1>2. "ok" \in Codes /\ "WriteFailed" \in Codes BY DEF Codes
<1>3. CASE Goto(c, "opened", "buffered") /\ UNCHANGED <<file, kept, undisturbed>>
  BY <1>3, InvBuffer DEF Write, history
<1>4. CASE /\ PutAll(c) \/ PutSome(c)
           /\ Finish(c, Answer("ok", NoValue)) /\ undisturbed' = undisturbed \ {c}
  BY <1>1, <1>2, <1>4, InvWritten DEF Write
<1>5. CASE /\ Fail(c, "WriteFailed") /\ UNCHANGED <<file, kept>>
           /\ undisturbed' = undisturbed \ {c}
  BY <1>1, <1>2, <1>5, InvWritten DEF Write, Fail
<1> QED BY <1>3, <1>4, <1>5 DEF Write

LEMMA InvFlush == ASSUME Inv, NEW c \in Callers, Flush(c) PROVE Inv'
<1>1. IsOpen(c) BY DEF Flush, IsOpen
<1>2. "ok" \in Codes BY DEF Codes
<1> QED BY <1>1, <1>2, InvWritten DEF Flush

LEMMA InvCrash == ASSUME Inv, NEW c \in Callers, Crash(c) PROVE Inv'
<1>1. TypeOK' BY NoRequestIsRequest DEF Inv, TypeOK, Crash
<1>2. CASE IsOpen(c)
  <2>1. file' = [file EXCEPT ![My(c)] = file[My(c)]]
    BY FilesOfRequests DEF Inv, TypeOK, My, Crash
  <2>2. Saving' /\ AskedFor' /\ Alone' /\ Kept'
    BY <1>2, <2>1, ClosingStep DEF Crash
  <2> QED BY <1>1, <2>2 DEF Inv
<1>3. CASE ~IsOpen(c)
  <2>1. undisturbed' = undisturbed BY <1>3 DEF Crash, Inv, Alone
  <2>2. \A d \in Callers \ {c} : request'[d] = request[d] BY DEF Crash, Inv, TypeOK
  <2>3. Saving' /\ AskedFor' /\ Alone' /\ Kept'
    BY <1>3, <2>1, <2>2, QuietStep DEF Crash
  <2> QED BY <1>1, <2>3 DEF Inv
<1> QED BY <1>2, <1>3

LEMMA InvNext == Inv /\ [Next]_vars => Inv'
<1> SUFFICES ASSUME Inv, [Next]_vars PROVE Inv'
  OBVIOUS
<1>1. {"FileNotFound", "AccessDenied", "WriteFailed"} \subseteq Codes BY DEF Codes
<1>2. ASSUME NEW c \in Callers, Call(c) PROVE Inv' BY <1>2, InvCall
<1>3. ASSUME NEW c \in Callers, LookForFile(c) PROVE Inv'
  <2>1. ~IsOpen(c) BY <1>3 DEF LookForFile, IsOpen
  <2>2. CASE Fail(c, "FileNotFound")
    BY <1>1, <1>3, <2>1, <2>2, InvFail DEF LookForFile
  <2>3. CASE Goto(c, "called", "found")
    BY <1>3, <2>3, InvGoto DEF LookForFile, Inv, TypeOK
  <2> QED BY <1>3, <2>2, <2>3 DEF LookForFile
<1>4. ASSUME NEW c \in Callers, OpenToRead(c) PROVE Inv'
  <2>1. CASE Goto(c, "found", "reading")
    BY <1>4, <2>1, InvGoto DEF OpenToRead, Inv, TypeOK
  <2>2. CASE pc[c] = "found" /\ Fail(c, "AccessDenied")
    BY <1>1, <1>4, <2>2, InvFail DEF OpenToRead, IsOpen
  <2> QED BY <1>4, <2>1, <2>2 DEF OpenToRead
<1>5. ASSUME NEW c \in Callers, Read(c) PROVE Inv' BY <1>5, InvRead
<1>6. ASSUME NEW c \in Callers, MakeDirectory(c) PROVE Inv'
  <2>1. ~IsOpen(c) /\ Saves(c) BY <1>6 DEF MakeDirectory, IsOpen
  <2>2. CASE Fail(c, "WriteFailed") /\ UNCHANGED directories
    BY <1>1, <1>6, <2>1, <2>2, InvFail DEF MakeDirectory
  <2>3. CASE directories' = directories \union {request[c].name} /\ Goto(c, "called", "made")
    <3>1. directories' \subseteq Texts
      BY <2>3, RequestsAssumption DEF Inv, TypeOK
    <3> QED BY <1>6, <2>1, <2>3, <3>1, InvGoto DEF MakeDirectory
  <2> QED BY <1>6, <2>2, <2>3 DEF MakeDirectory
<1>7. ASSUME NEW c \in Callers, Open(c) PROVE Inv'
  <2>1. CASE OpenToWrite(c) BY <1>7, <2>1, InvOpenToWrite DEF Open
  <2>2. CASE pc[c] = "made" /\ Fail(c, "AccessDenied") /\ UNCHANGED <<file, history>>
    BY <1>1, <1>7, <2>2, InvFail DEF Open, IsOpen
  <2> QED BY <1>7, <2>1, <2>2 DEF Open
<1>8. ASSUME NEW c \in Callers, Write(c) PROVE Inv' BY <1>8, InvWrite
<1>9. ASSUME NEW c \in Callers, Flush(c) PROVE Inv' BY <1>9, InvFlush
<1>10. ASSUME NEW c \in Callers, Crash(c) PROVE Inv' BY <1>10, InvCrash
<1>11. CASE UNCHANGED vars
  BY <1>11 DEF vars, history, Inv, TypeOK, Saving, AskedFor, Alone, Kept, IsOpen, HasOpen, My,
               Saves
<1> QED
  BY <1>2, <1>3, <1>4, <1>5, <1>6, <1>7, <1>8, <1>9, <1>10, <1>11 DEF Next

-----------------------------------------------------------------------------
(* Theorems.                                                               *)

\* The files, the calls and their answers have their types: an answer has no
\* version but a supported one.
THEOREM ProfileTypes == Spec => []TypeOK
<1>1. Inv => TypeOK BY DEF Inv
<1> QED BY <1>1, InvInit, InvNext, PTL DEF Spec

\* loadMetadata and loadState: whatever crashed, failed or was written at the
\* same time, what a load answers is a document that was in the file first or
\* that a save wants in it.
THEOREM LoadsGiveWhatWasSaved == Spec => LoadedWasSaved
<1> DEFINE Given ==
        \A c \in Callers :
            Read(c) /\ answer'[c].code = "ok" =>
                \E d \in asked[My(c)] :
                    d.form = "document" /\ answer'[c] = Loaded(request[c].operation.part, d)
<1>1. Inv => Given
  <2> SUFFICES ASSUME Inv, NEW c \in Callers, Read(c), answer'[c].code = "ok"
               PROVE  \E d \in asked[My(c)] :
                          /\ d.form = "document"
                          /\ answer'[c] = Loaded(request[c].operation.part, d)
    OBVIOUS
  <2>1. PICK content \in {file[My(c)], Bare("empty")} :
            answer'[c] = Loaded(request[c].operation.part, content)
    BY DEF Read, Finish, Inv, TypeOK
  <2>2. content.form = "document" BY <2>1, OnlyDocumentsLoad
  <2>3. content = file[My(c)] BY <2>1, <2>2, BareIsContent
  <2>4. content \in asked[My(c)]
    BY <2>2, <2>3, FilesOfRequests DEF Inv, TypeOK, My, AskedFor
  <2> QED BY <2>1, <2>2, <2>4
<1>2. Inv /\ [Next]_vars => [Given]_vars BY <1>1
<1> QED BY <1>2, InvInit, InvNext, PTL DEF Spec, LoadedWasSaved

\* Half of twice a version is that version.
LEMMA VersionsSurvive == \A v \in Nat : toInt(2 * v) = v
BY DEF toInt

\* loadState and loadMetadata, of a document.
LEMMA StatesLoad ==
    ASSUME NEW content, IsObject(content)
    PROVE  /\ Loaded("state", content).code = "ok" /\ Loaded("state", content).value.version = {}
           /\ Loaded("state", content).value.text = content.text \ {""}
BY DEF Loaded, Answer, Value

LEMMA MetadataLoads ==
    ASSUME NEW content, IsObject(content), content.text # {},
           NEW v, {toInt(h) : h \in content.version} = {v}
    PROVE  IF Supported({v})
           THEN /\ Loaded("metadata", content).code = "ok"
                /\ Loaded("metadata", content).value.version = {v}
                /\ Loaded("metadata", content).value.text = content.text
           ELSE Loaded("metadata", content).code = "UnsupportedSchemaVersion"
BY DEF Loaded, Answer, Value

\* What saveState or saveMetadata wrote, as loadState or loadMetadata reads it.
LEMMA RoundTrip ==
    ASSUME NEW r \in Requests, r.operation.save
    PROVE  LET back == Loaded(r.operation.part, ToJson(r))
           IN  IF r.operation.part = "state" \/ r.value.version = {CURRENT_SCHEMA_VERSION}
               THEN /\ back.code = "ok" /\ back.value.version = r.value.version
                    /\ back.value.text \union {""} = {AsText[s] : s \in r.value.text} \union {""}
               ELSE back.code = "UnsupportedSchemaVersion"
<1> DEFINE written == ToJson(r)
           texts == {AsText[s] : s \in r.value.text}
<1>1. r.operation \in Operations /\ r.operation = [part |-> r.operation.part, save |-> TRUE]
  BY RequestsAssumption DEF Operations
<1>2. IsObject(written) BY DocumentsAreContents DEF IsObject
<1>3. /\ written.version = {2 * v : v \in r.value.version}
      /\ written.text = IF r.value.text = {} THEN {""} ELSE texts
      /\ r.value.text = {} => texts = {}
      /\ r.value.text # {} => texts # {}
  BY DEF ToJson
<1> HIDE DEF written, texts
<1>4. CASE r.operation.part = "state"
  <2>1. r.value.version = {} BY <1>1, <1>4, RequestsAssumption
  <2>2. (written.text \ {""}) \union {""} = texts \union {""} BY <1>3
  <2> QED BY <1>2, <1>4, <2>1, <2>2, StatesLoad DEF written, texts
<1>5. CASE r.operation.part = "metadata"
  <2>1. PICK v \in Nat : r.value.version = {v}
    <3>1. r.value.version \subseteq Nat /\ r.value.version # {}
          /\ \A v, w \in r.value.version : v = w
      BY <1>1, <1>5, RequestsAssumption DEF Values
    <3> QED BY <3>1
  <2>2. written.text = texts /\ texts # {} BY <1>1, <1>3, <1>5, RequestsAssumption
  <2>3. {toInt(h) : h \in written.version} = {v}
    <3>1. written.version = {2 * v} BY <1>3, <2>1
    <3>2. toInt(2 * v) = v BY VersionsSurvive
    <3> QED BY <3>1, <3>2
  <2>4. Supported({v}) <=> v = CURRENT_SCHEMA_VERSION
    BY <2>1 DEF Supported, CURRENT_SCHEMA_VERSION
  <2>5. r.value.version = {CURRENT_SCHEMA_VERSION} <=> v = CURRENT_SCHEMA_VERSION
    BY <2>1
  <2>6. IF Supported({v})
        THEN /\ Loaded("metadata", written).code = "ok"
             /\ Loaded("metadata", written).value.version = {v}
             /\ Loaded("metadata", written).value.text = texts
        ELSE Loaded("metadata", written).code = "UnsupportedSchemaVersion"
    BY <1>2, <2>2, <2>3, MetadataLoads
  <2> QED BY <1>5, <2>1, <2>4, <2>5, <2>6 DEF written, texts
<1> QED BY <1>1, <1>4, <1>5 DEF Operations, Parts

\* saveMetadata and saveState: with any number of callers, a save that ran
\* undisturbed and reached the disk is what a load gives, until the next one
\* opens the file.
THEOREM SavesCanBeLoaded == Spec => []UndisturbedSavesLoad
<1>1. Inv => UndisturbedSavesLoad
  <2> SUFFICES ASSUME Inv, NEW f \in Files, NEW r \in kept[f]
               PROVE  LET back == Loaded(f[2], file[f])
                      IN  IF f[2] = "state" \/ r.value.version = {CURRENT_SCHEMA_VERSION}
                          THEN /\ back.code = "ok" /\ back.value.version = r.value.version
                               /\ back.value.text \union {""}
                                      = {AsText[s] : s \in r.value.text} \union {""}
                          ELSE back.code = "UnsupportedSchemaVersion"
    BY DEF UndisturbedSavesLoad
  <2>1. /\ r \in Requests /\ r.operation.save
        /\ f[2] = r.operation.part /\ file[f] = ToJson(r)
    BY DEF Inv, Kept, FileOf
  <2> QED BY <2>1, RoundTrip
<1> QED BY <1>1, InvInit, InvNext, PTL DEF Spec
=============================================================================
