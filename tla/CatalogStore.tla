---------------------------- MODULE CatalogStore ----------------------------
(***************************************************************************)
(* What a package catalog promises its callers: every call takes effect at *)
(* one instant between its start and its return, on one set of packages    *)
(* with distinct ids.  A call that fails changes nothing, and when the     *)
(* program ends in the middle of calls each of them has either taken       *)
(* effect or not.                                                          *)
(***************************************************************************)
CONSTANTS
    Clients,             \* the threads that call
    Packages,            \* the packages they may add
    Ids                  \* the ids they may ask for

VARIABLES
    catalog,             \* the packages installed
    request,             \* client -> the call it makes, or Idle
    answer               \* client -> what the call answers, or Pending

vars == <<catalog, request, answer>>

Requests ==
    [op : {"add"}, package : Packages]
        \union [op : {"get", "contains", "remove"}, id : Ids]
        \union [op : {"list"}]
Idle == [op |-> "none"]

Answer(status, packages) == [status |-> status, packages |-> packages]
Pending == Answer("none", {})

Installed(id) == {p \in catalog : p.id = id}

Init ==
    /\ catalog \in SUBSET Packages
    /\ \A p, q \in catalog : p.id = q.id => p = q
    /\ request = [c \in Clients |-> Idle]
    /\ answer = [c \in Clients |-> Pending]

Begin(c) ==
    /\ request[c] = Idle
    /\ \E r \in Requests : request' = [request EXCEPT ![c] = r]
    /\ UNCHANGED <<catalog, answer>>

\* The call of client c, one of ops, takes effect and answers a.
Effect(c, ops, a) ==
    /\ request[c].op \in ops
    /\ answer[c] = Pending
    /\ answer' = [answer EXCEPT ![c] = a]
    /\ UNCHANGED request

Get(c) ==
    LET found == Installed(request[c].id) IN
    /\ Effect(c, {"get"}, Answer(IF found = {} THEN "NotFound" ELSE "ok", found))
    /\ UNCHANGED catalog

Contains(c) ==
    /\ Effect(c, {"contains"}, Answer("ok", Installed(request[c].id)))
    /\ UNCHANGED catalog

List(c) ==
    /\ Effect(c, {"list"}, Answer("ok", catalog))
    /\ UNCHANGED catalog

Add(c) ==
    LET clash == Installed(request[c].package.id) # {} IN
    /\ Effect(c, {"add"}, Answer(IF clash THEN "AlreadyExists" ELSE "ok", {}))
    /\ catalog' = IF clash THEN catalog ELSE catalog \union {request[c].package}

Remove(c) ==
    LET found == Installed(request[c].id) IN
    /\ Effect(c, {"remove"}, Answer(IF found = {} THEN "NotFound" ELSE "ok", {}))
    /\ catalog' = catalog \ found

\* A package that is not valid, a file that cannot be used.
Fail(c) ==
    /\ \E code \in {"IoError", "InvalidFormat", "UnsupportedSchemaVersion"} :
          Effect(c, {"add", "get", "contains", "remove", "list"}, Answer(code, {}))
    /\ UNCHANGED catalog

Return(c) ==
    /\ answer[c] # Pending
    /\ request' = [request EXCEPT ![c] = Idle]
    /\ answer' = [answer EXCEPT ![c] = Pending]
    /\ UNCHANGED catalog

\* The program ends, with the calls of these clients.
Vanish(gone) ==
    /\ request' = [c \in Clients |-> IF c \in gone THEN Idle ELSE request[c]]
    /\ answer' = [c \in Clients |-> IF c \in gone THEN Pending ELSE answer[c]]
    /\ UNCHANGED catalog

Next ==
    \/ \E c \in Clients :
          \/ Begin(c) \/ Return(c) \/ Fail(c)
          \/ Get(c) \/ Contains(c) \/ List(c) \/ Add(c) \/ Remove(c)
    \/ \E gone \in SUBSET Clients : Vanish(gone)

Spec == Init /\ [][Next]_vars
=============================================================================
