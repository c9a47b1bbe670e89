---------------------------- MODULE GameFsClient ----------------------------
(***************************************************************************)
(* The class GameFsClient, which owns a context of the Rust core, and the  *)
(* three functions of the core behind it.  Clients are made, moved from    *)
(* one to another, asked to apply a plan, and destroyed, one call after    *)
(* another, in the ways the language allows.                               *)
(*                                                                         *)
(* A context says which fmm_context_create a pointer came from.  Nobody    *)
(* compares two of them, only one with nullptr: the contexts of the core   *)
(* have no contents, and Rust may well give all of them one address.       *)
(***************************************************************************)
EXTENDS Integers

CONSTANTS
    Clients,             \* the objects there may be at a time
    Contexts,            \* what fmm_context_create may return
    nullptr,
    MaxFiles             \* bound on the length of deployed_files

ASSUME NullAssumption == nullptr \notin Contexts
ASSUME FilesAssumption == MaxFiles \in Nat

VARIABLES
    alive,               \* the clients that are constructed
    handle_,             \* the handle of each of them
    contexts,            \* the contexts that exist in the core
    misuses,             \* the contexts the core got when they did not exist
    answer               \* what the last call of applyPlan returned, and to whom

vars == <<alive, handle_, contexts, misuses, answer>>

NoAnswer == [client |-> {}, value |-> FALSE]

Init ==
    /\ alive = {}
    /\ handle_ = [c \in Clients |-> nullptr]
    /\ contexts = {} /\ misuses = {}
    /\ answer = NoAnswer

-----------------------------------------------------------------------------
(* The Rust core.                                                          *)

\* What a client hands over to the core, to free it or to apply a plan: its
\* context, if it has one.
HandedOver(handle) == {handle} \ {nullptr}

\* The list is there even when it is empty (a mutated form).
CheckedList(array) ==
    array.data /\ \A i \in DOMAIN array.elements : array.elements[i]

\* What fmm_gamefs_apply_plan asks of an FmmStringArray: a pointer is TRUE when
\* it is not null.
IsList(array) ==
    array.elements # <<>> => array.data /\ \A i \in DOMAIN array.elements : array.elements[i]

\* Its texts are read, as "" if they are no UTF-8, and nothing is done with them.
fmm_gamefs_apply_plan(context, plan) ==
    IF /\ context # nullptr
       /\ plan.profile_id /\ plan.target_game_directory
       /\ IsList(plan.deployed_files)
    THEN 0 ELSE -1

-----------------------------------------------------------------------------
(* The client.                                                             *)

\* What applyPlan makes of a LegacyGameFsAbiPlan with that many files: c_str of
\* a text is never null, and the data of no files is.
AbiPlan(files) ==
    [profile_id |-> TRUE, target_game_directory |-> TRUE,
     deployed_files |-> [data |-> files > 0, elements |-> [i \in 1 .. files |-> TRUE]]]

AnswerOf(handle, files) ==
    handle # nullptr /\ fmm_gamefs_apply_plan(handle, AbiPlan(files)) = 0

Create(c) ==
    /\ c \notin alive
    /\ alive' = alive \union {c}
    /\ \E h \in Contexts \ contexts :
          /\ handle_' = [handle_ EXCEPT ![c] = h]
          /\ contexts' = contexts \union {h}
    /\ answer' = NoAnswer
    /\ UNCHANGED misuses

\* The other client keeps its handle (a mutated form).
CopyConstruct(c, other) ==
    /\ c \notin alive /\ other \in alive
    /\ alive' = alive \union {c}
    /\ handle_' = [handle_ EXCEPT ![c] = handle_[other]]
    /\ answer' = NoAnswer
    /\ UNCHANGED <<contexts, misuses>>

MoveConstruct(c, other) ==
    /\ c \notin alive /\ other \in alive
    /\ alive' = alive \union {c}
    /\ handle_' = [handle_ EXCEPT ![c] = handle_[other], ![other] = nullptr]
    /\ answer' = NoAnswer
    /\ UNCHANGED <<contexts, misuses>>

\* A context of the core is given back to it.
Free(handle) ==
    /\ contexts' = contexts \ HandedOver(handle)
    /\ misuses' = misuses \union (HandedOver(handle) \ contexts)

\* The client overwrites its handle (a mutated form).
MoveAssignOver(c, other) ==
    /\ c \in alive /\ other \in alive
    /\ IF c = other THEN UNCHANGED <<handle_, contexts, misuses>>
       ELSE /\ UNCHANGED <<contexts, misuses>>
            /\ handle_' = [handle_ EXCEPT ![c] = handle_[other], ![other] = nullptr]
    /\ answer' = NoAnswer
    /\ UNCHANGED alive

\* A client that is moved to itself is not told apart (a mutated form).
MoveAssignAny(c, other) ==
    /\ c \in alive /\ other \in alive
    /\ Free(handle_[c])
    /\ handle_' = [handle_ EXCEPT ![c] = handle_[other], ![other] = nullptr]
    /\ answer' = NoAnswer
    /\ UNCHANGED alive

MoveAssign(c, other) ==
    /\ c \in alive /\ other \in alive
    /\ IF c = other THEN UNCHANGED <<handle_, contexts, misuses>>
       ELSE /\ Free(handle_[c])
            /\ handle_' = [handle_ EXCEPT ![c] = handle_[other], ![other] = nullptr]
    /\ answer' = NoAnswer
    /\ UNCHANGED alive

Destroy(c) ==
    /\ c \in alive
    /\ Free(handle_[c])
    /\ handle_' = [handle_ EXCEPT ![c] = nullptr]
    /\ alive' = alive \ {c}
    /\ answer' = NoAnswer

applyPlan(c, files) ==
    /\ c \in alive
    /\ misuses' = misuses \union (HandedOver(handle_[c]) \ contexts)
    /\ answer' = [client |-> {c}, value |-> AnswerOf(handle_[c], files)]
    /\ UNCHANGED <<alive, handle_, contexts>>

Next ==
    \E c \in Clients :
        \/ Create(c)
        \/ \E other \in Clients : MoveConstruct(c, other)
        \/ \E other \in Clients : MoveAssign(c, other)
        \/ Destroy(c)
        \/ \E files \in 0 .. MaxFiles : applyPlan(c, files)

Spec == Init /\ [][Next]_vars

-----------------------------------------------------------------------------
(* Properties.                                                             *)

TypeOK ==
    /\ alive \subseteq Clients
    /\ handle_ \in [Clients -> Contexts \union {nullptr}]
    /\ contexts \subseteq Contexts /\ misuses \subseteq Contexts
    /\ answer \in [client : SUBSET Clients, value : BOOLEAN]

Owners(h) == {c \in alive : handle_[c] = h}

\* Whatever is constructed from, assigned from and destroyed: a context that
\* exists has one client, so none is leaked, and no client has one that does not
\* exist: the core never gets a context it has freed ("Move semantics did not
\* trigger double-free or crash", rust_boundary_test.cpp).
ContextsHaveOneOwner ==
    /\ misuses = {}
    /\ \A h \in contexts : \E c \in Clients : Owners(h) = {c}
    /\ \A c \in alive : handle_[c] # nullptr => handle_[c] \in contexts

\* The functions of the core and of the client agree on every plan, the one
\* without files as well: a client that owns a context applies it, and one that
\* has lost its own refuses it.
PlansAreAppliedByOwners ==
    \A c \in answer.client : answer.value <=> \E h \in contexts : c \in Owners(h)

\* A context is freed only when its client is destroyed or takes over the
\* handle of another one; in particular not when a client is moved to itself.
ContextsOutliveMoves ==
    [][\A c \in alive :
          handle_[c] \in contexts \ contexts' =>
              c \notin alive' \/ \E other \in alive \ {c} : handle_'[c] = handle_[other]]_vars
=============================================================================
