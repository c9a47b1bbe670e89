------------------------- MODULE GameFsClientProofs -------------------------
(***************************************************************************)
(* What GameFsClient promises, for any number of clients and contexts and  *)
(* plans of any length.                                                    *)
(***************************************************************************)
EXTENDS GameFsClient, TLAPS

\* The inductive form of ContextsHaveOneOwner.
Ownership ==
    /\ \A c, d \in alive : handle_[c] = handle_[d] /\ handle_[c] # nullptr => c = d
    /\ \A h \in contexts : \E c \in alive : handle_[c] = h
    /\ \A c \in alive : handle_[c] # nullptr => handle_[c] \in contexts

Sound == misuses = {}
Inv == TypeOK /\ Ownership /\ Sound

\* applyPlan and fmm_gamefs_apply_plan: whatever the number of files, only a
\* null handle is refused.
LEMMA PlansAreWellFormed ==
    ASSUME NEW handle, NEW files \in Nat
    PROVE  AnswerOf(handle, files) <=> handle # nullptr
<1> DEFINE array == AbiPlan(files).deployed_files
<1>1. IsList(array)
  <2>1. CASE files = 0
    <3>1. array.elements = [i \in 1 .. 0 |-> TRUE] BY <2>1 DEF AbiPlan
    <3>2. [i \in 1 .. 0 |-> TRUE] = <<>> OBVIOUS
    <3> QED BY <3>1, <3>2 DEF IsList
  <2>2. CASE files > 0
    <3>1. array.data BY <2>2 DEF AbiPlan
    <3>2. array.elements = [i \in 1 .. files |-> TRUE] BY DEF AbiPlan
    <3>3. \A i \in DOMAIN array.elements : array.elements[i] BY <3>2, Zenon
    <3> QED BY <3>1, <3>3, Zenon DEF IsList
  <2> QED BY <2>1, <2>2
<1>2. AbiPlan(files).profile_id /\ AbiPlan(files).target_game_directory
  BY DEF AbiPlan
<1> HIDE DEF array
<1>3. fmm_gamefs_apply_plan(handle, AbiPlan(files)) = IF handle # nullptr THEN 0 ELSE -1
  BY <1>1, <1>2, Zenon DEF fmm_gamefs_apply_plan, array
<1> QED BY <1>3 DEF AnswerOf

LEMMA InvInit == Init => Inv
BY NullAssumption DEF Init, Inv, TypeOK, Ownership, Sound, NoAnswer

LEMMA InvCreate == ASSUME Inv, NEW c \in Clients, Create(c) PROVE Inv'
<1>1. PICK h \in Contexts \ contexts :
          handle_' = [handle_ EXCEPT ![c] = h] /\ contexts' = contexts \union {h}
  BY DEF Create
<1>2. TypeOK' BY <1>1 DEF Inv, TypeOK, Create, NoAnswer
<1>3. h # nullptr BY NullAssumption
<1>4. Ownership' BY <1>1, <1>3 DEF Inv, TypeOK, Ownership, Create
<1> QED BY <1>2, <1>4 DEF Inv, Create, Sound

LEMMA InvMoveConstruct ==
    ASSUME Inv, NEW c \in Clients, NEW other \in Clients, MoveConstruct(c, other) PROVE Inv'
<1>1. TypeOK' BY DEF Inv, TypeOK, MoveConstruct, NoAnswer
<1>2. Ownership' BY DEF Inv, TypeOK, Ownership, MoveConstruct
<1> QED BY <1>1, <1>2 DEF Inv, MoveConstruct, Sound

LEMMA InvMoveAssign ==
    ASSUME Inv, NEW c \in Clients, NEW other \in Clients, MoveAssign(c, other) PROVE Inv'
<1>1. CASE c = other
  BY <1>1 DEF Inv, TypeOK, Ownership, Sound, MoveAssign, NoAnswer
<1>2. CASE c # other
  <2>1. /\ contexts' = contexts \ HandedOver(handle_[c])
        /\ misuses' = misuses \union (HandedOver(handle_[c]) \ contexts)
        /\ handle_' = [handle_ EXCEPT ![c] = handle_[other], ![other] = nullptr]
        /\ alive' = alive /\ c \in alive /\ other \in alive
        /\ answer' = NoAnswer
    BY <1>2 DEF MoveAssign, Free
  <2>2. HandedOver(handle_[c]) \subseteq contexts
    BY <2>1 DEF Inv, Ownership, HandedOver
  <2>3. misuses' = {} BY <2>1, <2>2 DEF Inv, Sound
  <2>4. TypeOK' BY <2>1, <2>3 DEF Inv, TypeOK, NoAnswer
  <2>5. Ownership' BY <1>2, <2>1 DEF Inv, TypeOK, Ownership, HandedOver
  <2> QED BY <2>3, <2>4, <2>5 DEF Inv, Sound
<1> QED BY <1>1, <1>2

LEMMA InvDestroy == ASSUME Inv, NEW c \in Clients, Destroy(c) PROVE Inv'
<1>1. HandedOver(handle_[c]) \subseteq contexts
  BY DEF Inv, Ownership, HandedOver, Destroy
<1>2. misuses' = {} BY <1>1 DEF Inv, Sound, Destroy, Free
<1>3. TypeOK' BY <1>2 DEF Inv, TypeOK, Destroy, Free, NoAnswer
<1>4. Ownership'
  <2>1. /\ contexts' = contexts \ HandedOver(handle_[c])
        /\ alive' = alive \ {c} /\ c \in alive
        /\ \A d \in alive' : handle_'[d] = handle_[d]
    BY DEF Inv, TypeOK, Destroy, Free
  <2>2. \A d, e \in alive' : handle_'[d] = handle_'[e] /\ handle_'[d] # nullptr => d = e
    BY <2>1 DEF Inv, Ownership
  <2>3. \A h \in contexts' : \E d \in alive' : handle_'[d] = h
    <3> SUFFICES ASSUME NEW h \in contexts' PROVE \E d \in alive' : handle_'[d] = h
      OBVIOUS
    <3>1. PICK d \in alive : handle_[d] = h BY <2>1 DEF Inv, Ownership
    <3>2. h # nullptr BY <2>1, NullAssumption DEF Inv, TypeOK
    <3>3. d # c BY <2>1, <3>1, <3>2 DEF HandedOver
    <3> QED BY <2>1, <3>1, <3>3
  <2>4. \A d \in alive' : handle_'[d] # nullptr => handle_'[d] \in contexts'
    BY <2>1 DEF Inv, Ownership, HandedOver
  <2> QED BY <2>2, <2>3, <2>4 DEF Ownership
<1> QED BY <1>2, <1>3, <1>4 DEF Inv, Sound

LEMMA InvApplyPlan ==
    ASSUME Inv, NEW c \in Clients, NEW files \in Nat, applyPlan(c, files)
    PROVE  Inv'
<1>1. HandedOver(handle_[c]) \subseteq contexts
  BY DEF Inv, Ownership, HandedOver, applyPlan
<1>2. misuses' = {} BY <1>1 DEF Inv, Sound, applyPlan
<1>3. AnswerOf(handle_[c], files) \in BOOLEAN BY Zenon DEF AnswerOf
<1>4. TypeOK' BY <1>2, <1>3 DEF Inv, TypeOK, applyPlan
<1>5. Ownership' BY DEF Inv, Ownership, applyPlan
<1> QED BY <1>2, <1>4, <1>5 DEF Inv, Sound

LEMMA InvNext == Inv /\ [Next]_vars => Inv'
<1> SUFFICES ASSUME Inv, [Next]_vars PROVE Inv'
  OBVIOUS
<1>1. ASSUME NEW c \in Clients, Create(c) PROVE Inv' BY <1>1, InvCreate
<1>2. ASSUME NEW c \in Clients, NEW other \in Clients, MoveConstruct(c, other) PROVE Inv'
  BY <1>2, InvMoveConstruct
<1>3. ASSUME NEW c \in Clients, NEW other \in Clients, MoveAssign(c, other) PROVE Inv'
  BY <1>3, InvMoveAssign
<1>4. ASSUME NEW c \in Clients, Destroy(c) PROVE Inv' BY <1>4, InvDestroy
<1>5. ASSUME NEW c \in Clients, NEW files \in 0 .. MaxFiles, applyPlan(c, files) PROVE Inv'
  <2>1. files \in Nat BY FilesAssumption
  <2> QED BY <1>5, <2>1, InvApplyPlan
<1>6. CASE UNCHANGED vars
  BY <1>6 DEF vars, Inv, TypeOK, Ownership, Sound
<1> QED BY <1>1, <1>2, <1>3, <1>4, <1>5, <1>6 DEF Next

\* The clients, their handles and the contexts of the core have their types.
THEOREM TypesHold == Spec => []TypeOK
<1>1. Inv => TypeOK BY DEF Inv
<1> QED BY <1>1, InvInit, InvNext, PTL DEF Spec

\* ~GameFsClient and the moves: every context has one client, however many
\* clients there are and in whatever order they are moved and destroyed.
THEOREM OwnersAreUnique == Spec => []ContextsHaveOneOwner
<1>1. Inv => ContextsHaveOneOwner
  <2> SUFFICES ASSUME Inv PROVE ContextsHaveOneOwner
    OBVIOUS
  <2>1. ASSUME NEW h \in contexts PROVE \E c \in Clients : Owners(h) = {c}
    <3>1. PICK c \in alive : handle_[c] = h BY DEF Inv, Ownership
    <3>2. h # nullptr /\ c \in Clients BY NullAssumption DEF Inv, TypeOK
    <3>3. \A d \in alive : handle_[d] = h => d = c BY <3>1, <3>2 DEF Inv, Ownership
    <3>4. Owners(h) = {c} BY <3>1, <3>3 DEF Owners
    <3> QED BY <3>2, <3>4
  <2> QED BY <2>1 DEF Inv, Ownership, Sound, ContextsHaveOneOwner
<1> QED BY <1>1, InvInit, InvNext, PTL DEF Spec

\* applyPlan: it answers true exactly when the client owns a context, for plans
\* of any length.
THEOREM OwnersApplyPlans == Spec => []PlansAreAppliedByOwners
<1>1. Init => PlansAreAppliedByOwners
  <2>1. Init => answer.client = {} BY DEF Init, NoAnswer
  <2> QED BY <2>1, Zenon DEF PlansAreAppliedByOwners
<1>2. Inv /\ PlansAreAppliedByOwners /\ [Next]_vars => PlansAreAppliedByOwners'
  <2> SUFFICES ASSUME Inv, PlansAreAppliedByOwners, [Next]_vars
               PROVE  PlansAreAppliedByOwners'
    OBVIOUS
  <2>1. CASE answer' = NoAnswer
    BY <2>1 DEF NoAnswer, PlansAreAppliedByOwners
  <2>2. ASSUME NEW c \in Clients, NEW files \in 0 .. MaxFiles, applyPlan(c, files)
        PROVE  PlansAreAppliedByOwners'
    <3>1. files \in Nat BY FilesAssumption
    <3>2. AnswerOf(handle_[c], files) <=> handle_[c] # nullptr
      BY <3>1, PlansAreWellFormed
    <3>3. handle_[c] # nullptr <=> \E h \in contexts : c \in Owners(h)
      BY <2>2, NullAssumption DEF Inv, TypeOK, Ownership, Owners, applyPlan
    <3>4. /\ answer'.client = {c} /\ answer'.value = AnswerOf(handle_[c], files)
          /\ UNCHANGED <<alive, handle_, contexts>>
      BY <2>2 DEF applyPlan
    <3> QED BY <3>2, <3>3, <3>4, Zenon DEF PlansAreAppliedByOwners, Owners
  <2>3. CASE UNCHANGED vars
    BY <2>3 DEF vars, PlansAreAppliedByOwners, Owners
  <2> QED
    BY <2>1, <2>2, <2>3 DEF Next, Create, MoveConstruct, MoveAssign, Destroy
<1> QED BY <1>1, <1>2, InvInit, InvNext, PTL DEF Spec

\* operator=: a context is freed only when its client is destroyed or takes the
\* handle of another one.
THEOREM MovesKeepContexts == Spec => ContextsOutliveMoves
<1> DEFINE Kept == \A c \in alive :
          handle_[c] \in contexts \ contexts' =>
              c \notin alive' \/ \E other \in alive \ {c} : handle_'[c] = handle_[other]
<1>1. Inv /\ [Next]_vars => [Kept]_vars
  <2> SUFFICES ASSUME Inv, [Next]_vars, NEW c \in alive, handle_[c] \in contexts \ contexts'
               PROVE  c \notin alive' \/ \E other \in alive \ {c} : handle_'[c] = handle_[other]
    OBVIOUS
  <2>1. ASSUME NEW d \in Clients, NEW other \in Clients, MoveAssign(d, other)
        PROVE  \E o \in alive \ {c} : handle_'[c] = handle_[o]
    BY <2>1 DEF Inv, TypeOK, Ownership, MoveAssign, Free, HandedOver
  <2>2. ASSUME NEW d \in Clients, Destroy(d) PROVE c \notin alive'
    BY <2>2 DEF Inv, TypeOK, Ownership, Destroy, Free, HandedOver
  <2> QED
    BY <2>1, <2>2 DEF Next, vars, Create, MoveConstruct, applyPlan
<1> QED BY <1>1, InvInit, InvNext, PTL DEF Spec, ContextsOutliveMoves
=============================================================================
