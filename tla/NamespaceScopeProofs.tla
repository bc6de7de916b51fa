------------------------ MODULE NamespaceScopeProofs ------------------------
(***************************************************************************)
(* Proofs about NamespaceScope, for every set of scopes, namespaces and    *)
(* ConfigMaps, every choice of the options and every bound.                *)
(***************************************************************************)
EXTENDS NamespaceScope, TLAPS

USE DEF apiVars, cacheVars, cmVars, rbacVars, nsVars, workVars

-----------------------------------------------------------------------------
(* Lemmas about the helpers                                                *)

\* setDefaults fills in a name and touches nothing else of a scope.
LEMMA SetDefaultsType ==
    ASSUME NEW o \in Scope
    PROVE  /\ setDefaults(o) \in Scope
           /\ setDefaults(o).cm \in ConfigMapName /\ setDefaults(o).cm # None
           /\ setDefaults(o).uid = o.uid /\ setDefaults(o).members = o.members
           /\ setDefaults(o).validated = o.validated
           /\ setDefaults(o).fin = o.fin /\ setDefaults(o).deleting = o.deleting
           /\ o.cm # None => setDefaults(o) = o
BY ConstantsOK DEF setDefaults, Scope

\* The list published in a ConfigMap is made of namespaces.
LEMMA AllValidatedType ==
    ASSUME ScopesTypeOK, NEW m
    PROVE  getAllValidated(m) \subseteq Namespace
<1>1. \A c \in CR : cache[c] # None => cache[c].validated \subseteq Namespace
  BY DEF ScopesTypeOK, Scope
<1> QED BY <1>1 DEF getAllValidated

\* Validated namespaces are members.
LEMMA ValidatedType ==
    ASSUME NEW ms, NEW u PROVE getValidatedNamespaces(ms, u) \subseteq ms
BY DEF getValidatedNamespaces

\* Spending keeps the counters natural numbers.
LEMMA SpendType ==
    ASSUME spent \in [{"user", "ns", "fault"} -> Nat],
           NEW k \in {"user", "ns", "fault"}, NEW max, Spend(k, max)
    PROVE  spent' \in [{"user", "ns", "fault"} -> Nat]
BY DEF Spend

\* Storing a scope, or removing it, keeps the store well-typed.
LEMMA StoreType ==
    ASSUME ScopesTypeOK, NEW c \in CR, NEW o \in Scope \cup {None}, Store(c, o)
    PROVE  api' \in [CR -> Scope \cup {None}] /\ crLag' \subseteq CR
BY DEF ScopesTypeOK, Store

\* Returning leaves the worker idle, whether or not the key goes back.
LEMMA ReturnType ==
    ASSUME ScopesTypeOK, WorkerTypeOK, pc # "idle", NEW q, Return(q)
    PROVE  WorkerTypeOK' /\ queue' \subseteq CR
BY DEF ScopesTypeOK, WorkerTypeOK, Return, afterDefaults

\* An error leaves the worker idle, or about to record the failure.
LEMMA FailType ==
    ASSUME ScopesTypeOK, WorkerTypeOK, pc # "idle", Fail
    PROVE  WorkerTypeOK' /\ queue' \subseteq CR
<1>1. CASE inst.deleting
  BY <1>1, ReturnType DEF Fail
<1>2. CASE ~inst.deleting
  BY <1>2 DEF Fail, ScopesTypeOK, WorkerTypeOK, afterDefaults
<1> QED BY <1>1, <1>2

-----------------------------------------------------------------------------
(* Type correctness                                                        *)

LEMMA TypeInit == Init => TypeOK
<1> SUFFICES ASSUME Init PROVE TypeOK
  OBVIOUS
<1>1. ScopesTypeOK
  BY DEF Init, ScopesTypeOK
<1>2. ConfigMapsTypeOK
  BY DEF Init, ConfigMapsTypeOK
<1>3. NamespacesTypeOK
  BY DEF Init, NamespacesTypeOK
<1>4. WorkerTypeOK
  BY DEF Init, WorkerTypeOK, afterDefaults
<1>5. spent \in [{"user", "ns", "fault"} -> Nat]
  BY DEF Init
<1> QED BY <1>1, <1>2, <1>3, <1>4, <1>5 DEF TypeOK

LEMMA TypeStart == ASSUME TypeOK, NEW c \in CR, Start(c) PROVE TypeOK'
<1> USE DEF TypeOK
<1> DEFINE o == cache[c]
<1>1. UNCHANGED <<api, crLag, made, cache, cmCache, cms, cmLag, role, binding,
                  runtime, podView, nsPhase, authorized, spent>>
  BY DEF Start
<1>2. queue' \subseteq CR
  BY DEF Start, ScopesTypeOK
<1>3. WorkerTypeOK'
  <2>1. CASE ~(o # None /\ (o.deleting => o.fin))
    BY <2>1 DEF Start, WorkerTypeOK, afterDefaults
  <2>2. CASE o # None /\ (o.deleting => o.fin)
    <3>1. o \in Scope
      BY <2>2 DEF ScopesTypeOK
    <3>2. inst' \in Scope /\ (o.deleting => inst'.cm # None)
      BY <2>2, <3>1, SetDefaultsType DEF Start
    <3>3. /\ pc' = FirstStep(c, o) /\ cur' = c /\ fresh' \in BOOLEAN
          /\ UNCHANGED <<todo, spared, pushErr, missed>>
      BY <2>2 DEF Start
    <3>4. pc' \in afterDefaults => o.deleting
      BY <3>3 DEF FirstStep, afterDefaults
    <3>5. pc' \in {"addFinalizer", "updateStatus", "updateCm"}
      BY <3>3 DEF FirstStep
    <3> QED BY <3>2, <3>3, <3>4, <3>5 DEF WorkerTypeOK, afterDefaults
  <2> QED BY <2>1, <2>2
<1> QED BY <1>1, <1>2, <1>3 DEF ScopesTypeOK, ConfigMapsTypeOK, NamespacesTypeOK

LEMMA TypeAddFinalizer == ASSUME TypeOK, AddFinalizer PROVE TypeOK'
<1> USE DEF TypeOK
<1>1. UNCHANGED <<made, cache, cmCache, cms, cmLag, role, binding, runtime,
                  podView, nsPhase, authorized, spent>> /\ pc # "idle"
  BY DEF AddFinalizer
<1>2. CASE fresh
  <2>1. [inst EXCEPT !.fin = TRUE] \in Scope /\ cur \in CR
    BY <1>1 DEF WorkerTypeOK, Scope
  <2>2. ScopesTypeOK'
    BY <1>1, <1>2, <2>1, StoreType DEF AddFinalizer, ScopesTypeOK
  <2>3. WorkerTypeOK'
    BY <1>2, <2>1 DEF AddFinalizer, WorkerTypeOK, afterDefaults
  <2> QED BY <1>1, <2>2, <2>3 DEF ConfigMapsTypeOK, NamespacesTypeOK
<1>3. CASE ~fresh
  BY <1>1, <1>3, FailType
     DEF AddFinalizer, ScopesTypeOK, ConfigMapsTypeOK, NamespacesTypeOK
<1> QED BY <1>2, <1>3

LEMMA TypeUpdateStatus == ASSUME TypeOK, UpdateStatus PROVE TypeOK'
<1> USE DEF TypeOK
<1>1. UNCHANGED <<made, cache, cmCache, cms, cmLag, role, binding, runtime,
                  podView, nsPhase, authorized>> /\ pc = "updateStatus"
  BY DEF UpdateStatus
<1>2. inst \in Scope /\ cur \in CR
  BY <1>1 DEF WorkerTypeOK
<1>3. PICK unchecked \in SUBSET inst.members :
        LET valid == getValidatedNamespaces(inst.members, unchecked)
            new == [inst EXCEPT !.validated = valid]
        IN  /\ IF unchecked = {} THEN UNCHANGED spent
               ELSE CanGetNs /\ Spend("fault", MaxFaults)
            /\ IF valid # inst.validated /\ ~fresh
               THEN Fail /\ UNCHANGED <<api, crLag>>
               ELSE /\ IF valid # inst.validated
                       THEN Store(cur, new) ELSE UNCHANGED <<api, crLag>>
                    /\ inst' = setDefaults(new)
                    /\ Loop(valid \ {OperatorNs}, "push", AfterPush(FALSE))
                    /\ UNCHANGED <<cur, fresh, spared, pushErr, missed, queue>>
  BY DEF UpdateStatus
<1> DEFINE valid == getValidatedNamespaces(inst.members, unchecked)
           new == [inst EXCEPT !.validated = valid]
<1>4. valid \subseteq Namespace /\ new \in Scope
  BY <1>2, ValidatedType DEF Scope
<1>5. spent' \in [{"user", "ns", "fault"} -> Nat]
  BY <1>3, SpendType
<1>6. CASE valid # inst.validated /\ ~fresh
  BY <1>1, <1>3, <1>5, <1>6, FailType
     DEF ScopesTypeOK, ConfigMapsTypeOK, NamespacesTypeOK
<1>7. CASE ~(valid # inst.validated /\ ~fresh)
  <2>1. ScopesTypeOK'
    BY <1>1, <1>2, <1>3, <1>4, <1>7, StoreType DEF ScopesTypeOK
  <2>2. setDefaults(new) \in Scope /\ setDefaults(new).cm # None
    BY <1>4, SetDefaultsType
  <2>3. WorkerTypeOK'
    BY <1>2, <1>3, <1>4, <1>7, <2>2 DEF Loop, AfterPush, WorkerTypeOK, afterDefaults
  <2> QED BY <1>1, <1>5, <2>1, <2>3 DEF ConfigMapsTypeOK, NamespacesTypeOK
<1> QED BY <1>6, <1>7

LEMMA TypePush == ASSUME TypeOK, NEW n \in Namespace, Push(n) PROVE TypeOK'
<1> USE DEF TypeOK
<1>1. UNCHANGED <<api, crLag, made, cache, cmCache, cms, cmLag, runtime,
                  podView, nsPhase, authorized, queue, cur, inst, fresh,
                  spared>> /\ pc = "push"
  BY DEF Push
<1>2. inst \in Scope /\ cur \in CR /\ inst.cm # None /\ inst.cm \in ConfigMapName
  BY <1>1 DEF WorkerTypeOK, afterDefaults, Scope
<1>3. NamespacesTypeOK'
  BY <1>1, <1>2 DEF Push, ProjectRole, ProjectBinding, NamespacesTypeOK
<1>4. spent' \in [{"user", "ns", "fault"} -> Nat]
  BY SpendType DEF Push
<1>5. pushErr' \in BOOLEAN /\ missed' \subseteq Namespace
  BY DEF Push, WorkerTypeOK
<1>6. todo' \subseteq Namespace
      /\ pc' \in {"push", "recordFailed", "unprojected", "deleteUnmanaged"}
  BY <1>1 DEF Push, Loop, AfterPush, WorkerTypeOK
<1>7. WorkerTypeOK'
  BY <1>1, <1>2, <1>5, <1>6 DEF WorkerTypeOK, afterDefaults
<1> QED BY <1>1, <1>3, <1>4, <1>7 DEF ScopesTypeOK, ConfigMapsTypeOK

LEMMA TypeUpdateUnprojected == ASSUME TypeOK, UpdateUnprojected PROVE TypeOK'
<1> USE DEF TypeOK
<1>1. UNCHANGED <<made, cache, cmCache, cms, cmLag, role, binding, runtime,
                  podView, nsPhase, authorized, spent>> /\ pc = "unprojected"
  BY DEF UpdateUnprojected
<1>2. inst \in Scope /\ cur \in CR /\ missed \subseteq Namespace /\ inst.cm # None
  BY <1>1 DEF WorkerTypeOK, afterDefaults
<1>3. CASE missed # inst.unprojected /\ (~fresh \/ api[cur] = None)
  BY <1>1, <1>3, FailType
     DEF UpdateUnprojected, ScopesTypeOK, ConfigMapsTypeOK, NamespacesTypeOK
<1>4. CASE ~(missed # inst.unprojected /\ (~fresh \/ api[cur] = None))
  <2>1. /\ IF missed = inst.unprojected THEN UNCHANGED <<api, crLag>>
           ELSE Store(cur, [api[cur] EXCEPT !.unprojected = missed])
        /\ inst' = [inst EXCEPT !.unprojected = missed]
        /\ pc' = "deleteUnmanaged"
        /\ UNCHANGED <<cur, fresh, todo, spared, pushErr, missed, queue>>
    BY <1>4 DEF UpdateUnprojected
  <2>2. /\ [inst EXCEPT !.unprojected = missed] \in Scope
        /\ [inst EXCEPT !.unprojected = missed].cm = inst.cm
    BY <1>2 DEF Scope
  <2>3. api[cur] # None => [api[cur] EXCEPT !.unprojected = missed] \in Scope
    BY <1>2 DEF ScopesTypeOK, Scope
  <2>4. ScopesTypeOK'
    BY <1>1, <1>2, <1>4, <2>1, <2>3, StoreType DEF ScopesTypeOK
  <2>5. WorkerTypeOK'
    BY <1>1, <1>2, <2>1, <2>2 DEF WorkerTypeOK, afterDefaults
  <2> QED BY <1>1, <2>4, <2>5 DEF ConfigMapsTypeOK, NamespacesTypeOK
<1> QED BY <1>3, <1>4

LEMMA TypeDeleteRbacFromUnmanaged ==
    ASSUME TypeOK, DeleteRbacFromUnmanaged PROVE TypeOK'
<1> USE DEF TypeOK
<1>1. Unmanaged(inst.cm) \subseteq Namespace
  <2>1. inst.cm \in ConfigMapName
    BY DEF DeleteRbacFromUnmanaged, WorkerTypeOK, afterDefaults, Scope
  <2> QED BY <2>1 DEF Unmanaged, ConfigMapsTypeOK, ConfigMap
<1>2. WorkerTypeOK'
  BY <1>1 DEF DeleteRbacFromUnmanaged, Loop, WorkerTypeOK, afterDefaults
<1> QED BY <1>2 DEF DeleteRbacFromUnmanaged, ScopesTypeOK, ConfigMapsTypeOK,
                    NamespacesTypeOK

LEMMA TypeDeleteAllRbac == ASSUME TypeOK, DeleteAllRbac PROVE TypeOK'
<1> USE DEF TypeOK
<1>1. getAllValidated(inst.cm) \subseteq Namespace
  BY AllValidatedType
<1>2. inst.members \subseteq Namespace
  BY DEF DeleteAllRbac, WorkerTypeOK, Scope
<1>3. WorkerTypeOK'
  BY <1>1, <1>2 DEF DeleteAllRbac, Loop, WorkerTypeOK, afterDefaults
<1> QED BY <1>3 DEF DeleteAllRbac, ScopesTypeOK, ConfigMapsTypeOK, NamespacesTypeOK

LEMMA TypeDelete == ASSUME TypeOK, NEW n \in Namespace, Delete(n) PROVE TypeOK'
<1> USE DEF TypeOK
<1>1. UNCHANGED <<api, crLag, made, cache, cmCache, cms, cmLag, runtime,
                  podView, nsPhase, authorized>> /\ pc = "delete"
  BY DEF Delete
<1>2. NamespacesTypeOK'
  BY <1>1 DEF Delete, DropLabel, NamespacesTypeOK
<1>3. spent' \in [{"user", "ns", "fault"} -> Nat]
  BY SpendType DEF Delete
<1>4. WorkerTypeOK' /\ queue' \subseteq CR
  <2>1. CASE Fail
    BY <1>1, <2>1, FailType
  <2>2. CASE /\ \/ spared' = spared
                \/ spared' = spared \cup {n}
             /\ Loop(todo \ {n}, "delete",
                     IF inst.deleting THEN "removeFinalizer" ELSE "updateCm")
             /\ UNCHANGED <<cur, inst, fresh, pushErr, missed, queue, spent>>
    BY <1>1, <2>2 DEF Loop, WorkerTypeOK, ScopesTypeOK, afterDefaults
  <2> QED BY <2>1, <2>2 DEF Delete
<1> QED BY <1>1, <1>2, <1>3, <1>4 DEF ScopesTypeOK, ConfigMapsTypeOK

LEMMA TypeRemoveFinalizer == ASSUME TypeOK, RemoveFinalizer PROVE TypeOK'
<1> USE DEF TypeOK
<1>1. UNCHANGED <<made, cache, cmCache, cms, cmLag, role, binding, runtime,
                  podView, nsPhase, authorized, spent>> /\ pc # "idle"
  BY DEF RemoveFinalizer
<1>2. WorkerTypeOK' /\ queue' \subseteq CR
  BY <1>1, ReturnType DEF RemoveFinalizer
<1>3. ScopesTypeOK'
  <2>1. CASE fresh
    <3>1. cur \in CR /\ Store(cur, None)
      BY <1>1, <2>1 DEF RemoveFinalizer, WorkerTypeOK
    <3> QED BY <1>1, <1>2, <3>1, StoreType DEF ScopesTypeOK
  <2>2. CASE ~fresh
    BY <1>1, <1>2, <2>2 DEF RemoveFinalizer, ScopesTypeOK
  <2> QED BY <2>1, <2>2
<1> QED BY <1>1, <1>2, <1>3 DEF ConfigMapsTypeOK, NamespacesTypeOK

LEMMA TypeUpdateConfigMap == ASSUME TypeOK, UpdateConfigMap PROVE TypeOK'
<1> USE DEF TypeOK
<1> DEFINE m == inst.cm
           names == getAllValidated(m)
           old == cmCache[m]
           me == <<cur, inst.uid>>
           refs == IF old = None THEN {} ELSE {r \in old.owners : r[1] # cur}
           written == IF ListDiffers(old, names) THEN names ELSE old.names
           new == [names |-> written, owners |-> refs \cup {me}]
<1>1. UNCHANGED <<api, crLag, made, cache, cmCache, role, binding, runtime,
                  podView, nsPhase, authorized, spent>> /\ pc = "updateCm"
  BY DEF UpdateConfigMap
<1>2. cur \in CR /\ inst \in Scope /\ m \in ConfigMapName
  BY <1>1 DEF WorkerTypeOK, afterDefaults, Scope
<1>3. new \in ConfigMap
  <2>1. names \subseteq Namespace
    BY AllValidatedType
  <2>2. old = None \/ (old.names \subseteq Namespace /\ old.owners \subseteq CR \X Nat)
    BY <1>2 DEF ConfigMapsTypeOK, ConfigMap
  <2>3. me \in CR \X Nat
    BY <1>2 DEF Scope
  <2>4. written \subseteq Namespace
    BY <2>1, <2>2 DEF ListDiffers
  <2>5. refs \subseteq CR \X Nat
    BY <2>2
  <2> QED BY <2>3, <2>4, <2>5 DEF ConfigMap
<1>4. \/ UNCHANGED cmVars
      \/ StoreCm(m, new)
  BY DEF UpdateConfigMap
<1>5. ConfigMapsTypeOK'
  BY <1>1, <1>2, <1>3, <1>4 DEF StoreCm, ConfigMapsTypeOK
<1>6. \/ Fail
      \/ /\ pc' \in {"restart", "deleteAll", "runtime"}
         /\ UNCHANGED <<cur, inst, fresh, todo, spared, pushErr, missed, queue>>
  BY DEF UpdateConfigMap
<1>7. WorkerTypeOK' /\ queue' \subseteq CR
  BY <1>1, <1>6, FailType DEF ScopesTypeOK, WorkerTypeOK, afterDefaults
<1> QED BY <1>1, <1>5, <1>7 DEF ScopesTypeOK, NamespacesTypeOK

LEMMA TypeRestartPods == ASSUME TypeOK, RestartPods PROVE TypeOK'
<1> USE DEF TypeOK
<1>1. inst.cm \in ConfigMapName
  BY DEF RestartPods, WorkerTypeOK, afterDefaults, Scope
<1>2. ConfigMapsTypeOK'
  BY <1>1 DEF RestartPods, ConfigMapsTypeOK, ConfigMap
<1>3. WorkerTypeOK'
  BY DEF RestartPods, WorkerTypeOK, afterDefaults
<1> QED BY <1>2, <1>3 DEF RestartPods, ScopesTypeOK, NamespacesTypeOK

LEMMA TypeRuntimeRoles == ASSUME TypeOK, RuntimeRoles PROVE TypeOK'
<1> USE DEF TypeOK
<1>1. UNCHANGED <<api, crLag, made, cache, cmCache, cms, cmLag, role, binding,
                  podView, nsPhase, authorized, queue, cur, inst, fresh, todo,
                  spared, pushErr, missed>> /\ pc = "runtime"
  BY DEF RuntimeRoles
<1>2. inst.cm \in ConfigMapName
  BY <1>1 DEF WorkerTypeOK, afterDefaults, Scope
<1>3. runtime' \in [Namespace -> ConfigMapName \cup {None}]
  BY <1>2 DEF RuntimeRoles, NamespacesTypeOK
<1>4. pc' \in {"recordCompleted", "recordFailed"}
  BY DEF RuntimeRoles
<1>5. spent' \in [{"user", "ns", "fault"} -> Nat]
  BY SpendType DEF RuntimeRoles
<1>6. WorkerTypeOK'
  BY <1>1, <1>4 DEF WorkerTypeOK, afterDefaults
<1> QED BY <1>1, <1>3, <1>5, <1>6 DEF ScopesTypeOK, ConfigMapsTypeOK, NamespacesTypeOK

LEMMA TypeRecord == ASSUME TypeOK, Record PROVE TypeOK'
<1> USE DEF TypeOK
<1>1. WorkerTypeOK' /\ queue' \subseteq CR
  BY ReturnType DEF Record
<1>2. crLag' \subseteq CR
  BY DEF Record, ScopesTypeOK, WorkerTypeOK
<1> QED BY <1>1, <1>2 DEF Record, ScopesTypeOK, ConfigMapsTypeOK, NamespacesTypeOK

LEMMA TypeCallFails == ASSUME TypeOK, CallFails PROVE TypeOK'
<1> USE DEF TypeOK
<1>1. WorkerTypeOK' /\ queue' \subseteq CR
  BY FailType DEF CallFails
<1>2. spent' \in [{"user", "ns", "fault"} -> Nat]
  BY SpendType DEF CallFails
<1> QED BY <1>1, <1>2 DEF CallFails, ScopesTypeOK, ConfigMapsTypeOK, NamespacesTypeOK

LEMMA TypeCrash == ASSUME TypeOK, Crash PROVE TypeOK'
<1> USE DEF TypeOK
<1>1. WorkerTypeOK'
  BY DEF Crash, WorkerTypeOK, afterDefaults
<1>2. spent' \in [{"user", "ns", "fault"} -> Nat]
  BY SpendType DEF Crash
<1> QED BY <1>1, <1>2 DEF Crash, ScopesTypeOK, ConfigMapsTypeOK, NamespacesTypeOK

LEMMA TypeInformers == ASSUME TypeOK, Informers PROVE TypeOK'
<1> USE DEF TypeOK
<1>1. CASE CacheSync
  BY <1>1 DEF CacheSync, ScopesTypeOK, ConfigMapsTypeOK, NamespacesTypeOK, WorkerTypeOK
<1>2. CASE CmSync
  BY <1>2 DEF CmSync, ScopesTypeOK, ConfigMapsTypeOK, NamespacesTypeOK, WorkerTypeOK
<1> QED BY <1>1, <1>2 DEF Informers

\* What a user writes is a scope, and leaves the worker where it is.
LEMMA TypeUserStores ==
    ASSUME TypeOK, NEW c \in CR, NEW o \in Scope \cup {None}, UserStores(c, o),
           made' \in [CR -> Nat]
    PROVE  TypeOK'
<1> USE DEF TypeOK
<1>1. WorkerTypeOK'
  BY DEF UserStores, WorkerTypeOK
<1>2. spent' \in [{"user", "ns", "fault"} -> Nat]
  BY SpendType DEF UserStores
<1>3. ScopesTypeOK'
  BY StoreType DEF UserStores, ScopesTypeOK
<1> QED BY <1>1, <1>2, <1>3 DEF UserStores, ConfigMapsTypeOK, NamespacesTypeOK

LEMMA TypeUser ==
    ASSUME TypeOK, NEW c \in CR, UserCreates(c) \/ UserEdits(c) \/ UserDeletes(c)
    PROVE  TypeOK'
<1>1. CASE UserCreates(c)
  <2>1. PICK ms \in MemberChoices, m \in CmChoices :
          UserStores(c, [uid |-> made[c] + 1, members |-> ms, cm |-> m,
                         validated |-> {}, unprojected |-> {}, fin |-> FALSE,
                         deleting |-> FALSE])
    BY <1>1 DEF UserCreates
  <2>2. [uid |-> made[c] + 1, members |-> ms, cm |-> m, validated |-> {},
         unprojected |-> {}, fin |-> FALSE, deleting |-> FALSE] \in Scope
    BY ConstantsOK DEF TypeOK, ScopesTypeOK, Scope
  <2>3. made' \in [CR -> Nat]
    BY <1>1 DEF UserCreates, TypeOK, ScopesTypeOK
  <2> QED BY <2>1, <2>2, <2>3, TypeUserStores
<1>2. CASE UserEdits(c)
  <2>1. api[c] \in Scope /\ made' \in [CR -> Nat]
    BY <1>2 DEF UserEdits, TypeOK, ScopesTypeOK
  <2>2. \A ms \in MemberChoices : [api[c] EXCEPT !.members = ms] \in Scope
    BY <2>1, ConstantsOK DEF Scope
  <2>3. \A m \in CmChoices : [api[c] EXCEPT !.cm = m] \in Scope
    BY <2>1, ConstantsOK DEF Scope
  <2>4. PICK o \in Scope : UserStores(c, o)
    BY <1>2, <2>2, <2>3 DEF UserEdits
  <2> QED BY <2>1, <2>4, TypeUserStores
<1>3. CASE UserDeletes(c)
  <2>1. api[c] \in Scope /\ made' \in [CR -> Nat]
    BY <1>3 DEF UserDeletes, TypeOK, ScopesTypeOK
  <2>2. [api[c] EXCEPT !.deleting = TRUE] \in Scope
    BY <2>1 DEF Scope
  <2> QED BY <1>3, <2>1, <2>2, TypeUserStores DEF UserDeletes
<1> QED BY <1>1, <1>2, <1>3

LEMMA TypeCluster ==
    ASSUME TypeOK,
           \/ \E c \in CR : CsvControllerPatches(c)
           \/ \E n \in Namespace : NamespaceChanges(n) \/ AuthorizationChanges(n)
           \/ \E m \in ConfigMapName : CollectConfigMap(m)
    PROVE  TypeOK'
<1> USE DEF TypeOK
<1>1. ASSUME NEW c \in CR, CsvControllerPatches(c) PROVE TypeOK'
  <2>1. spent' \in [{"user", "ns", "fault"} -> Nat]
    BY <1>1, SpendType DEF CsvControllerPatches
  <2> QED BY <1>1, <2>1 DEF CsvControllerPatches, ScopesTypeOK,
             ConfigMapsTypeOK, NamespacesTypeOK, WorkerTypeOK
<1>2. ASSUME NEW n \in Namespace, NamespaceChanges(n) PROVE TypeOK'
  <2>1. spent' \in [{"user", "ns", "fault"} -> Nat]
    BY <1>2, SpendType DEF NamespaceChanges
  <2>2. NamespacesTypeOK'
    BY <1>2 DEF NamespaceChanges, NamespacesTypeOK
  <2> QED BY <1>2, <2>1, <2>2 DEF NamespaceChanges, ScopesTypeOK,
             ConfigMapsTypeOK, WorkerTypeOK
<1>3. ASSUME NEW n \in Namespace, AuthorizationChanges(n) PROVE TypeOK'
  <2>1. spent' \in [{"user", "ns", "fault"} -> Nat]
    BY <1>3, SpendType DEF AuthorizationChanges
  <2> QED BY <1>3, <2>1 DEF AuthorizationChanges, ScopesTypeOK,
             ConfigMapsTypeOK, NamespacesTypeOK, WorkerTypeOK
<1>4. ASSUME NEW m \in ConfigMapName, CollectConfigMap(m) PROVE TypeOK'
  BY <1>4 DEF CollectConfigMap, StoreCm, ScopesTypeOK, ConfigMapsTypeOK,
              NamespacesTypeOK, WorkerTypeOK
<1> QED BY <1>1, <1>2, <1>3, <1>4

LEMMA TypeNext == TypeOK /\ [Next]_vars => TypeOK'
<1> SUFFICES ASSUME TypeOK, [Next]_vars PROVE TypeOK'
  OBVIOUS
<1>1. CASE UNCHANGED vars
  BY <1>1 DEF vars, TypeOK, ScopesTypeOK, ConfigMapsTypeOK, NamespacesTypeOK,
              WorkerTypeOK
<1>2. CASE \E c \in CR : Start(c)
  BY <1>2, TypeStart
<1>3. CASE Reconcile
  BY <1>3, TypeAddFinalizer, TypeUpdateStatus, TypeUpdateUnprojected, TypePush,
     TypeDelete, TypeDeleteRbacFromUnmanaged, TypeUpdateConfigMap, TypeRestartPods,
     TypeRuntimeRoles, TypeRecord, TypeDeleteAllRbac, TypeRemoveFinalizer
     DEF Reconcile
<1>4. CASE CallFails \/ Crash
  BY <1>4, TypeCallFails, TypeCrash
<1>5. CASE Informers
  BY <1>5, TypeInformers
<1>6. CASE Environment
  BY <1>6, TypeUser, TypeCluster DEF Environment
<1> QED BY <1>1, <1>2, <1>3, <1>4, <1>5, <1>6 DEF Next

\* Every reachable state of the controller is well-typed; in particular no
\* step after setDefaults works on a scope without a ConfigMap name.
THEOREM TypeCorrect == Spec => []TypeOK
BY TypeInit, TypeNext, PTL DEF Spec

-----------------------------------------------------------------------------
(* The copies and the two paths                                            *)

\* Where an error leaves the worker: idle, or with the same scope in hand.
LEMMA FailPath ==
    ASSUME Fail
    PROVE  \/ pc' = "idle" /\ fresh' = FALSE
           \/ /\ pc' = "recordFailed" /\ ~inst.deleting
              /\ UNCHANGED <<cur, inst, fresh>>
BY DEF Fail, Return

\* Steps that store no scope and take no new copy.
LEMMA CopiesQuiet ==
    ASSUME CopiesInv, UNCHANGED <<api, cache, crLag>>,
           fresh' = FALSE \/ UNCHANGED <<cur, inst, fresh>>
    PROVE  CopiesInv'
BY DEF CopiesInv

\* The quiet steps of the worker.
LEMMA QuietSteps ==
    ASSUME \/ \E n \in Namespace : Push(n) \/ Delete(n)
           \/ DeleteRbacFromUnmanaged \/ UpdateConfigMap \/ RestartPods
           \/ RuntimeRoles \/ DeleteAllRbac \/ CallFails
    PROVE  /\ UNCHANGED <<api, cache, crLag>>
           /\ fresh' = FALSE \/ UNCHANGED <<cur, inst, fresh>>
<1>1. ASSUME NEW n \in Namespace, Push(n)
      PROVE  UNCHANGED <<api, cache, crLag, cur, inst, fresh>>
  BY <1>1 DEF Push
<1>2. ASSUME NEW n \in Namespace, Delete(n)
      PROVE  /\ UNCHANGED <<api, cache, crLag>>
             /\ fresh' = FALSE \/ UNCHANGED <<cur, inst, fresh>>
  BY <1>2, FailPath DEF Delete
<1>3. CASE DeleteRbacFromUnmanaged
  BY <1>3 DEF DeleteRbacFromUnmanaged
<1>4. CASE UpdateConfigMap
  BY <1>4, FailPath DEF UpdateConfigMap
<1>5. CASE RestartPods
  BY <1>5 DEF RestartPods
<1>6. CASE RuntimeRoles
  BY <1>6 DEF RuntimeRoles
<1>7. CASE DeleteAllRbac
  BY <1>7 DEF DeleteAllRbac
<1>8. CASE CallFails
  BY <1>8, FailPath DEF CallFails
<1> QED BY <1>1, <1>2, <1>3, <1>4, <1>5, <1>6, <1>7, <1>8

LEMMA CopiesStart ==
    ASSUME TypeOK, CopiesInv, NEW c \in CR, Start(c) PROVE CopiesInv'
<1> DEFINE o == cache[c]
<1>1. UNCHANGED <<api, cache, crLag>>
  BY DEF Start
<1>2. CASE ~(o # None /\ (o.deleting => o.fin))
  BY <1>1, <1>2, CopiesQuiet DEF Start
<1>3. CASE o # None /\ (o.deleting => o.fin)
  <2>1. o \in Scope
    BY <1>3 DEF TypeOK, ScopesTypeOK
  <2>2. /\ cur' = c /\ fresh' = (c \notin crLag)
        /\ inst' = IF o.deleting THEN setDefaults(o) ELSE o
    BY <1>3 DEF Start
  <2>3. /\ inst'.uid = o.uid /\ inst'.fin = o.fin /\ inst'.members = o.members
        /\ inst'.deleting = o.deleting
        /\ setDefaults(inst').cm = setDefaults(o).cm
    BY <2>1, <2>2, SetDefaultsType
  <2>4. fresh' => api[c] = o
    BY <2>2 DEF CopiesInv
  <2>5. (setDefaults(inst).cm)' = setDefaults(o).cm
    BY <2>3 DEF setDefaults
  <2>6. fresh' => (setDefaults(api[cur]).cm)' = setDefaults(o).cm
    BY <1>1, <2>2, <2>4 DEF setDefaults
  <2> QED BY <1>1, <1>3, <2>2, <2>3, <2>4, <2>5, <2>6 DEF CopiesInv
<1> QED BY <1>2, <1>3

\* The worker stores its fresh copy: the finalizer may be added, the spec and
\* the identity stay.
LEMMA CopiesStore ==
    ASSUME TypeOK, CopiesInv, fresh, cur \in CR, inst \in Scope, ~inst.deleting,
           NEW o \in Scope, NEW i \in Scope, Store(cur, o),
           o.uid = inst.uid, o.members = inst.members, ~o.deleting,
           inst.fin => o.fin, setDefaults(o).cm = setDefaults(inst).cm,
           inst' = i, i.uid = o.uid, i.fin = o.fin, i.members = o.members,
           ~i.deleting, setDefaults(i).cm = setDefaults(o).cm,
           UNCHANGED <<cur, fresh, cache>>
    PROVE  CopiesInv'
<1>1. api' = [api EXCEPT ![cur] = o] /\ crLag' = crLag \cup {cur}
  BY DEF Store
<1>2. api'[cur] = o /\ \A c \in CR \ {cur} : api'[c] = api[c]
  BY <1>1 DEF TypeOK, ScopesTypeOK
<1>3. (setDefaults(inst).cm)' = setDefaults(i).cm
  BY DEF setDefaults
<1>4. (setDefaults(api[cur]).cm)' = setDefaults(o).cm
  BY <1>2 DEF setDefaults
<1>5. o # None
  BY NoneIsNoObject
<1>6. \A c \in CR : cache[c] # None /\ ~cache[c].deleting /\ cache[c].fin =>
         api'[c] # None /\ api'[c].fin /\ api'[c].uid = cache[c].uid
  BY <1>2, <1>5 DEF CopiesInv
<1>7. \A c \in CR : c \notin crLag' => cache[c] = api'[c]
  BY <1>1, <1>2 DEF CopiesInv
<1>8. o.deleting = i.deleting
  BY DEF Scope
<1> QED BY <1>2, <1>3, <1>4, <1>5, <1>6, <1>7, <1>8 DEF CopiesInv

LEMMA CopiesAddFinalizer ==
    ASSUME TypeOK, CopiesInv, PathInv, AddFinalizer PROVE CopiesInv'
<1>1. pc = "addFinalizer" /\ cur \in CR /\ inst \in Scope /\ ~inst.deleting
  BY DEF AddFinalizer, TypeOK, WorkerTypeOK, PathInv
<1>2. CASE fresh
  <2> DEFINE o == [inst EXCEPT !.fin = TRUE]
  <2>1. /\ o \in Scope /\ o.uid = inst.uid /\ o.members = inst.members
        /\ ~o.deleting /\ o.fin /\ o.cm = inst.cm
    BY <1>1 DEF Scope
  <2>2. setDefaults(o).cm = setDefaults(inst).cm
    BY <1>1, <2>1 DEF setDefaults, Scope
  <2>3. Store(cur, o) /\ inst' = o /\ UNCHANGED <<cur, fresh, cache>>
    BY <1>2 DEF AddFinalizer
  <2> QED BY <1>1, <1>2, <2>1, <2>2, <2>3, CopiesStore
<1>3. CASE ~fresh
  BY <1>3, FailPath, CopiesQuiet DEF AddFinalizer
<1> QED BY <1>2, <1>3

LEMMA CopiesUpdateStatus ==
    ASSUME TypeOK, CopiesInv, PathInv, UpdateStatus PROVE CopiesInv'
<1>1. pc = "updateStatus" /\ cur \in CR /\ inst \in Scope /\ ~inst.deleting
      /\ UNCHANGED cache
  BY DEF UpdateStatus, TypeOK, WorkerTypeOK, PathInv
<1>2. PICK valid \in SUBSET Namespace :
        LET new == [inst EXCEPT !.validated = valid]
        IN  IF valid # inst.validated /\ ~fresh
            THEN Fail /\ UNCHANGED <<api, crLag>>
            ELSE /\ IF valid # inst.validated
                    THEN Store(cur, new) ELSE UNCHANGED <<api, crLag>>
                 /\ inst' = setDefaults(new)
                 /\ UNCHANGED <<cur, fresh>>
  <2>1. \A u : getValidatedNamespaces(inst.members, u) \in SUBSET Namespace
    BY <1>1, ValidatedType DEF Scope
  <2> QED BY <2>1 DEF UpdateStatus
<1> DEFINE new == [inst EXCEPT !.validated = valid]
<1>3. /\ new \in Scope /\ new.uid = inst.uid /\ new.members = inst.members
      /\ new.deleting = inst.deleting /\ new.fin = inst.fin /\ new.cm = inst.cm
  BY <1>1 DEF Scope
<1>4. /\ setDefaults(new).cm = setDefaults(inst).cm
      /\ setDefaults(setDefaults(new)).cm = setDefaults(new).cm
      /\ setDefaults(new) \in Scope /\ setDefaults(new).uid = inst.uid
      /\ setDefaults(new).members = inst.members
      /\ setDefaults(new).fin = inst.fin
      /\ setDefaults(new).deleting = inst.deleting
  <2>1. setDefaults(new).cm = setDefaults(inst).cm
    BY <1>1, <1>3 DEF setDefaults, Scope
  <2> QED BY <1>3, <2>1, SetDefaultsType
<1>5. CASE valid # inst.validated /\ ~fresh
  BY <1>1, <1>2, <1>5, FailPath, CopiesQuiet
<1>6. CASE valid # inst.validated /\ fresh
  <2>1. Store(cur, new) /\ inst' = setDefaults(new) /\ UNCHANGED <<cur, fresh>>
    BY <1>2, <1>6
  <2> QED BY <1>1, <1>3, <1>4, <1>6, <2>1, CopiesStore
<1>7. CASE valid = inst.validated
  <2>1. /\ UNCHANGED <<api, crLag, cache, cur, fresh>>
        /\ inst' = setDefaults(new)
    BY <1>1, <1>2, <1>7
  <2>2. (setDefaults(inst).cm)' = setDefaults(inst).cm
    BY <1>4, <2>1 DEF setDefaults
  <2>3. (setDefaults(api[cur]).cm)' = setDefaults(api[cur]).cm
    BY <2>1 DEF setDefaults
  <2> QED BY <1>4, <2>1, <2>2, <2>3 DEF CopiesInv
<1> QED BY <1>5, <1>6, <1>7

\* UpdateUnprojectedRolesStatus as far as the scope's identity is concerned.
LEMMA UnprojectedKeeps ==
    ASSUME TypeOK, CopiesInv, UpdateUnprojected
    PROVE  /\ cur \in CR /\ inst \in Scope
           /\ \/ Fail /\ UNCHANGED <<api, crLag>>
              \/ UNCHANGED <<api, crLag, cur, inst, fresh>>
              \/ \E o, i \in Scope :
                    /\ fresh /\ Store(cur, o) /\ inst' = i
                    /\ UNCHANGED <<cur, fresh>>
                    /\ o.uid = inst.uid /\ o.members = inst.members
                    /\ o.fin = inst.fin /\ o.deleting = inst.deleting
                    /\ setDefaults(o).cm = setDefaults(inst).cm
                    /\ i.uid = inst.uid /\ i.members = inst.members
                    /\ i.fin = inst.fin /\ i.deleting = inst.deleting
                    /\ setDefaults(i).cm = setDefaults(inst).cm
<1>1. cur \in CR /\ inst \in Scope /\ missed \subseteq Namespace
  BY DEF UpdateUnprojected, TypeOK, WorkerTypeOK
<1> DEFINE o == [api[cur] EXCEPT !.unprojected = missed]
           i == [inst EXCEPT !.unprojected = missed]
<1>2. CASE missed = inst.unprojected
  <2>1. i = inst
    BY <1>1, <1>2 DEF Scope
  <2> QED BY <1>1, <1>2, <2>1 DEF UpdateUnprojected
<1>3. CASE missed # inst.unprojected /\ (~fresh \/ api[cur] = None)
  BY <1>1, <1>3 DEF UpdateUnprojected
<1>4. CASE missed # inst.unprojected /\ fresh /\ api[cur] # None
  <2>1. api[cur] \in Scope
    BY <1>1, <1>4 DEF TypeOK, ScopesTypeOK
  <2>2. /\ o \in Scope /\ o.uid = inst.uid /\ o.members = inst.members
        /\ o.fin = inst.fin /\ o.deleting = inst.deleting /\ o.cm = api[cur].cm
    BY <1>1, <1>4, <2>1 DEF CopiesInv, Scope
  <2>3. /\ i \in Scope /\ i.uid = inst.uid /\ i.members = inst.members
        /\ i.fin = inst.fin /\ i.deleting = inst.deleting /\ i.cm = inst.cm
    BY <1>1 DEF Scope
  <2>4. setDefaults(o).cm = setDefaults(inst).cm
    <3>1. setDefaults(o).cm = setDefaults(api[cur]).cm
      BY <2>1, <2>2 DEF setDefaults, Scope
    <3> QED BY <1>4, <3>1 DEF CopiesInv
  <2>5. setDefaults(i).cm = setDefaults(inst).cm
    BY <1>1, <2>3 DEF setDefaults, Scope
  <2>6. Store(cur, o) /\ inst' = i /\ UNCHANGED <<cur, fresh>>
    BY <1>4 DEF UpdateUnprojected
  <2> QED BY <1>1, <1>4, <2>2, <2>3, <2>4, <2>5, <2>6
<1> QED BY <1>2, <1>3, <1>4

LEMMA CopiesUpdateUnprojected ==
    ASSUME TypeOK, CopiesInv, PathInv, UpdateUnprojected PROVE CopiesInv'
<1>1. ~inst.deleting /\ UNCHANGED cache
  BY DEF UpdateUnprojected, PathInv
<1> QED BY <1>1, UnprojectedKeeps, FailPath, CopiesQuiet, CopiesStore

LEMMA CopiesRemoveFinalizer ==
    ASSUME TypeOK, CopiesInv, PathInv, RemoveFinalizer PROVE CopiesInv'
<1>1. /\ cur \in CR /\ inst.deleting /\ UNCHANGED cache /\ fresh' = FALSE
  BY DEF RemoveFinalizer, Return, TypeOK, WorkerTypeOK, PathInv
<1>2. CASE fresh
  <2>1. /\ api' = [api EXCEPT ![cur] = None] /\ crLag' = crLag \cup {cur}
    BY <1>2 DEF RemoveFinalizer, Store
  <2>2. api'[cur] = None /\ \A c \in CR \ {cur} : api'[c] = api[c]
    BY <1>1, <2>1 DEF TypeOK, ScopesTypeOK
  <2>3. cache[cur].deleting
    BY <1>1, <1>2 DEF CopiesInv
  <2> QED BY <1>1, <2>1, <2>2, <2>3 DEF CopiesInv
<1>3. CASE ~fresh
  BY <1>1, <1>3, CopiesQuiet DEF RemoveFinalizer
<1> QED BY <1>2, <1>3

LEMMA CopiesUserStores ==
    ASSUME TypeOK, CopiesInv, NEW c \in CR, NEW o, UserStores(c, o),
           api[c] # None /\ api[c].fin => o # None /\ o.fin /\ o.uid = api[c].uid
    PROVE  CopiesInv'
<1>1. /\ api' = [api EXCEPT ![c] = o] /\ crLag' = crLag \cup {c}
      /\ fresh' = (fresh /\ c # cur) /\ UNCHANGED <<cache, cur, inst>>
  BY DEF UserStores, Store
<1>2. api'[c] = o /\ \A d \in CR \ {c} : api'[d] = api[d]
  BY <1>1 DEF TypeOK, ScopesTypeOK
<1>3. \A d \in CR : d \notin crLag' => cache'[d] = api'[d]
  BY <1>1, <1>2 DEF CopiesInv
<1>4. \A d \in CR : cache'[d] # None /\ ~cache'[d].deleting /\ cache'[d].fin =>
         api'[d] # None /\ api'[d].fin /\ api'[d].uid = cache'[d].uid
  BY <1>1, <1>2 DEF CopiesInv
<1>5. fresh' => cur \in CR /\ api'[cur] = api[cur]
  BY <1>1, <1>2 DEF TypeOK, WorkerTypeOK
<1>6. fresh' => (setDefaults(api[cur]).cm)' = setDefaults(api[cur]).cm
  BY <1>1, <1>5 DEF setDefaults
<1>7. (setDefaults(inst).cm)' = setDefaults(inst).cm
  BY <1>1 DEF setDefaults
<1> QED BY <1>1, <1>3, <1>4, <1>5, <1>6, <1>7 DEF CopiesInv

LEMMA CopiesUser ==
    ASSUME TypeOK, CopiesInv, NEW c \in CR,
           UserCreates(c) \/ UserEdits(c) \/ UserDeletes(c)
    PROVE  CopiesInv'
<1>1. CASE UserCreates(c)
  BY <1>1, CopiesUserStores DEF UserCreates
<1>2. CASE UserEdits(c)
  <2>1. api[c] \in Scope
    BY <1>2 DEF UserEdits, TypeOK, ScopesTypeOK
  <2>2. PICK o : /\ UserStores(c, o)
                 /\ o # None /\ o.fin = api[c].fin /\ o.uid = api[c].uid
    <3>1. \A ms \in MemberChoices : LET o == [api[c] EXCEPT !.members = ms]
             IN  o # None /\ o.fin = api[c].fin /\ o.uid = api[c].uid
      BY <2>1, ConstantsOK, NoneIsNoObject DEF Scope
    <3>2. \A m \in CmChoices : LET o == [api[c] EXCEPT !.cm = m]
             IN  o # None /\ o.fin = api[c].fin /\ o.uid = api[c].uid
      BY <2>1, ConstantsOK, NoneIsNoObject DEF Scope
    <3> QED BY <1>2, <3>1, <3>2 DEF UserEdits
  <2> QED BY <2>2, CopiesUserStores
<1>3. CASE UserDeletes(c)
  <2>1. api[c] \in Scope
    BY <1>3 DEF UserDeletes, TypeOK, ScopesTypeOK
  <2>2. LET o == [api[c] EXCEPT !.deleting = TRUE]
        IN  o # None /\ o.fin = api[c].fin /\ o.uid = api[c].uid
    BY <2>1, NoneIsNoObject DEF Scope
  <2> QED BY <1>3, <2>1, <2>2, CopiesUserStores DEF UserDeletes
<1> QED BY <1>1, <1>2, <1>3

LEMMA CopiesRest ==
    ASSUME TypeOK, CopiesInv,
           \/ Record \/ Crash \/ Informers
           \/ \E c \in CR : CsvControllerPatches(c)
           \/ \E n \in Namespace : NamespaceChanges(n) \/ AuthorizationChanges(n)
           \/ \E m \in ConfigMapName : CollectConfigMap(m)
    PROVE  CopiesInv'
<1>1. CASE Record
  <2>1. /\ UNCHANGED <<api, cache>> /\ crLag \subseteq crLag' /\ fresh' = FALSE
    BY <1>1 DEF Record, Return
  <2> QED BY <2>1 DEF CopiesInv
<1>2. CASE Crash
  BY <1>2 DEF Crash, CopiesInv
<1>3. CASE CacheSync
  <2>1. /\ cache' = api /\ crLag' = {} /\ UNCHANGED <<api, cur, inst, fresh>>
    BY <1>3 DEF CacheSync
  <2>2. (setDefaults(inst).cm)' = setDefaults(inst).cm
    BY <2>1 DEF setDefaults
  <2>3. (setDefaults(api[cur]).cm)' = setDefaults(api[cur]).cm
    BY <2>1 DEF setDefaults
  <2> QED BY <2>1, <2>2, <2>3 DEF CopiesInv
<1>4. CASE CmSync
  BY <1>4, CopiesQuiet DEF CmSync
<1>5. ASSUME NEW c \in CR, CsvControllerPatches(c) PROVE CopiesInv'
  <2>1. /\ UNCHANGED <<api, cache, cur, inst>> /\ crLag \subseteq crLag'
        /\ fresh' => fresh
    BY <1>5 DEF CsvControllerPatches
  <2>2. (setDefaults(inst).cm)' = setDefaults(inst).cm
    BY <2>1 DEF setDefaults
  <2>3. (setDefaults(api[cur]).cm)' = setDefaults(api[cur]).cm
    BY <2>1 DEF setDefaults
  <2> QED BY <2>1, <2>2, <2>3 DEF CopiesInv
<1>6. ASSUME NEW n \in Namespace, NamespaceChanges(n) \/ AuthorizationChanges(n)
      PROVE  CopiesInv'
  BY <1>6, CopiesQuiet DEF NamespaceChanges, AuthorizationChanges
<1>7. ASSUME NEW m \in ConfigMapName, CollectConfigMap(m) PROVE CopiesInv'
  BY <1>7, CopiesQuiet DEF CollectConfigMap
<1> QED BY <1>1, <1>2, <1>3, <1>4, <1>5, <1>6, <1>7 DEF Informers

LEMMA CopiesNext ==
    ASSUME TypeOK, CopiesInv, PathInv, [Next]_vars PROVE CopiesInv'
<1>1. CASE UNCHANGED vars
  BY <1>1, CopiesQuiet DEF vars
<1>2. CASE \E c \in CR : Start(c)
  BY <1>2, CopiesStart
<1>3. CASE Reconcile
  BY <1>3, CopiesAddFinalizer, CopiesUpdateStatus, CopiesUpdateUnprojected,
     CopiesRemoveFinalizer,
     CopiesRest, QuietSteps, CopiesQuiet DEF Reconcile
<1>4. CASE CallFails
  BY <1>4, QuietSteps, CopiesQuiet
<1>5. CASE Crash \/ Informers
  BY <1>5, CopiesRest
<1>6. CASE Environment
  BY <1>6, CopiesUser, CopiesRest DEF Environment
<1> QED BY <1>1, <1>2, <1>3, <1>4, <1>5, <1>6 DEF Next

\* The steps the worker takes no part in.
Others == \/ Informers
          \/ Environment

LEMMA OthersLeaveTheWorker ==
    ASSUME Others PROVE UNCHANGED <<pc, cur, inst, todo, spared>>
<1>1. CASE Informers
  BY <1>1 DEF Informers, CacheSync, CmSync
<1>2. CASE Environment
  BY <1>2 DEF Environment, UserCreates, UserEdits, UserDeletes, UserStores,
     CsvControllerPatches, NamespaceChanges, AuthorizationChanges, CollectConfigMap
<1> QED BY <1>1, <1>2 DEF Others

LEMMA PathNext ==
    ASSUME TypeOK, PathInv, [Next]_vars PROVE PathInv'
<1>1. CASE UNCHANGED vars
  BY <1>1 DEF vars, PathInv
<1>2. ASSUME NEW c \in CR, Start(c) PROVE PathInv'
  <2> DEFINE o == cache[c]
  <2>1. CASE ~(o # None /\ (o.deleting => o.fin))
    BY <1>2, <2>1 DEF Start, PathInv
  <2>2. CASE o # None /\ (o.deleting => o.fin)
    <3>1. o \in Scope
      BY <2>2 DEF TypeOK, ScopesTypeOK
    <3>2. pc' = FirstStep(c, o) /\ inst' = IF o.deleting THEN setDefaults(o) ELSE o
      BY <1>2, <2>2 DEF Start
    <3>3. inst'.deleting = o.deleting
      BY <3>1, <3>2, SetDefaultsType
    <3> QED BY <3>2, <3>3 DEF FirstStep, PathInv
  <2> QED BY <2>1, <2>2
<1>3. CASE AddFinalizer
  <2>1. inst \in Scope /\ ~inst.deleting
    BY <1>3 DEF AddFinalizer, TypeOK, WorkerTypeOK, PathInv
  <2>2. [inst EXCEPT !.fin = TRUE].deleting = inst.deleting
    BY <2>1 DEF Scope
  <2>3. ~inst'.deleting \/ pc' = "idle"
    BY <1>3, <2>1, <2>2, FailPath DEF AddFinalizer
  <2> QED BY <1>3, <2>3, FailPath DEF AddFinalizer, PathInv
<1>4. CASE UpdateStatus
  <2>1. inst \in Scope /\ ~inst.deleting
    BY <1>4 DEF UpdateStatus, TypeOK, WorkerTypeOK, PathInv
  <2>2. \A u : LET valid == getValidatedNamespaces(inst.members, u)
                   new == [inst EXCEPT !.validated = valid]
               IN  setDefaults(new).deleting = inst.deleting
    BY <2>1, ValidatedType, SetDefaultsType DEF Scope
  <2>3. \/ pc' = "idle"
        \/ /\ pc' \in {"recordFailed", "push", "unprojected", "deleteUnmanaged"}
           /\ ~inst'.deleting
    BY <1>4, <2>1, <2>2, FailPath DEF UpdateStatus, Loop, AfterPush
  <2> QED BY <2>3 DEF PathInv
<1>5. CASE UpdateUnprojected
  <2>1. inst \in Scope /\ ~inst.deleting
    BY <1>5 DEF UpdateUnprojected, TypeOK, WorkerTypeOK, PathInv
  <2>2. [inst EXCEPT !.unprojected = missed].deleting = inst.deleting
    BY <2>1 DEF Scope
  <2>3. \/ pc' = "idle"
        \/ pc' \in {"recordFailed", "deleteUnmanaged"} /\ ~inst'.deleting
    BY <1>5, <2>1, <2>2, FailPath DEF UpdateUnprojected
  <2> QED BY <2>3 DEF PathInv
<1>6. ASSUME NEW n \in Namespace, Push(n) PROVE PathInv'
  BY <1>6 DEF Push, Loop, AfterPush, PathInv
<1>7. ASSUME NEW n \in Namespace, Delete(n) PROVE PathInv'
  BY <1>7, FailPath DEF Delete, Loop, PathInv
<1>8. CASE DeleteRbacFromUnmanaged \/ DeleteAllRbac
  BY <1>8 DEF DeleteRbacFromUnmanaged, DeleteAllRbac, Loop, PathInv
<1>9. CASE UpdateConfigMap \/ RestartPods
  BY <1>9, FailPath DEF UpdateConfigMap, RestartPods, PathInv
<1>10. CASE RuntimeRoles
  BY <1>10 DEF RuntimeRoles, PathInv
<1>11. CASE Record \/ RemoveFinalizer \/ Crash
  BY <1>11 DEF Record, RemoveFinalizer, Crash, Return, PathInv
<1>12. CASE CallFails
  BY <1>12, FailPath DEF CallFails, PathInv
<1>13. CASE Others
  BY <1>13, OthersLeaveTheWorker DEF PathInv
<1> QED BY <1>1, <1>2, <1>3, <1>4, <1>5, <1>6, <1>7, <1>8, <1>9, <1>10, <1>11,
           <1>12, <1>13 DEF Next, Reconcile, Others

-----------------------------------------------------------------------------
(* The finalizer                                                           *)

\* UpdateStatus as far as the scope's identity is concerned.
LEMMA UpdateStatusKeeps ==
    ASSUME TypeOK, UpdateStatus
    PROVE  /\ \/ UNCHANGED api
              \/ /\ fresh /\ cur \in CR
                 /\ \E o \in Scope : /\ Store(cur, o)
                                     /\ o.fin = inst.fin /\ o.uid = inst.uid
           /\ \/ pc' \in {"idle", "recordFailed"}
              \/ /\ cur' = cur /\ inst'.uid = inst.uid
                 /\ inst'.deleting = inst.deleting
<1>1. inst \in Scope /\ cur \in CR
  BY DEF UpdateStatus, TypeOK, WorkerTypeOK
<1>2. PICK valid \in SUBSET Namespace :
        LET new == [inst EXCEPT !.validated = valid]
        IN  IF valid # inst.validated /\ ~fresh
            THEN Fail /\ UNCHANGED <<api, crLag>>
            ELSE /\ IF valid # inst.validated
                    THEN Store(cur, new) ELSE UNCHANGED <<api, crLag>>
                 /\ inst' = setDefaults(new)
                 /\ UNCHANGED <<cur, fresh>>
  <2>1. \A u : getValidatedNamespaces(inst.members, u) \in SUBSET Namespace
    BY <1>1, ValidatedType DEF Scope
  <2> QED BY <2>1 DEF UpdateStatus
<1> DEFINE new == [inst EXCEPT !.validated = valid]
<1>3. /\ new \in Scope /\ new.fin = inst.fin /\ new.uid = inst.uid
      /\ new.deleting = inst.deleting
  BY <1>1 DEF Scope
<1>4. setDefaults(new).uid = inst.uid /\ setDefaults(new).deleting = inst.deleting
  BY <1>3, SetDefaultsType
<1> QED BY <1>1, <1>2, <1>3, <1>4, FailPath

\* A finalizer goes away with RemoveFinalizer only, and never moves to a later
\* scope of the same name.
LEMMA FinalizerStays ==
    ASSUME TypeOK, CopiesInv, PathInv, [Next]_vars, ~RemoveFinalizer,
           NEW d \in CR, api[d] # None, api[d].fin
    PROVE  api'[d] # None /\ api'[d].fin /\ api'[d].uid = api[d].uid
<1> DEFINE Goal == api'[d] # None /\ api'[d].fin /\ api'[d].uid = api[d].uid
<1>1. UNCHANGED api => Goal
  OBVIOUS
<1>2. ASSUME NEW o \in Scope, Store(cur, o), fresh, cur \in CR,
             api[cur].fin => o.fin, o.uid = inst.uid
      PROVE  Goal
  <2>1. /\ api'[cur] = o /\ o # None /\ api[cur].uid = o.uid
        /\ \A c \in CR \ {cur} : api'[c] = api[c]
    BY <1>2, NoneIsNoObject DEF Store, TypeOK, ScopesTypeOK, CopiesInv
  <2> QED BY <1>2, <2>1
<1>3. ASSUME NEW c \in CR, NEW o, UserStores(c, o),
             api[c] # None /\ api[c].fin => o # None /\ o.fin /\ o.uid = api[c].uid
      PROVE  Goal
  BY <1>3 DEF UserStores, Store, TypeOK, ScopesTypeOK
<1>4. CASE AddFinalizer
  <2>1. inst \in Scope /\ cur \in CR
    BY <1>4 DEF AddFinalizer, TypeOK, WorkerTypeOK
  <2>2. /\ [inst EXCEPT !.fin = TRUE] \in Scope /\ [inst EXCEPT !.fin = TRUE].fin
        /\ [inst EXCEPT !.fin = TRUE].uid = inst.uid
    BY <2>1 DEF Scope
  <2> QED BY <1>1, <1>2, <1>4, <2>1, <2>2 DEF AddFinalizer
<1>5. CASE UpdateStatus
  BY <1>1, <1>2, <1>5, UpdateStatusKeeps DEF CopiesInv
<1>6. CASE UpdateUnprojected
  BY <1>1, <1>2, <1>6, UnprojectedKeeps DEF CopiesInv
<1>7. ASSUME NEW c \in CR, UserCreates(c) PROVE Goal
  BY <1>3, <1>7 DEF UserCreates
<1>8. ASSUME NEW c \in CR, UserEdits(c) PROVE Goal
  <2>1. api[c] \in Scope
    BY <1>8 DEF UserEdits, TypeOK, ScopesTypeOK
  <2>2. \A ms \in MemberChoices : LET o == [api[c] EXCEPT !.members = ms]
           IN  o # None /\ o.fin = api[c].fin /\ o.uid = api[c].uid
    BY <2>1, ConstantsOK, NoneIsNoObject DEF Scope
  <2>3. \A m \in CmChoices : LET o == [api[c] EXCEPT !.cm = m]
           IN  o # None /\ o.fin = api[c].fin /\ o.uid = api[c].uid
    BY <2>1, ConstantsOK, NoneIsNoObject DEF Scope
  <2> QED BY <1>3, <1>8, <2>2, <2>3 DEF UserEdits
<1>9. ASSUME NEW c \in CR, UserDeletes(c) PROVE Goal
  <2>1. api[c] \in Scope
    BY <1>9 DEF UserDeletes, TypeOK, ScopesTypeOK
  <2>2. LET o == [api[c] EXCEPT !.deleting = TRUE]
        IN  o # None /\ o.fin = api[c].fin /\ o.uid = api[c].uid
    BY <2>1, NoneIsNoObject DEF Scope
  <2> QED BY <1>3, <1>9, <2>2 DEF UserDeletes
<1>10. CASE \/ UNCHANGED vars
            \/ \E c \in CR : Start(c) \/ CsvControllerPatches(c)
            \/ Record \/ Crash \/ Informers
            \/ \E n \in Namespace : NamespaceChanges(n) \/ AuthorizationChanges(n)
            \/ \E m \in ConfigMapName : CollectConfigMap(m)
  BY <1>1, <1>10 DEF vars, Start, CsvControllerPatches, Record, Crash, Informers,
     CacheSync, CmSync, NamespaceChanges, AuthorizationChanges, CollectConfigMap
<1>11. CASE \/ \E n \in Namespace : Push(n) \/ Delete(n)
            \/ DeleteRbacFromUnmanaged \/ UpdateConfigMap \/ RestartPods
            \/ RuntimeRoles \/ DeleteAllRbac \/ CallFails
  BY <1>1, <1>11, QuietSteps
<1> QED BY <1>4, <1>5, <1>6, <1>7, <1>8, <1>9, <1>10, <1>11
        DEF Next, Reconcile, Environment

LEMMA GuardNext ==
    ASSUME TypeOK, CopiesInv, PathInv, GuardInv, [Next]_vars PROVE GuardInv'
<1> DEFINE G == afterDefaults \cup {"updateStatus"}
\* Steps that keep the scope in hand and its finalizer.
<1>1. ASSUME ~RemoveFinalizer, pc' \in G => pc \in G, pc \in G => cur \in CR,
             pc' \in G => /\ cur' = cur /\ inst'.uid = inst.uid
                          /\ inst'.deleting = inst.deleting
      PROVE  GuardInv'
  <2>1. SUFFICES ASSUME pc' \in G, ~inst'.deleting, cur' \notin HelmCR
                 PROVE  Guarded'
    BY DEF GuardInv, afterDefaults
  <2>2. cur \in CR /\ Guarded
    BY <1>1, <2>1 DEF GuardInv
  <2>3. api'[cur] # None /\ api'[cur].fin /\ api'[cur].uid = api[cur].uid
    BY <1>1, <2>2, FinalizerStays DEF Guarded
  <2> QED BY <1>1, <2>1, <2>2, <2>3 DEF Guarded
<1>2. pc \in G => cur \in CR
  BY DEF TypeOK, WorkerTypeOK, afterDefaults
<1>3. CASE pc' \notin G
  BY <1>3 DEF GuardInv, afterDefaults
<1>4. CASE UNCHANGED <<pc, cur, inst>> /\ ~RemoveFinalizer
  BY <1>1, <1>2, <1>4
<1>5. ASSUME NEW c \in CR, Start(c) PROVE GuardInv'
  <2> DEFINE o == cache[c]
  <2>1. CASE ~(o # None /\ (o.deleting => o.fin))
    <3>1. UNCHANGED <<pc, cur, inst>> /\ pc = "idle"
      BY <1>5, <2>1 DEF Start
    <3> QED BY <1>3, <3>1 DEF afterDefaults
  <2>2. CASE o # None /\ (o.deleting => o.fin)
    <3>1. o \in Scope
      BY <2>2 DEF TypeOK, ScopesTypeOK
    <3>2. /\ pc' = FirstStep(c, o) /\ cur' = c /\ UNCHANGED api
          /\ inst' = IF o.deleting THEN setDefaults(o) ELSE o
      BY <1>5, <2>2 DEF Start
    <3>3. CASE o.deleting
      BY <3>1, <3>2, <3>3, SetDefaultsType DEF GuardInv
    <3>4. CASE ~o.deleting
      BY <2>2, <3>2, <3>4 DEF FirstStep, GuardInv, Guarded, CopiesInv, afterDefaults
    <3> QED BY <3>3, <3>4
  <2> QED BY <2>1, <2>2
<1>6. CASE AddFinalizer
  <2>1. CASE fresh
    <3> DEFINE o == [inst EXCEPT !.fin = TRUE]
    <3>1. inst \in Scope /\ cur \in CR
      BY <1>6 DEF AddFinalizer, TypeOK, WorkerTypeOK
    <3>2. o # None /\ o.fin
      BY <3>1, NoneIsNoObject DEF Scope
    <3>3. api'[cur] = o /\ inst' = o /\ cur' = cur
      BY <1>6, <2>1, <3>1 DEF AddFinalizer, Store, TypeOK, ScopesTypeOK
    <3> QED BY <3>2, <3>3 DEF GuardInv, Guarded
  <2>2. CASE ~fresh
    BY <1>3, <1>6, <2>2, FailPath DEF AddFinalizer, afterDefaults
  <2> QED BY <2>1, <2>2
<1>7. CASE UpdateStatus
  <2>1. ~RemoveFinalizer /\ pc \in G
    BY <1>7 DEF UpdateStatus, RemoveFinalizer
  <2>2. \/ pc' \notin G
        \/ /\ cur' = cur /\ inst'.uid = inst.uid /\ inst'.deleting = inst.deleting
    BY <1>7, UpdateStatusKeeps DEF afterDefaults
  <2> QED BY <1>1, <1>2, <2>1, <2>2
<1>8. CASE UpdateUnprojected
  <2>1. ~RemoveFinalizer /\ pc \in G
    BY <1>8 DEF UpdateUnprojected, RemoveFinalizer, afterDefaults
  <2>2. \/ pc' \notin G
        \/ /\ cur' = cur /\ inst'.uid = inst.uid /\ inst'.deleting = inst.deleting
    BY <1>8, UnprojectedKeeps, FailPath DEF afterDefaults
  <2> QED BY <1>1, <1>2, <2>1, <2>2
<1>9. CASE \/ \E n \in Namespace : Push(n) \/ Delete(n)
           \/ DeleteRbacFromUnmanaged \/ UpdateConfigMap \/ RestartPods
           \/ RuntimeRoles \/ DeleteAllRbac
  <2>1. ~RemoveFinalizer /\ pc \in G
    BY <1>9 DEF Push, Delete, DeleteRbacFromUnmanaged, UpdateConfigMap,
       RestartPods, RuntimeRoles, DeleteAllRbac, RemoveFinalizer, afterDefaults
  <2>2. UNCHANGED <<cur, inst>> \/ pc' \notin G
    BY <1>9, FailPath DEF Push, Delete, DeleteRbacFromUnmanaged, UpdateConfigMap,
       RestartPods, RuntimeRoles, DeleteAllRbac, afterDefaults
  <2> QED BY <1>1, <1>2, <2>1, <2>2
<1>10. CASE CallFails \/ Record \/ RemoveFinalizer \/ Crash
  <2>1. pc' \notin G
    BY <1>10, FailPath DEF CallFails, Record, RemoveFinalizer, Crash, Return,
       afterDefaults
  <2> QED BY <1>3, <2>1
<1>11. CASE Others \/ UNCHANGED vars
  <2>1. UNCHANGED <<pc, cur, inst>>
    BY <1>11, OthersLeaveTheWorker DEF vars
  <2>2. CASE RemoveFinalizer
    BY <1>10, <2>2
  <2> QED BY <1>4, <2>1, <2>2
<1> QED BY <1>5, <1>6, <1>7, <1>8, <1>9, <1>10, <1>11 DEF Next, Reconcile, Others

-----------------------------------------------------------------------------
(* The loop of DeleteAllRbac                                               *)

\* One iteration: the namespace is emptied or spared, and the loop is over
\* when no namespace is left.
LEMMA CleanDelete ==
    ASSUME TypeOK, CleanInv, NEW n \in Namespace, Delete(n) PROVE CleanInv'
<1>1. pc = "delete" /\ inst \in Scope /\ inst.cm # None
  BY DEF Delete, TypeOK, WorkerTypeOK, afterDefaults
<1>2. CASE Fail
  BY <1>2, FailPath DEF CleanInv
<1>3. CASE ~Fail
  <2>1. /\ Loop(todo \ {n}, "delete",
                IF inst.deleting THEN "removeFinalizer" ELSE "updateCm")
        /\ UNCHANGED inst
        /\ \/ /\ binding' = DropLabel(binding, n) /\ role' = DropLabel(role, n)
              /\ spared' = spared
           \/ spared' = spared \cup {n} /\ UNCHANGED <<role, binding>>
    BY <1>3 DEF Delete
  <2>2. pc' = "removeFinalizer" => todo' = {}
    BY <2>1 DEF Loop
  <2>3. ASSUME inst.deleting,
               NEW x \in inst.members \ ({OperatorNs} \cup spared' \cup todo')
        PROVE  role'[x] # inst.cm /\ binding'[x] # inst.cm
    <3>1. x \in Namespace /\ spared \subseteq spared' /\ todo' = todo \ {n}
      BY <1>1, <2>1, <2>3 DEF Loop, Scope
    <3>2. CASE x = n
      <4>1. binding' = DropLabel(binding, n) /\ role' = DropLabel(role, n)
        BY <2>1, <2>3, <3>2
      <4> QED BY <1>1, <3>2, <4>1 DEF DropLabel, TypeOK, NamespacesTypeOK
    <3>3. CASE x # n
      <4>1. role[x] # inst.cm /\ binding[x] # inst.cm
        BY <1>1, <2>3, <3>1, <3>3 DEF CleanInv
      <4>2. role'[x] = role[x] /\ binding'[x] = binding[x]
        BY <2>1, <3>1, <3>3 DEF DropLabel, TypeOK, NamespacesTypeOK
      <4> QED BY <4>1, <4>2
    <3> QED BY <3>2, <3>3
  <2> QED BY <2>1, <2>2, <2>3 DEF CleanInv
<1> QED BY <1>2, <1>3

\* Others write labels only by emptying a namespace that is gone.
LEMMA OthersOnlyEmpty ==
    ASSUME TypeOK, Others, NEW x \in Namespace
    PROVE  role'[x] \in {role[x], None} /\ binding'[x] \in {binding[x], None}
           /\ runtime'[x] \in {runtime[x], None}
<1>1. ASSUME NEW n \in Namespace, NamespaceChanges(n)
      PROVE  /\ role'[x] \in {role[x], None} /\ binding'[x] \in {binding[x], None}
             /\ runtime'[x] \in {runtime[x], None}
  BY <1>1 DEF NamespaceChanges, TypeOK, NamespacesTypeOK
<1>2. CASE ~\E n \in Namespace : NamespaceChanges(n)
  <2>1. UNCHANGED <<role, binding, runtime>>
    BY <1>2 DEF Others, Informers, CacheSync, CmSync, Environment, UserCreates,
       UserEdits, UserDeletes, UserStores, CsvControllerPatches,
       AuthorizationChanges, CollectConfigMap
  <2> QED BY <2>1
<1> QED BY <1>1, <1>2

LEMMA CleanNext ==
    ASSUME TypeOK, PathInv, CleanInv, [Next]_vars PROVE CleanInv'
<1>1. CASE UNCHANGED vars
  BY <1>1 DEF vars, CleanInv
<1>2. CASE pc' \notin {"delete", "removeFinalizer"}
  BY <1>2 DEF CleanInv
<1>3. ASSUME NEW c \in CR, Start(c) PROVE CleanInv'
  <2>1. pc' \in {"idle", "addFinalizer", "updateStatus", "updateCm"}
    BY <1>3 DEF Start, FirstStep
  <2> QED BY <1>2, <2>1
<1>4. CASE \/ AddFinalizer \/ UpdateStatus \/ UpdateUnprojected
           \/ \E n \in Namespace : Push(n)
  <2>1. pc' \notin {"delete", "removeFinalizer"}
    BY <1>4, FailPath DEF AddFinalizer, UpdateStatus, UpdateUnprojected, Push,
       Loop, AfterPush
  <2> QED BY <1>2, <2>1
<1>5. ASSUME NEW n \in Namespace, Delete(n) PROVE CleanInv'
  BY <1>5, CleanDelete
<1>6. CASE DeleteRbacFromUnmanaged
  <2>1. ~inst.deleting /\ UNCHANGED inst /\ pc' # "removeFinalizer"
    BY <1>6 DEF DeleteRbacFromUnmanaged, Loop, PathInv
  <2> QED BY <2>1 DEF CleanInv
<1>7. CASE DeleteAllRbac
  BY <1>7 DEF DeleteAllRbac, Loop, CleanInv
<1>8. CASE UpdateConfigMap \/ RestartPods \/ RuntimeRoles
  <2>1. pc' \notin {"delete", "removeFinalizer"}
    BY <1>8, FailPath DEF UpdateConfigMap, RestartPods, RuntimeRoles
  <2> QED BY <1>2, <2>1
<1>9. CASE Record \/ RemoveFinalizer \/ CallFails \/ Crash
  <2>1. pc' \notin {"delete", "removeFinalizer"}
    BY <1>9, FailPath DEF Record, RemoveFinalizer, CallFails, Crash, Return
  <2> QED BY <1>2, <2>1
<1>10. CASE Others
  <2>1. UNCHANGED <<pc, cur, inst, todo, spared>>
    BY <1>10, OthersLeaveTheWorker
  <2>2. ASSUME pc \in {"delete", "removeFinalizer"}, inst.deleting,
               NEW x \in inst.members \ ({OperatorNs} \cup spared \cup todo)
        PROVE  role'[x] # inst.cm /\ binding'[x] # inst.cm
    <3>1. x \in Namespace /\ inst.cm # None
      BY <2>2 DEF TypeOK, WorkerTypeOK, afterDefaults, Scope
    <3>2. role[x] # inst.cm /\ binding[x] # inst.cm
      BY <2>2 DEF CleanInv
    <3> QED BY <1>10, <3>1, <3>2, OthersOnlyEmpty
  <2> QED BY <2>1, <2>2 DEF CleanInv
<1> QED BY <1>1, <1>3, <1>4, <1>5, <1>6, <1>7, <1>8, <1>9, <1>10
        DEF Next, Reconcile, Others

-----------------------------------------------------------------------------
(* The inductive invariant and what follows from it                        *)

LEMMA IInvInit == Init => IInv
<1> SUFFICES ASSUME Init PROVE IInv
  OBVIOUS
<1>1. TypeOK
  BY TypeInit
<1>2. CopiesInv
  BY DEF Init, CopiesInv
<1>3. PathInv /\ GuardInv /\ CleanInv
  BY DEF Init, PathInv, GuardInv, CleanInv, afterDefaults
<1> QED BY <1>1, <1>2, <1>3 DEF IInv

LEMMA IInvNext == IInv /\ [Next]_vars => IInv'
BY TypeNext, CopiesNext, PathNext, GuardNext, CleanNext DEF IInv

\* What the copies of a scope are worth, which path the worker is on, that the
\* scope it projects is held by a finalizer and that DeleteAllRbac leaves clean
\* namespaces behind: all of it holds in every reachable state.
THEOREM InvariantCorrect == Spec => []IInv
BY IInvInit, IInvNext, PTL DEF Spec

LEMMA GuardedStep ==
    ASSUME IInv, [Next]_vars, NEW n \in Namespace
    PROVE  \/ /\ role'[n] \in {role[n], None}
              /\ binding'[n] \in {binding[n], None}
              /\ runtime'[n] \in {runtime[n], None}
           \/ cur \in HelmCR
           \/ Guarded
<1> USE DEF IInv
<1>1. CASE RuntimeRoles \/ \E m \in Namespace : Push(m)
  <2>1. pc \in {"push", "runtime"}
    BY <1>1 DEF Push, RuntimeRoles
  <2> QED BY <2>1 DEF PathInv, GuardInv, afterDefaults
<1>2. ASSUME NEW m \in Namespace, Delete(m)
      PROVE  /\ role'[n] \in {role[n], None} /\ binding'[n] \in {binding[n], None}
             /\ UNCHANGED runtime
  BY <1>2 DEF Delete, DropLabel, TypeOK, NamespacesTypeOK
<1>3. CASE Others
  BY <1>3, OthersOnlyEmpty
<1>4. CASE \/ UNCHANGED vars \/ \E c \in CR : Start(c)
           \/ AddFinalizer \/ UpdateStatus \/ UpdateUnprojected
           \/ DeleteRbacFromUnmanaged \/ UpdateConfigMap \/ RestartPods
           \/ Record \/ DeleteAllRbac \/ RemoveFinalizer \/ CallFails \/ Crash
  <2>1. UNCHANGED <<role, binding, runtime>>
    BY <1>4 DEF vars, Start, AddFinalizer, UpdateStatus, UpdateUnprojected,
       DeleteRbacFromUnmanaged, UpdateConfigMap, RestartPods, Record,
       DeleteAllRbac, RemoveFinalizer, CallFails, Crash
  <2> QED BY <2>1
<1> QED BY <1>1, <1>2, <1>3, <1>4 DEF Next, Reconcile, Others

\* addFinalizer before any projection, for every number of scopes, namespaces,
\* users' writes, faults and lagging copies.
THEOREM FinalizerGuards == Spec => FinalizerBeforeProjection
<1>1. IInv /\ [Next]_vars =>
        [\A n \in Namespace :
            \/ /\ role'[n] \in {role[n], None}
               /\ binding'[n] \in {binding[n], None}
               /\ runtime'[n] \in {runtime[n], None}
            \/ cur \in HelmCR
            \/ Guarded]_vars
  BY GuardedStep
<1> QED BY <1>1, IInvInit, IInvNext, PTL DEF Spec, FinalizerBeforeProjection

LEMMA CleanStep ==
    ASSUME IInv, [Next]_vars, NEW c \in CR,
           api[c] # None, api[c].fin, api'[c] = None,
           NEW n \in api[c].members \ ({OperatorNs} \cup spared)
    PROVE  LET label == setDefaults(api[c]).cm
           IN  role[n] # label /\ binding[n] # label
<1> USE DEF IInv
<1>1. RemoveFinalizer
  BY FinalizerStays
<1>2. /\ pc = "removeFinalizer" /\ inst.deleting /\ todo = {}
      /\ inst \in Scope /\ inst.cm # None /\ cur \in CR
  BY <1>1 DEF RemoveFinalizer, PathInv, CleanInv, TypeOK, WorkerTypeOK, afterDefaults
<1>3. fresh /\ c = cur
  BY <1>1, <1>2 DEF RemoveFinalizer, Store, TypeOK, ScopesTypeOK
<1>4. /\ api[c].members = inst.members
      /\ setDefaults(api[c]).cm = setDefaults(inst).cm
  BY <1>3 DEF CopiesInv
<1>5. setDefaults(inst).cm = inst.cm
  BY <1>2 DEF setDefaults
<1>6. role[n] # inst.cm /\ binding[n] # inst.cm
  BY <1>2, <1>4 DEF CleanInv
<1> QED BY <1>4, <1>5, <1>6

\* The finalizer goes only after the clean-up, for every number of scopes,
\* namespaces, users' writes, faults and lagging copies.
THEOREM ReleaseIsClean == Spec => CleanedBeforeRelease
<1>1. IInv /\ [Next]_vars =>
        [\A c \in CR :
            api[c] # None /\ api[c].fin /\ api'[c] = None =>
                \A n \in api[c].members \ ({OperatorNs} \cup spared) :
                    LET label == setDefaults(api[c]).cm
                    IN  role[n] # label /\ binding[n] # label]_vars
  BY CleanStep
<1> QED BY <1>1, IInvInit, IInvNext, PTL DEF Spec, CleanedBeforeRelease
=============================================================================
