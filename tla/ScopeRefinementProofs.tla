----------------------- MODULE ScopeRefinementProofs -----------------------
(***************************************************************************)
(* NamespaceScope implements ScopeLifecycle: the initial state maps to the *)
(* initial state and, by the inductive invariant of NamespaceScopeProofs,  *)
(* every step maps to a step of ScopeLifecycle or to a stutter.            *)
(***************************************************************************)
EXTENDS ScopeRefinement, NamespaceScopeProofs

lives == [c \in CR |-> lifeOf(api[c])]
claims == [c \in CR |-> claimOf(api[c])]
tracesNow == [n \in Namespace |-> [role |-> role[n], binding |-> binding[n],
                                   runtime |-> runtime[n]]]

USE DEF apiVars, cacheVars, cmVars, rbacVars, nsVars, workVars,
        lives, claims, tracesNow, Lifecycle!lifeVars

-----------------------------------------------------------------------------
\* A stored scope claims namespaces and a label, whatever it leaves unset.
LEMMA ClaimType == ASSUME NEW o \in Scope PROVE claimOf(o) \in Lifecycle!Claim
BY SetDefaultsType, NoneIsNoObject DEF claimOf, Lifecycle!Claim, Scope

\* The labels found in the namespaces are traces.
LEMMA TraceType ==
    ASSUME TypeOK PROVE tracesNow \in [Namespace -> Lifecycle!Trace]
BY DEF TypeOK, NamespacesTypeOK, Lifecycle!Trace

LEMMA InitMaps == Init => Lifecycle!Init
<1> SUFFICES ASSUME Init PROVE Lifecycle!Init
  OBVIOUS
<1>1. \A c \in CR : lifeOf(api[c]) = "absent" /\ claimOf(api[c]) = None
  BY DEF Init, lifeOf, claimOf
<1>2. \A n \in Namespace : role[n] = None /\ binding[n] = None /\ runtime[n] = None
  BY DEF Init
<1> QED BY <1>1, <1>2 DEF Init, Lifecycle!Init

\* A step that stores no scope and only takes objects away, if any, is a
\* Withdraw.
LEMMA WithdrawMaps ==
    ASSUME TypeOK, TypeOK', UNCHANGED <<api, made>>,
           \A n \in Namespace : /\ role'[n] \in {role[n], None}
                                /\ binding'[n] \in {binding[n], None}
                                /\ runtime'[n] \in {runtime[n], None}
    PROVE  Lifecycle!Withdraw
<1>1. tracesNow' \in [Namespace -> Lifecycle!Trace]
  <2>1. /\ role' \in [Namespace -> ConfigMapName \cup {None}]
        /\ binding' \in [Namespace -> ConfigMapName \cup {None}]
        /\ runtime' \in [Namespace -> ConfigMapName \cup {None}]
    BY DEF TypeOK, NamespacesTypeOK
  <2> QED BY <2>1 DEF Lifecycle!Trace
<1>2. spared' \in SUBSET Namespace /\ cur' \in CR \cup {None}
  BY DEF TypeOK, WorkerTypeOK
<1>3. \A n \in Namespace : /\ tracesNow'[n].role \in {tracesNow[n].role, None}
                           /\ tracesNow'[n].binding \in {tracesNow[n].binding, None}
                           /\ tracesNow'[n].runtime \in {tracesNow[n].runtime, None}
  OBVIOUS
<1>4. UNCHANGED <<lives, made, claims>>
  OBVIOUS
<1> QED BY <1>1, <1>2, <1>3, <1>4 DEF Lifecycle!Withdraw

\* A step that writes objects for the guarded scope in hand, or for one of
\* Helm's, is a Project.
LEMMA ProjectMaps ==
    ASSUME TypeOK, TypeOK', NEW c \in CR, c = cur, Guarded \/ cur \in HelmCR,
           UNCHANGED <<api, made, spared, cur>>
    PROVE  Lifecycle!Project(c)
<1>1. tracesNow' \in [Namespace -> Lifecycle!Trace]
  <2>1. /\ role' \in [Namespace -> ConfigMapName \cup {None}]
        /\ binding' \in [Namespace -> ConfigMapName \cup {None}]
        /\ runtime' \in [Namespace -> ConfigMapName \cup {None}]
    BY DEF TypeOK, NamespacesTypeOK
  <2> QED BY <2>1 DEF Lifecycle!Trace
<1>2. lives[c] \in {"held", "leaving"} \/ c \in HelmCR
  BY DEF Guarded, lifeOf
<1> QED BY <1>1, <1>2 DEF Lifecycle!Project

\* Storing a scope that lives and claims as before changes nothing.
LEMMA SameLifeMaps ==
    ASSUME TypeOK, NEW c \in CR, NEW o \in Scope, Store(c, o), api[c] # None,
           lifeOf(o) = lifeOf(api[c]), claimOf(o) = claimOf(api[c]),
           UNCHANGED <<made, role, binding, runtime, spared, cur>>
    PROVE  UNCHANGED Lifecycle!vars
<1>1. /\ api'[c] = o /\ \A d \in CR \ {c} : api'[d] = api[d]
  BY DEF Store, TypeOK, ScopesTypeOK
<1>2. UNCHANGED <<lives, claims>>
  BY <1>1
<1> QED BY <1>2 DEF Lifecycle!vars

\* Storing o under name c changes the life and the claim of c only.
LEMMA StoreMaps ==
    ASSUME TypeOK, NEW c \in CR, NEW o, Store(c, o)
    PROVE  /\ lives' = [lives EXCEPT ![c] = lifeOf(o)]
           /\ claims' = [claims EXCEPT ![c] = claimOf(o)]
BY DEF Store, TypeOK, ScopesTypeOK

-----------------------------------------------------------------------------
\* The deletion path is taken with the finalizer in hand.
HeldInv == pc # "idle" /\ inst.deleting => inst.fin

LEMMA HeldNext == ASSUME IInv, HeldInv, [Next]_vars PROVE HeldInv'
<1> USE DEF IInv
<1>1. CASE pc' = "idle" \/ UNCHANGED <<pc, inst>>
  BY <1>1 DEF HeldInv
<1>2. ASSUME NEW c \in CR, Start(c) PROVE HeldInv'
  <2>1. ASSUME cache[c] # None PROVE /\ setDefaults(cache[c]).fin = cache[c].fin
                                     /\ setDefaults(cache[c]).deleting = cache[c].deleting
    BY <2>1, SetDefaultsType DEF TypeOK, ScopesTypeOK
  <2> QED BY <1>1, <1>2, <2>1 DEF Start, HeldInv
<1>3. CASE AddFinalizer \/ UpdateStatus \/ UpdateUnprojected
  <2>1. inst \in Scope /\ pc # "idle" /\ ~inst.deleting
    BY <1>3 DEF AddFinalizer, UpdateStatus, UpdateUnprojected, TypeOK, WorkerTypeOK,
       PathInv
  <2>2. ASSUME NEW v \in SUBSET Namespace
        PROVE  setDefaults([inst EXCEPT !.validated = v]).deleting = inst.deleting
    BY <2>1 DEF setDefaults, Scope
  <2>3. ASSUME NEW u \in SUBSET inst.members
        PROVE  getValidatedNamespaces(inst.members, u) \in SUBSET Namespace
    BY <2>1, ValidatedType DEF Scope
  <2>4. pc' = "idle" \/ inst'.deleting = inst.deleting
    <3>1. CASE AddFinalizer
      BY <2>1, <3>1, FailPath DEF AddFinalizer, Scope
    <3>2. CASE UpdateStatus
      <4>1. \/ Fail
            \/ \E u \in SUBSET inst.members :
                  inst' = setDefaults([inst EXCEPT !.validated =
                                          getValidatedNamespaces(inst.members, u)])
        BY <3>2 DEF UpdateStatus
      <4>2. ASSUME NEW u \in SUBSET inst.members,
                   inst' = setDefaults([inst EXCEPT !.validated =
                                           getValidatedNamespaces(inst.members, u)])
            PROVE  inst'.deleting = inst.deleting
        BY <2>2, <2>3, <4>2
      <4> QED BY <4>1, <4>2, FailPath
    <3>3. CASE UpdateUnprojected
      BY <2>1, <3>3, FailPath DEF UpdateUnprojected, Scope
    <3> QED BY <1>3, <3>1, <3>2, <3>3
  <2> QED BY <2>1, <2>4 DEF HeldInv
<1>4. CASE \/ \E n \in Namespace : Push(n) \/ Delete(n)
           \/ DeleteRbacFromUnmanaged \/ UpdateConfigMap \/ RestartPods
           \/ RuntimeRoles \/ Record \/ DeleteAllRbac \/ RemoveFinalizer
           \/ CallFails \/ Crash
  <2>1. pc # "idle" /\ (pc' = "idle" \/ UNCHANGED inst)
    BY <1>4, FailPath DEF Push, Delete, DeleteRbacFromUnmanaged, UpdateConfigMap,
       RestartPods, RuntimeRoles, Record, DeleteAllRbac, RemoveFinalizer, CallFails,
       Crash, Return
  <2> QED BY <2>1 DEF HeldInv
<1>5. CASE Others \/ UNCHANGED vars
  BY <1>1, <1>5, OthersLeaveTheWorker DEF vars
<1> QED BY <1>2, <1>3, <1>4, <1>5 DEF Next, Reconcile, Others

-----------------------------------------------------------------------------
(* The steps that store a scope                                            *)

\* A worker's copy that is fresh and only changes its status, stored.
LEMMA StatusMaps ==
    ASSUME IInv, fresh, cur \in CR, inst \in Scope, NEW o \in Scope, Store(cur, o),
           o.fin = inst.fin, o.deleting = inst.deleting, o.members = inst.members,
           setDefaults(o).cm = setDefaults(inst).cm,
           UNCHANGED <<made, role, binding, runtime, spared, cur>>
    PROVE  UNCHANGED Lifecycle!vars
<1> USE DEF IInv
<1>1. /\ api[cur] # None /\ api[cur].fin = o.fin /\ api[cur].deleting = o.deleting
      /\ api[cur].members = o.members /\ setDefaults(api[cur]).cm = setDefaults(o).cm
  BY DEF CopiesInv
<1>2. lifeOf(o) = lifeOf(api[cur]) /\ claimOf(o) = claimOf(api[cur])
  BY <1>1, NoneIsNoObject DEF lifeOf, claimOf
<1> QED BY <1>1, <1>2, SameLifeMaps

LEMMA AddFinalizerMaps ==
    ASSUME IInv, IInv', AddFinalizer
    PROVE  Lifecycle!Next \/ UNCHANGED Lifecycle!vars
<1> USE DEF IInv
<1>1. /\ pc = "addFinalizer" /\ cur \in CR /\ inst \in Scope /\ ~inst.deleting
      /\ UNCHANGED <<made, role, binding, runtime>>
  BY DEF AddFinalizer, TypeOK, WorkerTypeOK, PathInv
<1>2. CASE ~fresh
  <2>1. UNCHANGED api
    BY <1>2 DEF AddFinalizer
  <2> QED BY <1>1, <2>1, WithdrawMaps DEF Lifecycle!Next
<1>3. CASE fresh
  <2> DEFINE o == [inst EXCEPT !.fin = TRUE]
  <2>1. /\ o \in Scope /\ o.fin /\ ~o.deleting /\ o.members = inst.members
        /\ setDefaults(o).cm = setDefaults(inst).cm /\ o # None
    BY <1>1, NoneIsNoObject DEF Scope, setDefaults
  <2>2. Store(cur, o) /\ UNCHANGED <<spared, cur>>
    BY <1>3 DEF AddFinalizer
  <2>3. /\ api[cur] # None /\ ~api[cur].deleting /\ api[cur].fin = inst.fin
        /\ api[cur].members = o.members /\ setDefaults(api[cur]).cm = setDefaults(o).cm
    BY <1>1, <1>3, <2>1 DEF CopiesInv
  <2>4. claimOf(o) = claimOf(api[cur]) /\ lifeOf(o) = "held"
    BY <2>1, <2>3 DEF claimOf, lifeOf
  <2>5. CASE inst.fin
    <3>1. lifeOf(api[cur]) = "held"
      BY <2>3, <2>5 DEF lifeOf
    <3> QED BY <1>1, <2>1, <2>2, <2>3, <2>4, <3>1, SameLifeMaps
  <2>6. CASE ~inst.fin
    <3>1. lives[cur] = "open"
      BY <1>1, <2>3, <2>6 DEF lifeOf
    <3>2. lives' = [lives EXCEPT ![cur] = "held"] /\ claims' = claims
      BY <1>1, <2>2, <2>4, StoreMaps
    <3>3. Lifecycle!Hold(cur)
      BY <1>1, <2>2, <3>1, <3>2 DEF Lifecycle!Hold
    <3> QED BY <1>1, <3>3 DEF Lifecycle!Next
  <2> QED BY <2>5, <2>6
<1> QED BY <1>2, <1>3

LEMMA UpdateStatusMaps ==
    ASSUME IInv, IInv', UpdateStatus
    PROVE  Lifecycle!Next \/ UNCHANGED Lifecycle!vars
<1> USE DEF IInv
<1>1. /\ pc = "updateStatus" /\ cur \in CR /\ inst \in Scope
      /\ UNCHANGED <<made, role, binding, runtime>>
  BY DEF UpdateStatus, TypeOK, WorkerTypeOK
<1>2. CASE UNCHANGED api
  BY <1>1, <1>2, WithdrawMaps DEF Lifecycle!Next
<1>3. CASE ~ UNCHANGED api
  <2>1. PICK valid \in SUBSET Namespace :
          fresh /\ Store(cur, [inst EXCEPT !.validated = valid])
            /\ UNCHANGED <<spared, cur>>
    <3>1. \A u : getValidatedNamespaces(inst.members, u) \in SUBSET Namespace
      BY <1>1, ValidatedType DEF Scope
    <3> QED BY <1>3, <3>1 DEF UpdateStatus
  <2> DEFINE o == [inst EXCEPT !.validated = valid]
  <2>2. /\ o \in Scope /\ o.fin = inst.fin /\ o.deleting = inst.deleting
        /\ o.members = inst.members /\ o.cm = inst.cm
    BY <1>1 DEF Scope
  <2>3. setDefaults(o).cm = setDefaults(inst).cm
    BY <1>1, <2>2 DEF setDefaults, Scope
  <2> QED BY <1>1, <2>1, <2>2, <2>3, StatusMaps
<1> QED BY <1>2, <1>3

LEMMA UpdateUnprojectedMaps ==
    ASSUME IInv, IInv', UpdateUnprojected
    PROVE  Lifecycle!Next \/ UNCHANGED Lifecycle!vars
<1> USE DEF IInv
<1>1. UNCHANGED <<made, role, binding, runtime>>
  BY DEF UpdateUnprojected
<1>2. CASE UNCHANGED api
  BY <1>1, <1>2, WithdrawMaps DEF Lifecycle!Next
<1>3. CASE ~ UNCHANGED api
  <2>1. UNCHANGED <<spared, cur>>
    BY <1>3 DEF UpdateUnprojected
  <2> QED BY <1>1, <1>3, <2>1, UnprojectedKeeps, StatusMaps
<1> QED BY <1>2, <1>3

\* The finalizer goes: the scope is leaving and its namespaces are clean.
LEMMA RemoveFinalizerMaps ==
    ASSUME IInv, IInv', HeldInv, RemoveFinalizer
    PROVE  Lifecycle!Next \/ UNCHANGED Lifecycle!vars
<1> USE DEF IInv
<1>1. /\ pc = "removeFinalizer" /\ cur \in CR /\ inst \in Scope /\ inst.deleting
      /\ UNCHANGED <<made, role, binding, runtime>>
  BY DEF RemoveFinalizer, TypeOK, WorkerTypeOK, PathInv
<1>2. CASE ~fresh
  <2>1. UNCHANGED api
    BY <1>2 DEF RemoveFinalizer
  <2> QED BY <1>1, <2>1, WithdrawMaps DEF Lifecycle!Next
<1>3. CASE fresh
  <2>1. Store(cur, None) /\ spared' = {} /\ cur' = None
    BY <1>3 DEF RemoveFinalizer, Return
  <2>2. /\ lives' = [lives EXCEPT ![cur] = "absent"]
        /\ claims' = [claims EXCEPT ![cur] = None]
    BY <1>1, <2>1, StoreMaps DEF lifeOf, claimOf
  <2>3. api[cur] # None /\ api[cur].deleting /\ api[cur].fin = inst.fin
    BY <1>1, <1>3 DEF CopiesInv
  <2>4. inst.fin
    BY <1>1 DEF HeldInv
  <2>5. lives[cur] = "leaving"
    BY <1>1, <2>3, <2>4 DEF lifeOf
  <2>6. /\ claims[cur].members = inst.members \ {OperatorNs}
        /\ claims[cur].label = inst.cm
    <3>1. setDefaults(inst).cm = inst.cm
      BY <1>1 DEF setDefaults, TypeOK, WorkerTypeOK, afterDefaults
    <3> QED BY <1>1, <1>3, <3>1 DEF CopiesInv, claimOf
  <2>7. \A n \in inst.members \ ({OperatorNs} \cup spared) :
           n \in Namespace /\ role[n] # inst.cm /\ binding[n] # inst.cm
    BY <1>1 DEF CleanInv, Scope
  <2>8. Lifecycle!Clean(cur)
    BY <2>6, <2>7 DEF Lifecycle!Clean
  <2>9. Lifecycle!Release(cur)
    BY <1>1, <2>1, <2>2, <2>5, <2>8 DEF Lifecycle!Release
  <2> QED BY <1>1, <2>9 DEF Lifecycle!Next
<1> QED BY <1>2, <1>3

\* What users do to a scope.
LEMMA UserMaps ==
    ASSUME IInv, NEW c \in CR, UserCreates(c) \/ UserEdits(c) \/ UserDeletes(c)
    PROVE  Lifecycle!Next \/ UNCHANGED Lifecycle!vars
<1> USE DEF IInv
<1>1. UNCHANGED <<role, binding, runtime, spared, cur>>
  BY DEF UserCreates, UserEdits, UserDeletes, UserStores
<1>2. CASE UserCreates(c)
  <2>1. PICK ms \in MemberChoices, m \in CmChoices :
          UserStores(c, [uid |-> made[c] + 1, members |-> ms, cm |-> m,
                         validated |-> {}, unprojected |-> {}, fin |-> FALSE,
                         deleting |-> FALSE])
    BY <1>2 DEF UserCreates
  <2> DEFINE o == [uid |-> made[c] + 1, members |-> ms, cm |-> m,
                   validated |-> {}, unprojected |-> {}, fin |-> FALSE,
                   deleting |-> FALSE]
  <2>2. o \in Scope
    BY ConstantsOK DEF Scope, TypeOK, ScopesTypeOK
  <2>3. /\ lives' = [lives EXCEPT ![c] = "open"]
        /\ claims' = [claims EXCEPT ![c] = claimOf(o)]
    <3>1. lifeOf(o) = "open" /\ Store(c, o)
      BY <2>1, <2>2, NoneIsNoObject DEF lifeOf, UserStores
    <3> QED BY <3>1, StoreMaps
  <2>4. lives[c] = "absent"
    BY <1>2 DEF UserCreates, lifeOf
  <2>5. Lifecycle!Create(c)
    BY <1>1, <1>2, <2>2, <2>3, <2>4, ClaimType DEF Lifecycle!Create, UserCreates
  <2> QED BY <2>5 DEF Lifecycle!Next
<1>3. CASE UserEdits(c)
  <2>1. api[c] \in Scope /\ api[c] # None /\ UNCHANGED made
    BY <1>3 DEF UserEdits, TypeOK, ScopesTypeOK
  <2>2. PICK o \in Scope : /\ Store(c, o)
                           /\ o.fin = api[c].fin /\ o.deleting = api[c].deleting
    <3>1. ASSUME NEW ms \in MemberChoices
          PROVE  LET o == [api[c] EXCEPT !.members = ms]
                 IN  o \in Scope /\ o.fin = api[c].fin /\ o.deleting = api[c].deleting
      BY <2>1, ConstantsOK DEF Scope
    <3>2. ASSUME NEW m \in CmChoices
          PROVE  LET o == [api[c] EXCEPT !.cm = m]
                 IN  o \in Scope /\ o.fin = api[c].fin /\ o.deleting = api[c].deleting
      BY <2>1, ConstantsOK DEF Scope
    <3> QED BY <1>3, <3>1, <3>2 DEF UserEdits, UserStores
  <2>3. lifeOf(o) = lifeOf(api[c]) /\ lives[c] # "absent"
    BY <2>1, <2>2, NoneIsNoObject DEF lifeOf
  <2>4. lives' = lives /\ claims' = [claims EXCEPT ![c] = claimOf(o)]
    <3>1. [lives EXCEPT ![c] = lifeOf(o)] = lives
      BY <2>3
    <3>2. /\ lives' = [lives EXCEPT ![c] = lifeOf(o)]
          /\ claims' = [claims EXCEPT ![c] = claimOf(o)]
      BY <2>2, StoreMaps
    <3> QED BY <3>1, <3>2
  <2>5. Lifecycle!Edit(c)
    BY <1>1, <2>1, <2>3, <2>4, ClaimType DEF Lifecycle!Edit
  <2> QED BY <2>5 DEF Lifecycle!Next
<1>4. CASE UserDeletes(c)
  <2>1. /\ api[c] \in Scope /\ api[c] # None /\ ~api[c].deleting /\ UNCHANGED made
    BY <1>4 DEF UserDeletes, TypeOK, ScopesTypeOK
  <2>2. CASE api[c].fin
    <3> DEFINE o == [api[c] EXCEPT !.deleting = TRUE]
    <3>1. /\ Store(c, o) /\ o \in Scope /\ o # None /\ lifeOf(o) = "leaving"
          /\ claimOf(o) = claimOf(api[c])
      BY <1>4, <2>1, <2>2, NoneIsNoObject
         DEF UserDeletes, UserStores, Scope, lifeOf, claimOf, setDefaults
    <3>2. lives' = [lives EXCEPT ![c] = "leaving"] /\ claims' = claims
      <4>1. [claims EXCEPT ![c] = claimOf(o)] = claims
        BY <3>1
      <4>2. /\ lives' = [lives EXCEPT ![c] = lifeOf(o)]
            /\ claims' = [claims EXCEPT ![c] = claimOf(o)]
        BY <3>1, StoreMaps
      <4> QED BY <3>1, <4>1, <4>2
    <3>3. lives[c] = "held"
      BY <2>1, <2>2 DEF lifeOf
    <3>4. Lifecycle!Delete(c)
      BY <1>1, <2>1, <3>2, <3>3 DEF Lifecycle!Delete
    <3> QED BY <3>4 DEF Lifecycle!Next
  <2>3. CASE ~api[c].fin
    <3>1. Store(c, None)
      BY <1>4, <2>3 DEF UserDeletes, UserStores
    <3>2. /\ lives' = [lives EXCEPT ![c] = "absent"]
          /\ claims' = [claims EXCEPT ![c] = None]
      BY <3>1, StoreMaps DEF lifeOf, claimOf
    <3>3. lives[c] = "open"
      BY <2>1, <2>3 DEF lifeOf
    <3>4. Lifecycle!Delete(c)
      BY <1>1, <2>1, <3>2, <3>3 DEF Lifecycle!Delete
    <3> QED BY <3>4 DEF Lifecycle!Next
  <2> QED BY <2>2, <2>3
<1> QED BY <1>2, <1>3, <1>4

-----------------------------------------------------------------------------
(* The refinement                                                          *)

\* The steps that store no scope, whether they take objects away or not.
LEMMA QuietMaps ==
    ASSUME IInv, IInv', UNCHANGED <<api, made>>, [Next]_vars,
           ~\E n \in Namespace : Push(n), ~RuntimeRoles
    PROVE  Lifecycle!Next
<1> USE DEF IInv
<1>1. \A n \in Namespace : /\ role'[n] \in {role[n], None}
                           /\ binding'[n] \in {binding[n], None}
                           /\ runtime'[n] \in {runtime[n], None}
  <2>1. ASSUME NEW n \in Namespace, NEW m \in Namespace, Delete(m)
        PROVE  /\ role'[n] \in {role[n], None} /\ binding'[n] \in {binding[n], None}
               /\ UNCHANGED runtime
    BY <2>1 DEF Delete, DropLabel, TypeOK, NamespacesTypeOK
  <2>2. CASE Others
    BY <2>2, OthersOnlyEmpty
  <2>3. CASE \/ UNCHANGED vars \/ \E c \in CR : Start(c)
             \/ AddFinalizer \/ UpdateStatus \/ UpdateUnprojected
             \/ DeleteRbacFromUnmanaged \/ UpdateConfigMap \/ RestartPods
             \/ Record \/ DeleteAllRbac \/ RemoveFinalizer \/ CallFails \/ Crash
    <3>1. UNCHANGED <<role, binding, runtime>>
      BY <2>3 DEF vars, Start, AddFinalizer, UpdateStatus, UpdateUnprojected,
         DeleteRbacFromUnmanaged, UpdateConfigMap, RestartPods, Record,
         DeleteAllRbac, RemoveFinalizer, CallFails, Crash
    <3> QED BY <3>1
  <2> QED BY <2>1, <2>2, <2>3 DEF Next, Reconcile, Others
<1> QED BY <1>1, WithdrawMaps DEF Lifecycle!Next

LEMMA StepMaps ==
    ASSUME IInv, IInv', HeldInv, [Next]_vars
    PROVE  Lifecycle!Next \/ UNCHANGED Lifecycle!vars
<1> USE DEF IInv
<1>1. CASE RuntimeRoles \/ \E n \in Namespace : Push(n)
  <2>1. /\ pc \in {"push", "runtime"} /\ UNCHANGED <<api, made, spared, cur>>
    BY <1>1 DEF Push, RuntimeRoles
  <2>2. cur \in CR /\ (Guarded \/ cur \in HelmCR)
    BY <2>1 DEF TypeOK, WorkerTypeOK, PathInv, GuardInv, afterDefaults
  <2>3. PICK c \in CR : c = cur
    BY <2>2
  <2>4. Lifecycle!Project(c)
    BY <2>1, <2>2, <2>3, ProjectMaps
  <2> QED BY <2>4 DEF Lifecycle!Next
<1>2. CASE AddFinalizer \/ UpdateStatus \/ UpdateUnprojected \/ RemoveFinalizer
  BY <1>2, AddFinalizerMaps, UpdateStatusMaps, UpdateUnprojectedMaps,
     RemoveFinalizerMaps
<1>3. CASE \E c \in CR : UserCreates(c) \/ UserEdits(c) \/ UserDeletes(c)
  BY <1>3, UserMaps
<1>4. ASSUME ~(RuntimeRoles \/ \E n \in Namespace : Push(n)),
             \/ UNCHANGED vars
             \/ \E c \in CR : Start(c) \/ CsvControllerPatches(c)
             \/ \E n \in Namespace : \/ Delete(n) \/ NamespaceChanges(n)
                                     \/ AuthorizationChanges(n)
             \/ \E m \in ConfigMapName : CollectConfigMap(m)
             \/ DeleteRbacFromUnmanaged \/ UpdateConfigMap \/ RestartPods
             \/ Record \/ DeleteAllRbac \/ CallFails \/ Crash \/ Informers
      PROVE  Lifecycle!Next
  <2>1. UNCHANGED <<api, made>>
    BY <1>4 DEF vars, Start, CsvControllerPatches, Delete, NamespaceChanges,
       AuthorizationChanges, CollectConfigMap, DeleteRbacFromUnmanaged,
       UpdateConfigMap, RestartPods, Record, DeleteAllRbac, CallFails, Crash,
       Informers, CacheSync, CmSync
  <2> QED BY <1>4, <2>1, QuietMaps
<1> QED BY <1>1, <1>2, <1>3, <1>4 DEF Next, Reconcile, Environment

\* Reconcile, with its caches, failures, crashes and users, implements the life
\* of a scope under its finalizer, for every number of scopes and namespaces.
THEOREM ImplementsTheLifecycle == Spec => ImplementsLifecycle
<1>1. Init => Lifecycle!Init
  BY InitMaps
<1>2. IInv /\ IInv' /\ HeldInv /\ [Next]_vars => [Lifecycle!Next]_Lifecycle!vars
  BY StepMaps
<1>3. Init => HeldInv
  BY DEF Init, HeldInv
<1>4. IInv /\ HeldInv /\ [Next]_vars => HeldInv'
  BY HeldNext
<1> QED
  BY <1>1, <1>2, <1>3, <1>4, IInvInit, IInvNext, PTL
  DEF Spec, ImplementsLifecycle, Lifecycle!Spec
=============================================================================
