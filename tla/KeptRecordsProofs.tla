-------------------------- MODULE KeptRecordsProofs --------------------------
(***************************************************************************)
(* Proofs about NamespaceScope with caches that catch up: what a Completed *)
(* reconcile means, what a withdrawal spares, and that no RBAC is          *)
(* forgotten, for every set of scopes, namespaces and ConfigMaps.          *)
(***************************************************************************)
EXTENDS KeptRecords, NamespaceScopeProofs

USE DEF apiVars, cacheVars, cmVars, rbacVars, nsVars, workVars

-----------------------------------------------------------------------------
(* Shapes of the steps that store a scope or take a copy of one            *)

\* Start: nothing to do, or a copy that is older than the stored scope unless
\* it is marked fresh.
LEMMA StartShape ==
    ASSUME TypeOK, NEW c \in CR, Start(c)
    PROVE  /\ UNCHANGED <<api, cache, crLag, made, cms, cmCache, cmLag, role,
                          binding, nsPhase, authorized, spent, todo, pushErr,
                          missed>>
           /\ CaughtUp /\ pc = "idle"
           /\ \/ UNCHANGED <<pc, cur, inst, fresh>>
              \/ /\ cache[c] # None /\ cur' = c /\ inst' \in Scope
                 /\ fresh' = (c \notin crLag)
                 /\ pc' \in {"addFinalizer", "updateStatus", "updateCm"}
                 /\ pc' = "updateCm" => inst'.deleting
                 /\ inst'.uid = cache[c].uid
                 /\ inst'.validated = cache[c].validated
                 /\ inst'.unprojected = cache[c].unprojected
                 /\ inst'.deleting = cache[c].deleting
                 /\ setDefaults(inst').cm = setDefaults(cache[c]).cm
<1> DEFINE o == cache[c]
<1>1. UNCHANGED <<api, cache, crLag, made, cms, cmCache, cmLag, role, binding,
                  nsPhase, authorized, spent>>
      /\ CaughtUp /\ pc = "idle"
  BY DEF Start
<1>2. CASE ~(o # None /\ (o.deleting => o.fin))
  BY <1>1, <1>2 DEF Start
<1>3. CASE o # None /\ (o.deleting => o.fin)
  <2>1. o \in Scope
    BY <1>3 DEF TypeOK, ScopesTypeOK
  <2>2. /\ cur' = c /\ fresh' = (c \notin crLag) /\ pc' = FirstStep(c, o)
        /\ inst' = IF o.deleting THEN setDefaults(o) ELSE o
        /\ UNCHANGED <<todo, pushErr, missed>>
    BY <1>3 DEF Start
  <2>3. setDefaults(o).unprojected = o.unprojected
    BY <2>1 DEF setDefaults, Scope
  <2>4. /\ inst' \in Scope /\ inst'.uid = o.uid /\ inst'.validated = o.validated
        /\ inst'.unprojected = o.unprojected /\ inst'.deleting = o.deleting
        /\ setDefaults(inst').cm = setDefaults(o).cm
    BY <2>1, <2>2, <2>3, SetDefaultsType
  <2> QED BY <1>1, <1>3, <2>2, <2>4 DEF FirstStep
<1> QED BY <1>2, <1>3

\* addFinalizer stores the fresh copy with its finalizer, or fails.
LEMMA AddFinalizerShape ==
    ASSUME TypeOK, AddFinalizer
    PROVE  /\ cur \in CR /\ inst \in Scope
           /\ UNCHANGED <<made, cache, cms, cmCache, cmLag, role, binding, nsPhase,
                          authorized, spent>>
           /\ \/ Fail /\ UNCHANGED <<api, crLag>>
              \/ /\ fresh /\ Store(cur, inst') /\ inst' \in Scope
                 /\ pc' = "updateStatus"
                 /\ UNCHANGED <<cur, fresh, todo, pushErr, missed, queue>>
                 /\ inst'.uid = inst.uid /\ inst'.validated = inst.validated
                 /\ inst'.unprojected = inst.unprojected
                 /\ inst'.deleting = inst.deleting
                 /\ setDefaults(inst').cm = setDefaults(inst).cm
<1> DEFINE o == [inst EXCEPT !.fin = TRUE]
<1>1. cur \in CR /\ inst \in Scope
  BY DEF AddFinalizer, TypeOK, WorkerTypeOK
<1>2. /\ o \in Scope /\ o.uid = inst.uid /\ o.validated = inst.validated
      /\ o.unprojected = inst.unprojected /\ o.deleting = inst.deleting
      /\ o.cm = inst.cm
  BY <1>1 DEF Scope
<1>3. setDefaults(o).cm = setDefaults(inst).cm
  BY <1>1, <1>2 DEF setDefaults, Scope
<1>4. UNCHANGED <<made, cache, cms, cmCache, cmLag, role, binding, nsPhase,
                  authorized, spent>>
  BY DEF AddFinalizer
<1>5. CASE fresh
  <2>1. /\ inst' = o /\ Store(cur, o) /\ pc' = "updateStatus"
        /\ UNCHANGED <<cur, fresh, todo, pushErr, missed, queue>>
    BY <1>5 DEF AddFinalizer
  <2>2. setDefaults(inst').cm = setDefaults(inst).cm
    BY <1>3, <2>1
  <2> QED BY <1>1, <1>2, <1>4, <1>5, <2>1, <2>2
<1>6. CASE ~fresh
  BY <1>1, <1>4, <1>6 DEF AddFinalizer
<1> QED BY <1>5, <1>6

\* UpdateStatus leaves the worker with the members it validated, which are
\* then the stored ones, or fails.
LEMMA UpdateStatusShape ==
    ASSUME TypeOK, UpdateStatus
    PROVE  /\ cur \in CR /\ inst \in Scope /\ CaughtUp /\ pc = "updateStatus"
           /\ UNCHANGED <<made, cache, cms, cmCache, cmLag, role, binding, nsPhase,
                          authorized>>
           /\ UNCHANGED spent \/ Spend("fault", MaxFaults)
           /\ \/ Fail /\ UNCHANGED <<api, crLag>>
              \/ /\ inst' \in Scope
                 /\ todo' = inst'.validated \ {OperatorNs}
                 /\ pc' = IF todo' = {} THEN AfterPush(FALSE) ELSE "push"
                 /\ UNCHANGED <<cur, fresh, pushErr, missed, queue>>
                 /\ inst'.uid = inst.uid /\ inst'.deleting = inst.deleting
                 /\ inst'.unprojected = inst.unprojected
                 /\ inst'.cm = setDefaults(inst).cm
                 /\ \/ UNCHANGED <<api, crLag>> /\ inst'.validated = inst.validated
                    \/ \E o \in Scope :
                          /\ fresh /\ Store(cur, o)
                          /\ o.validated = inst'.validated /\ o.uid = inst.uid
                          /\ o.deleting = inst.deleting
                          /\ o.unprojected = inst.unprojected
                          /\ setDefaults(o).cm = setDefaults(inst).cm
<1>1. cur \in CR /\ inst \in Scope /\ CaughtUp /\ pc = "updateStatus"
      /\ UNCHANGED <<made, cache, cms, cmCache, cmLag, role, binding, nsPhase, authorized>>
  <2>1. /\ CaughtUp /\ pc = "updateStatus"
        /\ UNCHANGED <<made, cache, cms, cmCache, cmLag, role, binding, nsPhase, authorized>>
    BY DEF UpdateStatus
  <2> QED BY <2>1 DEF TypeOK, WorkerTypeOK
<1>2. PICK unchecked \in SUBSET inst.members :
        LET valid == getValidatedNamespaces(inst.members, unchecked)
            new == [inst EXCEPT !.validated = valid]
        IN  /\ IF unchecked = {} THEN UNCHANGED spent
               ELSE CanGetNs /\ Spend("fault", MaxFaults)
            /\ IF valid # inst.validated /\ ~fresh
               THEN Fail /\ UNCHANGED <<api, crLag>>
               ELSE /\ IF valid # inst.validated
                       THEN Store(cur, new) ELSE UNCHANGED <<api, crLag>>
                    /\ inst' = setDefaults(new)
                    /\ Loop(valid \ {OperatorNs}, "push", AfterPush(FALSE))
                    /\ UNCHANGED <<cur, fresh, spared, pushErr, missed, queue>>
  BY DEF UpdateStatus
<1> DEFINE valid == getValidatedNamespaces(inst.members, unchecked)
           new == [inst EXCEPT !.validated = valid]
<1>3. UNCHANGED spent \/ Spend("fault", MaxFaults)
  BY <1>2
<1>4. valid \subseteq Namespace
  BY <1>1, ValidatedType DEF Scope
<1>5. /\ new \in Scope /\ new.validated = valid /\ new.uid = inst.uid
      /\ new.deleting = inst.deleting /\ new.unprojected = inst.unprojected
      /\ new.cm = inst.cm
  BY <1>1, <1>4 DEF Scope
<1>6. setDefaults(new).cm = setDefaults(inst).cm
  BY <1>1, <1>5 DEF setDefaults, Scope
<1>7. setDefaults(new).unprojected = new.unprojected
  BY <1>5 DEF setDefaults, Scope
<1>8. CASE valid # inst.validated /\ ~fresh
  BY <1>1, <1>2, <1>3, <1>8
<1>9. CASE ~(valid # inst.validated /\ ~fresh)
  <2>1. /\ inst' = setDefaults(new)
        /\ UNCHANGED <<cur, fresh, pushErr, missed, queue>>
        /\ todo' = valid \ {OperatorNs}
        /\ pc' = IF todo' = {} THEN AfterPush(FALSE) ELSE "push"
    BY <1>2, <1>9 DEF Loop
  <2>2. /\ inst' \in Scope /\ inst'.uid = inst.uid /\ inst'.deleting = inst.deleting
        /\ inst'.unprojected = inst.unprojected /\ inst'.cm = setDefaults(inst).cm
        /\ inst'.validated = valid
    BY <1>5, <1>6, <1>7, <2>1, SetDefaultsType
  <2>3. \/ UNCHANGED <<api, crLag>> /\ valid = inst.validated
        \/ fresh /\ Store(cur, new)
    BY <1>2, <1>9
  <2> QED BY <1>1, <1>3, <1>5, <1>6, <2>1, <2>2, <2>3
<1> QED BY <1>8, <1>9

\* UpdateUnprojectedRolesStatus changes the report and nothing else.
LEMMA UnprojectedShape ==
    ASSUME TypeOK, CopiesInv, UpdateUnprojected
    PROVE  /\ cur \in CR /\ inst \in Scope
           /\ UNCHANGED <<made, cache, cms, cmCache, cmLag, role, binding, nsPhase,
                          authorized, spent>>
           /\ \/ /\ Fail /\ UNCHANGED <<api, crLag>>
                 /\ missed # inst.unprojected
              \/ /\ inst' \in Scope /\ pc' = "deleteUnmanaged"
                 /\ UNCHANGED <<cur, fresh, todo, pushErr, missed, queue>>
                 /\ inst'.uid = inst.uid /\ inst'.validated = inst.validated
                 /\ inst'.unprojected = missed /\ inst'.deleting = inst.deleting
                 /\ inst'.cm = inst.cm
                 /\ \/ UNCHANGED <<api, crLag>> /\ missed = inst.unprojected
                    \/ \E o \in Scope :
                          /\ fresh /\ api[cur] # None /\ Store(cur, o)
                          /\ o.validated = api[cur].validated
                          /\ o.uid = api[cur].uid /\ o.deleting = api[cur].deleting
                          /\ o.unprojected = missed
                          /\ setDefaults(o).cm = setDefaults(api[cur]).cm
<1> DEFINE o == [api[cur] EXCEPT !.unprojected = missed]
           i == [inst EXCEPT !.unprojected = missed]
<1>1. cur \in CR /\ inst \in Scope /\ missed \subseteq Namespace
      /\ UNCHANGED <<made, cache, cms, cmCache, cmLag, role, binding, nsPhase,
                     authorized, spent>>
  BY DEF UpdateUnprojected, TypeOK, WorkerTypeOK
<1>2. CASE missed # inst.unprojected /\ (~fresh \/ api[cur] = None)
  BY <1>1, <1>2 DEF UpdateUnprojected
<1>3. CASE ~(missed # inst.unprojected /\ (~fresh \/ api[cur] = None))
  <2>1. /\ i \in Scope /\ i.uid = inst.uid /\ i.validated = inst.validated
        /\ i.unprojected = missed /\ i.deleting = inst.deleting /\ i.cm = inst.cm
    BY <1>1 DEF Scope
  <2>2. /\ inst' = i /\ pc' = "deleteUnmanaged"
        /\ UNCHANGED <<cur, fresh, todo, pushErr, missed, queue>>
        /\ \/ UNCHANGED <<api, crLag>> /\ missed = inst.unprojected
           \/ missed # inst.unprojected /\ Store(cur, o)
    BY <1>3 DEF UpdateUnprojected
  <2>3. CASE missed = inst.unprojected
    BY <1>1, <2>1, <2>2, <2>3
  <2>4. CASE missed # inst.unprojected
    <3>1. api[cur] \in Scope /\ fresh
      BY <1>1, <1>3, <2>4 DEF TypeOK, ScopesTypeOK
    <3>2. /\ o \in Scope /\ o.validated = api[cur].validated
          /\ o.uid = api[cur].uid /\ o.deleting = api[cur].deleting
          /\ o.unprojected = missed /\ o.cm = api[cur].cm
      BY <1>1, <3>1 DEF Scope
    <3>3. setDefaults(o).cm = setDefaults(api[cur]).cm
      BY <3>1, <3>2 DEF setDefaults, Scope
    <3> QED BY <1>1, <1>3, <2>1, <2>2, <2>4, <3>2, <3>3
  <2> QED BY <2>3, <2>4
<1> QED BY <1>2, <1>3

\* Storing a scope touches no other scope.
LEMMA StoreFacts ==
    ASSUME TypeOK, NEW c \in CR, NEW o, Store(c, o)
    PROVE  api'[c] = o /\ \A d \in CR \ {c} : api'[d] = api[d]
BY DEF Store, TypeOK, ScopesTypeOK

\* What a user stores.
LEMMA UserShape ==
    ASSUME TypeOK, NEW c \in CR, UserCreates(c) \/ UserEdits(c) \/ UserDeletes(c)
    PROVE  /\ fresh' = (fresh /\ c # cur)
           /\ UNCHANGED <<cache, cms, cmCache, cmLag, role, binding, nsPhase,
                          authorized, pc, cur, inst, todo, pushErr, missed>>
           /\ Spend("user", MaxUserOps)
           /\ \A d \in CR \ {c} : api'[d] = api[d] /\ made'[d] = made[d]
           /\ \/ /\ api[c] = None /\ api'[c] \in Scope
                 /\ made'[c] = made[c] + 1 /\ api'[c].uid = made[c] + 1
                 /\ api'[c].validated = {} /\ api'[c].unprojected = {}
              \/ /\ api[c] # None /\ made'[c] = made[c]
                 /\ \/ api'[c] = None
                    \/ /\ api'[c] \in Scope /\ api'[c].uid = api[c].uid
                       /\ api'[c].validated = api[c].validated
                       /\ api'[c].unprojected = api[c].unprojected
                       /\ api[c].deleting => api'[c].deleting
                       /\ "rename" \notin UserOps =>
                             setDefaults(api'[c]).cm = setDefaults(api[c]).cm
<1> USE DEF TypeOK, ScopesTypeOK
<1>1. ASSUME NEW o, UserStores(c, o)
      PROVE  /\ fresh' = (fresh /\ c # cur) /\ api'[c] = o
             /\ UNCHANGED <<cache, cms, cmCache, cmLag, role, binding, nsPhase,
                            authorized, pc, cur, inst, todo, pushErr, missed>>
             /\ Spend("user", MaxUserOps)
             /\ \A d \in CR \ {c} : api'[d] = api[d]
  BY <1>1, StoreFacts DEF UserStores
<1>2. CASE UserCreates(c)
  <2>1. PICK ms \in MemberChoices, m \in CmChoices :
          UserStores(c, [uid |-> made[c] + 1, members |-> ms, cm |-> m,
                         validated |-> {}, unprojected |-> {}, fin |-> FALSE,
                         deleting |-> FALSE])
    BY <1>2 DEF UserCreates
  <2> DEFINE o == [uid |-> made[c] + 1, members |-> ms, cm |-> m,
                   validated |-> {}, unprojected |-> {}, fin |-> FALSE,
                   deleting |-> FALSE]
  <2>2. o \in Scope
    BY ConstantsOK DEF Scope
  <2>3. api[c] = None /\ made'[c] = made[c] + 1
        /\ \A d \in CR \ {c} : made'[d] = made[d]
    BY <1>2 DEF UserCreates
  <2> QED BY <1>1, <2>1, <2>2, <2>3
<1>3. CASE UserEdits(c)
  <2>1. api[c] \in Scope /\ api[c] # None /\ UNCHANGED made
    BY <1>3 DEF UserEdits
  <2>2. \A ms \in MemberChoices : LET o == [api[c] EXCEPT !.members = ms]
           IN  /\ o \in Scope /\ o.uid = api[c].uid /\ o.cm = api[c].cm
               /\ o.validated = api[c].validated /\ o.deleting = api[c].deleting
               /\ o.unprojected = api[c].unprojected
    BY <2>1, ConstantsOK DEF Scope
  <2>3. \A m \in CmChoices : LET o == [api[c] EXCEPT !.cm = m]
           IN  /\ o \in Scope /\ o.uid = api[c].uid
               /\ o.validated = api[c].validated /\ o.deleting = api[c].deleting
               /\ o.unprojected = api[c].unprojected
    BY <2>1, ConstantsOK DEF Scope
  <2>4. PICK o \in Scope :
           /\ UserStores(c, o) /\ o.uid = api[c].uid
           /\ o.validated = api[c].validated /\ o.deleting = api[c].deleting
           /\ o.unprojected = api[c].unprojected
           /\ "rename" \notin UserOps => o.cm = api[c].cm
    BY <1>3, <2>2, <2>3 DEF UserEdits
  <2>5. "rename" \notin UserOps => setDefaults(o).cm = setDefaults(api[c]).cm
    BY <2>1, <2>4 DEF setDefaults, Scope
  <2> QED BY <1>1, <2>1, <2>4, <2>5
<1>4. CASE UserDeletes(c)
  <2>1. api[c] \in Scope /\ api[c] # None /\ UNCHANGED made
    BY <1>4 DEF UserDeletes
  <2> DEFINE o == [api[c] EXCEPT !.deleting = TRUE]
  <2>2. /\ o \in Scope /\ o.uid = api[c].uid /\ o.cm = api[c].cm
        /\ o.validated = api[c].validated /\ o.deleting
        /\ o.unprojected = api[c].unprojected
    BY <2>1 DEF Scope
  <2>3. setDefaults(o).cm = setDefaults(api[c]).cm
    BY <2>1, <2>2 DEF setDefaults, Scope
  <2>4. UserStores(c, o) \/ UserStores(c, None)
    BY <1>4 DEF UserDeletes
  <2>5. CASE UserStores(c, o)
    BY <1>1, <2>1, <2>2, <2>3, <2>5
  <2>6. CASE UserStores(c, None)
    BY <1>1, <2>1, <2>6
  <2> QED BY <2>4, <2>5, <2>6
<1> QED BY <1>2, <1>3, <1>4

-----------------------------------------------------------------------------
(* The copies, the uids                                                    *)

\* Steps that leave the scopes, their copies and the count of creations alone.
Idle == \/ \E n \in Namespace : Push(n) \/ Delete(n)
        \/ DeleteRbacFromUnmanaged \/ UpdateConfigMap \/ RestartPods
        \/ RuntimeRoles \/ DeleteAllRbac \/ CallFails \/ Record \/ CmSync
        \/ \E c \in CR : CsvControllerPatches(c)
        \/ \E n \in Namespace : NamespaceChanges(n) \/ AuthorizationChanges(n)
        \/ \E m \in ConfigMapName : CollectConfigMap(m)
        \/ UNCHANGED vars

LEMMA IdleShape ==
    ASSUME Idle
    PROVE  /\ UNCHANGED <<api, cache, made>>
           /\ \/ pc' = "idle" /\ fresh' = FALSE
              \/ /\ UNCHANGED <<cur, inst>> /\ (fresh' => fresh)
                 /\ pc' = "idle" <=> pc = "idle"
<1> DEFINE Quiet_ == \/ \E n \in Namespace : Push(n) \/ Delete(n)
                     \/ DeleteRbacFromUnmanaged \/ UpdateConfigMap \/ RestartPods
                     \/ RuntimeRoles \/ DeleteAllRbac \/ CallFails
<1>1. CASE Quiet_
  <2>1. /\ UNCHANGED <<api, cache>>
        /\ fresh' = FALSE \/ UNCHANGED <<cur, inst, fresh>>
    BY <1>1, QuietSteps
  <2>2. UNCHANGED made
    BY <1>1 DEF Push, Delete, DeleteRbacFromUnmanaged, UpdateConfigMap,
       RestartPods, RuntimeRoles, DeleteAllRbac, CallFails
  <2>3. pc # "idle"
    BY <1>1 DEF Push, Delete, DeleteRbacFromUnmanaged, UpdateConfigMap,
       RestartPods, RuntimeRoles, DeleteAllRbac, CallFails
  <2>4. \/ pc' = "idle" /\ fresh' = FALSE
        \/ UNCHANGED <<cur, inst, fresh>> /\ pc' # "idle"
    <3> DEFINE Goal == \/ pc' = "idle" /\ fresh' = FALSE
                       \/ UNCHANGED <<cur, inst, fresh>> /\ pc' # "idle"
    <3>1. ASSUME NEW n \in Namespace, Push(n) PROVE Goal
      BY <3>1 DEF Push, Loop, AfterPush
    <3>2. Fail => Goal
      BY FailPath
    <3>3. ASSUME NEW n \in Namespace, Delete(n), ~Fail PROVE Goal
      BY <3>3 DEF Delete, Loop
    <3>4. CASE DeleteRbacFromUnmanaged \/ DeleteAllRbac
      BY <3>4 DEF DeleteRbacFromUnmanaged, DeleteAllRbac, Loop
    <3>5. ASSUME UpdateConfigMap, ~Fail PROVE Goal
      BY <3>5 DEF UpdateConfigMap
    <3>6. CASE RestartPods
      BY <3>6 DEF RestartPods
    <3>7. CASE RuntimeRoles
      BY <3>7 DEF RuntimeRoles
    <3>8. CallFails => Fail
      BY DEF CallFails
    <3> QED BY <1>1, <3>1, <3>2, <3>3, <3>4, <3>5, <3>6, <3>7, <3>8
  <2> QED BY <2>1, <2>2, <2>3, <2>4
<1>2. CASE Record
  BY <1>2 DEF Record, Return
<1>3. CASE CmSync \/ UNCHANGED vars
  BY <1>3 DEF CmSync, vars
<1>4. ASSUME NEW c \in CR, CsvControllerPatches(c)
      PROVE  UNCHANGED <<api, cache, made, cur, inst, pc>> /\ (fresh' => fresh)
  BY <1>4 DEF CsvControllerPatches
<1>5. CASE \/ \E n \in Namespace : NamespaceChanges(n) \/ AuthorizationChanges(n)
           \/ \E m \in ConfigMapName : CollectConfigMap(m)
  <2>1. UNCHANGED <<api, cache, made, cur, inst, pc, fresh>>
    BY <1>5 DEF NamespaceChanges, AuthorizationChanges, CollectConfigMap
  <2> QED BY <2>1
<1> QED BY <1>1, <1>2, <1>3, <1>4, <1>5 DEF Idle

\* UpdateConfigMap leaves the ConfigMap with the names the cached scopes have
\* validated and the scope in hand among its owners, or fails; it is refused
\* only where the cached ConfigMap is not the stored one.
LEMMA UpdateConfigMapShape ==
    ASSUME TypeOK, UpdateConfigMap
    PROVE  /\ pc = "updateCm" /\ CaughtUp
           /\ cur \in CR /\ inst \in Scope /\ inst.cm \in ConfigMapName
           /\ UNCHANGED <<api, cache, crLag, made, cmCache, role, binding, nsPhase,
                          authorized, spent>>
           /\ \/ /\ Fail /\ UNCHANGED <<cms, cmLag>>
                 /\ inst.cm \in cmLag \/ cms[inst.cm] # cmCache[inst.cm]
              \/ /\ UNCHANGED <<cur, inst, fresh, todo, pushErr, missed, queue>>
                 /\ pc' \in {"restart", IF inst.deleting THEN "deleteAll" ELSE "runtime"}
                 /\ \/ /\ UNCHANGED <<cms, cmLag>>
                       /\ cmCache[inst.cm] # None
                       /\ cmCache[inst.cm].names = getAllValidated(inst.cm)
                       /\ <<cur, inst.uid>> \in cmCache[inst.cm].owners
                    \/ \E o \in ConfigMap :
                          /\ StoreCm(inst.cm, o)
                          /\ o.names = getAllValidated(inst.cm)
                          /\ <<cur, inst.uid>> \in o.owners
<1> DEFINE m == inst.cm
           names == getAllValidated(m)
           old == cmCache[m]
           me == <<cur, inst.uid>>
           differ == ListDiffers(old, names)
           refs == IF old = None THEN {} ELSE {r \in old.owners : r[1] # cur}
           written == IF differ THEN names ELSE old.names
           after == IF inst.deleting THEN "deleteAll" ELSE "runtime"
           new == [names |-> written, owners |-> refs \cup {me}]
           refused == IF old = None THEN cms[m] # None ELSE m \in cmLag
<1>1. UNCHANGED <<api, cache, crLag, made, cmCache, role, binding, nsPhase,
                  authorized, spent>> /\ pc = "updateCm" /\ CaughtUp
  BY DEF UpdateConfigMap
<1>2. cur \in CR /\ inst \in Scope /\ m \in ConfigMapName
  BY <1>1 DEF TypeOK, WorkerTypeOK, afterDefaults, Scope
<1>3. ~differ => old # None /\ old.names = names
  BY DEF ListDiffers
<1>4. new \in ConfigMap /\ new.names = names /\ me \in new.owners
  <2>1. names \subseteq Namespace
    BY AllValidatedType DEF TypeOK
  <2>2. old = None \/ old.owners \subseteq CR \X Nat
    BY <1>2 DEF TypeOK, ConfigMapsTypeOK, ConfigMap
  <2>3. me \in CR \X Nat
    BY <1>2 DEF Scope
  <2>4. refs \subseteq CR \X Nat
    BY <2>2
  <2>5. written = names
    BY <1>3
  <2> QED BY <2>1, <2>3, <2>4, <2>5 DEF ConfigMap
<1>5. IF ~differ /\ me \in old.owners
      THEN /\ pc' = after
           /\ UNCHANGED <<cms, cmLag, cur, inst, fresh, todo, pushErr, missed, queue>>
      ELSE IF refused THEN Fail /\ UNCHANGED <<cms, cmLag>>
      ELSE /\ StoreCm(m, new) /\ pc' = IF differ THEN "restart" ELSE after
           /\ UNCHANGED <<cur, inst, fresh, todo, pushErr, missed, queue>>
  BY DEF UpdateConfigMap
<1>6. CASE ~differ /\ me \in old.owners
  BY <1>1, <1>2, <1>3, <1>5, <1>6
<1>7. CASE ~(~differ /\ me \in old.owners) /\ refused
  <2>1. m \in cmLag \/ cms[m] # old
    BY <1>7
  <2> QED BY <1>1, <1>2, <1>5, <1>7, <2>1
<1>8. CASE ~(~differ /\ me \in old.owners) /\ ~refused
  <2>1. StoreCm(m, new) /\ pc' \in {"restart", after}
        /\ UNCHANGED <<cur, inst, fresh, todo, pushErr, missed, queue>>
    BY <1>5, <1>8
  <2> HIDE DEF new, names, me
  <2> QED BY <1>1, <1>2, <1>4, <2>1 DEF me, names
<1> QED BY <1>6, <1>7, <1>8

LEMMA CmCopiesNext == ASSUME TypeOK, CmCopiesInv, [Next]_vars PROVE CmCopiesInv'
<1>1. CASE UpdateConfigMap
  <2>1. UNCHANGED cmCache
    BY <1>1, UpdateConfigMapShape
  <2>2. ASSUME NEW o, StoreCm(inst.cm, o) PROVE CmCopiesInv'
    BY <2>1, <2>2 DEF StoreCm, CmCopiesInv, TypeOK, ConfigMapsTypeOK
  <2>3. CASE UNCHANGED <<cms, cmLag>>
    BY <2>1, <2>3 DEF CmCopiesInv
  <2> QED BY <1>1, <2>2, <2>3, UpdateConfigMapShape
<1>2. ASSUME NEW m \in ConfigMapName, CollectConfigMap(m) PROVE CmCopiesInv'
  BY <1>2 DEF CollectConfigMap, StoreCm, CmCopiesInv
<1>3. CASE Crash \/ CmSync
  BY <1>3 DEF Crash, CmSync, CmCopiesInv
<1>4. CASE UNCHANGED <<cms, cmCache, cmLag>>
  BY <1>4 DEF CmCopiesInv
<1>5. CASE \/ \E c \in CR : Start(c) \/ UserCreates(c) \/ UserEdits(c) \/ UserDeletes(c)
           \/ \E c \in CR : CsvControllerPatches(c)
           \/ \E n \in Namespace : Push(n) \/ Delete(n)
           \/ \E n \in Namespace : NamespaceChanges(n) \/ AuthorizationChanges(n)
           \/ AddFinalizer \/ UpdateStatus \/ UpdateUnprojected
           \/ DeleteRbacFromUnmanaged \/ RestartPods \/ RuntimeRoles \/ Record
           \/ DeleteAllRbac \/ RemoveFinalizer \/ CallFails \/ CacheSync
           \/ UNCHANGED vars
  <2>1. UNCHANGED <<cms, cmCache, cmLag>>
    BY <1>5 DEF Start, UserCreates, UserEdits, UserDeletes, UserStores,
       CsvControllerPatches, Push, Delete, NamespaceChanges, AuthorizationChanges,
       AddFinalizer, UpdateStatus, UpdateUnprojected, DeleteRbacFromUnmanaged,
       RestartPods, RuntimeRoles, Record, DeleteAllRbac, RemoveFinalizer,
       CallFails, CacheSync, vars
  <2> QED BY <1>4, <2>1
<1> QED BY <1>1, <1>2, <1>3, <1>5 DEF Next, Reconcile, Informers, Environment

LEMMA FreshNext ==
    ASSUME TypeOK, CopiesInv, FreshInv, [Next]_vars PROVE FreshInv'
<1>1. ASSUME UNCHANGED api, fresh' = FALSE \/ (UNCHANGED <<cur, inst>> /\ (fresh' => fresh))
      PROVE  FreshInv'
  BY <1>1 DEF FreshInv
<1>2. CASE Idle
  BY <1>1, <1>2, IdleShape
<1>3. CASE CacheSync \/ Crash
  BY <1>1, <1>3 DEF CacheSync, Crash
<1>4. ASSUME NEW c \in CR, Start(c) PROVE FreshInv'
  <2>1. CASE UNCHANGED <<pc, cur, inst, fresh>>
    BY <1>1, <1>4, <2>1, StartShape
  <2>2. CASE cur' = c /\ fresh' = (c \notin crLag) /\ inst'.validated = cache[c].validated
    BY <1>4, <2>2, StartShape DEF FreshInv, CopiesInv
  <2> QED BY <1>4, <2>1, <2>2, StartShape
<1>5. CASE AddFinalizer
  <2>1. CASE Fail
    BY <1>1, <1>5, <2>1, AddFinalizerShape, FailPath
  <2>2. CASE ~Fail
    BY <1>5, <2>2, AddFinalizerShape, StoreFacts DEF FreshInv
  <2> QED BY <2>1, <2>2
<1>6. CASE UpdateStatus
  <2>1. CASE Fail
    <3>1. fresh' = FALSE \/ UNCHANGED <<cur, inst, fresh>>
      BY <2>1, FailPath
    <3>2. UNCHANGED api
      BY <1>6, <2>1 DEF UpdateStatus, Fail, Loop, Return, AfterPush
    <3> QED BY <1>1, <3>1, <3>2
  <2>2. CASE ~Fail
    <3>1. UNCHANGED <<cur, fresh>> /\ cur \in CR
      BY <1>6, <2>2, UpdateStatusShape
    <3>2. CASE UNCHANGED api /\ inst'.validated = inst.validated
      BY <3>1, <3>2 DEF FreshInv
    <3>3. ASSUME NEW o, Store(cur, o), o.validated = inst'.validated PROVE FreshInv'
      BY <3>1, <3>3, StoreFacts DEF FreshInv
    <3> QED BY <1>6, <2>2, <3>2, <3>3, UpdateStatusShape
  <2> QED BY <2>1, <2>2
<1>7. CASE UpdateUnprojected
  <2>1. CASE Fail /\ UNCHANGED api
    BY <1>1, <2>1, FailPath
  <2>2. CASE ~(Fail /\ UNCHANGED api)
    <3>1. UNCHANGED <<cur, fresh>> /\ cur \in CR /\ inst'.validated = inst.validated
      BY <1>7, <2>2, UnprojectedShape
    <3>2. CASE UNCHANGED api
      BY <3>1, <3>2 DEF FreshInv
    <3>3. ASSUME NEW o, Store(cur, o), o.validated = api[cur].validated PROVE FreshInv'
      BY <3>1, <3>3, StoreFacts DEF FreshInv
    <3> QED BY <1>7, <2>2, <3>2, <3>3, UnprojectedShape
  <2> QED BY <2>1, <2>2
<1>8. CASE RemoveFinalizer
  BY <1>8 DEF RemoveFinalizer, Return, FreshInv
<1>9. ASSUME NEW c \in CR, UserCreates(c) \/ UserEdits(c) \/ UserDeletes(c)
      PROVE  FreshInv'
  <2>1. fresh' => fresh /\ cur # c /\ cur \in CR
    BY <1>9, UserShape DEF TypeOK, WorkerTypeOK
  <2> QED BY <1>9, <2>1, UserShape DEF FreshInv
<1> QED BY <1>2, <1>3, <1>4, <1>5, <1>6, <1>7, <1>8, <1>9
        DEF Next, Reconcile, Informers, Environment, Idle

LEMMA UidNext ==
    ASSUME TypeOK, CopiesInv, UidInv, [Next]_vars PROVE UidInv'
<1> USE DEF UidInv
<1>0. /\ made \in [CR -> Nat]
      /\ pc # "idle" => cur \in CR /\ inst \in Scope
      /\ \A c \in CR : cache[c] # None => cache[c] \in Scope
  BY DEF TypeOK, ScopesTypeOK, WorkerTypeOK
\* Steps that store, for the scope in hand, one with its uid.
<1>1. ASSUME UNCHANGED <<made, cache>>,
             \/ UNCHANGED api
             \/ cur \in CR /\ \E o : Store(cur, o) /\ (api[cur] # None /\ o.uid = api[cur].uid),
             \/ pc' = "idle"
             \/ pc # "idle" /\ cur' = cur /\ inst'.uid = inst.uid
      PROVE  UidInv'
  <2>1. \A c \in CR : api'[c] # None => api[c] # None /\ api'[c].uid = api[c].uid
    BY <1>1, StoreFacts
  <2> QED BY <1>1, <2>1
<1>2. CASE Idle
  <2>1. UNCHANGED <<api, cache, made>>
    BY <1>2, IdleShape
  <2>2. pc' = "idle" \/ (pc # "idle" /\ UNCHANGED <<cur, inst>>)
    BY <1>2, IdleShape
  <2> QED BY <1>1, <2>1, <2>2
<1>3. ASSUME NEW c \in CR, Start(c) PROVE UidInv'
  <2>1. CASE UNCHANGED <<pc, cur, inst, fresh>>
    <3>1. UNCHANGED <<api, cache, made>> /\ pc' = "idle"
      BY <1>3, <2>1, StartShape
    <3> QED BY <1>1, <3>1
  <2>2. CASE cache[c] # None /\ cur' = c /\ inst'.uid = cache[c].uid
    BY <1>3, <2>2, StartShape
  <2> QED BY <1>3, <2>1, <2>2, StartShape
<1>4. CASE AddFinalizer \/ UpdateStatus \/ UpdateUnprojected
  <2>1. UNCHANGED <<made, cache>> /\ cur \in CR /\ pc # "idle"
    BY <1>4, AddFinalizerShape, UpdateStatusShape, UnprojectedShape
       DEF AddFinalizer, UpdateUnprojected
  <2>2. fresh => api[cur] # None /\ api[cur].uid = inst.uid
    BY DEF CopiesInv
  <2>3. \/ Fail
        \/ cur' = cur /\ inst'.uid = inst.uid
    BY <1>4, AddFinalizerShape, UpdateStatusShape, UnprojectedShape
  <2>4. \/ UNCHANGED api
        \/ \E o : Store(cur, o) /\ (api[cur] # None /\ o.uid = api[cur].uid)
    <3>1. CASE AddFinalizer
      BY <2>2, <3>1, AddFinalizerShape
    <3>2. CASE UpdateStatus
      BY <2>2, <3>2, UpdateStatusShape
    <3>3. CASE UpdateUnprojected
      BY <3>3, UnprojectedShape
    <3> QED BY <1>4, <3>1, <3>2, <3>3
  <2>5. \/ pc' = "idle"
        \/ cur' = cur /\ inst'.uid = inst.uid
    BY <2>3, FailPath
  <2> QED BY <1>1, <2>1, <2>4, <2>5
<1>5. CASE RemoveFinalizer
  <2>1. UNCHANGED <<made, cache>> /\ pc' = "idle" /\ cur \in CR
    BY <1>5 DEF RemoveFinalizer, Return, TypeOK, WorkerTypeOK
  <2>2. UNCHANGED api \/ Store(cur, None)
    BY <1>5 DEF RemoveFinalizer
  <2>3. \A c \in CR : api'[c] # None => api'[c] = api[c]
    BY <2>1, <2>2, StoreFacts
  <2> QED BY <2>1, <2>3
<1>6. CASE CacheSync \/ Crash
  <2>1. cache' = api /\ UNCHANGED <<api, made>>
    BY <1>6 DEF CacheSync, Crash
  <2>2. UNCHANGED <<pc, cur, inst>> \/ pc' = "idle"
    BY <1>6 DEF CacheSync, Crash
  <2>3. \A c \in CR : api[c] # None =>
           0 < api[c].uid /\ api[c].uid <= made[c] /\ api[c].uid = made[c] /\ 0 < made[c]
    BY <1>0
  <2>4. pc' # "idle" => 0 < inst'.uid /\ inst'.uid <= made'[cur']
    BY <2>1, <2>2
  <2> QED BY <2>1, <2>3, <2>4
<1>7. ASSUME NEW c \in CR, UserCreates(c) \/ UserEdits(c) \/ UserDeletes(c)
      PROVE  UidInv'
  <2>1. /\ UNCHANGED <<cache, pc, cur, inst>>
        /\ \A d \in CR \ {c} : api'[d] = api[d] /\ made'[d] = made[d]
        /\ \/ api'[c] # None /\ made'[c] = made[c] + 1 /\ api'[c].uid = made[c] + 1
           \/ /\ api[c] # None /\ made'[c] = made[c]
              /\ api'[c] = None \/ api'[c].uid = api[c].uid
    <3>1. api'[c] \in Scope => api'[c] # None
      BY NoneIsNoObject
    <3> QED BY <1>7, <3>1, UserShape
  <2>2. made[c] \in Nat /\ made[c] <= made'[c] /\ made'[c] \in Nat
    BY <1>0, <2>1
  <2>3. \A d \in CR : api'[d] # None => 0 < made'[d] /\ api'[d].uid = made'[d]
    <3>1. api'[c] # None => 0 < made'[c] /\ api'[c].uid = made'[c]
      BY <1>0, <2>1, <2>2
    <3> QED BY <2>1, <3>1
  <2>4. \A d \in CR : \A u \in Nat : u <= made[d] => u <= made'[d]
    BY <1>0, <2>1, <2>2
  <2>5. \A d \in CR : cache[d] # None => cache[d].uid <= made'[d]
    <3>1. \A d \in CR : cache[d] # None => cache[d].uid \in Nat
      BY <1>0 DEF Scope
    <3> QED BY <2>4, <3>1
  <2>6. pc # "idle" => inst.uid <= made'[cur]
    <3>1. pc # "idle" => inst.uid \in Nat /\ cur \in CR
      BY <1>0 DEF Scope
    <3> QED BY <2>4, <3>1
  <2> QED BY <2>1, <2>3, <2>5, <2>6
<1> QED BY <1>2, <1>3, <1>4, <1>5, <1>6, <1>7
        DEF Next, Reconcile, Informers, Environment, Idle

-----------------------------------------------------------------------------
(* One reconcile, with caches that catch up                                *)

\* What a step of the worker reads is what is stored.
LEMMA CachesAreCurrent ==
    ASSUME TypeOK, CopiesInv, CmCopiesInv, ~CacheLag, CaughtUp
    PROVE  /\ crLag = {} /\ cmLag = {}
           /\ \A c \in CR : cache[c] = api[c]
           /\ \A m \in ConfigMapName : cmCache[m] = cms[m]
BY DEF CaughtUp, CopiesInv, CmCopiesInv

\* getAllValidatedNamespaceMembers then finds what the stored scopes claim.
LEMMA ValidatedAreClaimed ==
    ASSUME TypeOK, CopiesInv, CmCopiesInv, ~CacheLag, CaughtUp, NEW m, NEW n
    PROVE  n \in getAllValidated(m) <=> Claimed(n, m)
<1>1. \A c \in CR : cache[c] = api[c]
  BY CachesAreCurrent
<1> QED BY <1>1 DEF getAllValidated, Claimed, Claims

\* A fresh copy past setDefaults stands for a live scope that claims what the
\* copy has validated.
LEMMA FreshClaims ==
    ASSUME TypeOK, CopiesInv, FreshInv, fresh, ~inst.deleting, pc \in afterDefaults
    PROVE  \A n \in inst.validated : Claimed(n, inst.cm)
<1>1. pc # "idle" /\ inst.cm # None /\ cur \in CR
  BY DEF TypeOK, WorkerTypeOK, afterDefaults
<1>2. setDefaults(inst).cm = inst.cm
  BY <1>1 DEF setDefaults
<1> QED BY <1>1, <1>2 DEF CopiesInv, FreshInv, Claimed, Claims

\* Where each step leaves the worker.
LEMMA WhereTo ==
    /\ \A c \in CR : Start(c) => pc' \in {"idle", "addFinalizer", "updateStatus", "updateCm"}
    /\ AddFinalizer => pc' \in {"idle", "recordFailed", "updateStatus"}
    /\ UpdateStatus =>
          pc' \in {"idle", "recordFailed", "push", "unprojected", "deleteUnmanaged"}
    /\ UpdateUnprojected => pc' \in {"idle", "recordFailed", "deleteUnmanaged"}
    /\ \A n \in Namespace : Push(n) =>
          pc' \in {"push", "unprojected", "recordFailed", "deleteUnmanaged"}
    /\ DeleteRbacFromUnmanaged => pc' \in {"delete", "updateCm"}
    /\ DeleteAllRbac => pc' \in {"delete", "removeFinalizer"}
    /\ \A n \in Namespace : Delete(n) =>
          pc' \in {"idle", "recordFailed", "delete", "updateCm", "removeFinalizer"}
    /\ UpdateConfigMap => pc' \in {"idle", "recordFailed", "restart", "deleteAll", "runtime"}
    /\ RestartPods => pc' \in {"deleteAll", "runtime"}
    /\ RuntimeRoles => pc' \in {"recordCompleted", "recordFailed"}
    /\ CallFails => pc' \in {"idle", "recordFailed"}
    /\ Record \/ RemoveFinalizer \/ Crash => pc' = "idle"
<1>0. Fail => pc' \in {"idle", "recordFailed"}
  BY FailPath
<1>1. \A c \in CR : Start(c) => pc' \in {"idle", "addFinalizer", "updateStatus", "updateCm"}
  BY DEF Start, FirstStep
<1>2. AddFinalizer => pc' \in {"idle", "recordFailed", "updateStatus"}
  BY <1>0 DEF AddFinalizer
<1>3. UpdateStatus =>
         pc' \in {"idle", "recordFailed", "push", "unprojected", "deleteUnmanaged"}
  BY <1>0 DEF UpdateStatus, Loop, AfterPush
<1>4. UpdateUnprojected => pc' \in {"idle", "recordFailed", "deleteUnmanaged"}
  BY <1>0 DEF UpdateUnprojected
<1>5. \A n \in Namespace : Push(n) =>
         pc' \in {"push", "unprojected", "recordFailed", "deleteUnmanaged"}
  BY DEF Push, Loop, AfterPush
<1>6. DeleteRbacFromUnmanaged => pc' \in {"delete", "updateCm"}
  BY DEF DeleteRbacFromUnmanaged, Loop
<1>7. DeleteAllRbac => pc' \in {"delete", "removeFinalizer"}
  BY DEF DeleteAllRbac, Loop
<1>8. \A n \in Namespace : Delete(n) =>
         pc' \in {"idle", "recordFailed", "delete", "updateCm", "removeFinalizer"}
  BY <1>0 DEF Delete, Loop
<1>9. UpdateConfigMap => pc' \in {"idle", "recordFailed", "restart", "deleteAll", "runtime"}
  BY <1>0 DEF UpdateConfigMap
<1>10. RestartPods => pc' \in {"deleteAll", "runtime"}
  BY DEF RestartPods
<1>11. RuntimeRoles => pc' \in {"recordCompleted", "recordFailed"}
  BY DEF RuntimeRoles
<1>12. CallFails => pc' \in {"idle", "recordFailed"}
  BY <1>0 DEF CallFails
<1>13. Record \/ RemoveFinalizer \/ Crash => pc' = "idle"
  BY DEF Record, RemoveFinalizer, Crash, Return
<1> QED BY <1>1, <1>2, <1>3, <1>4, <1>5, <1>6, <1>7, <1>8, <1>9, <1>10, <1>11,
           <1>12, <1>13

\* The informers, the users and the cluster leave the worker where it is; its
\* copy may only age.
Bystanders == Others \/ UNCHANGED vars

LEMMA BystandersShape ==
    ASSUME Bystanders
    PROVE  UNCHANGED <<pc, cur, inst, todo, pushErr, missed>> /\ (fresh' => fresh)
<1>1. CASE Informers
  BY <1>1 DEF Informers, CacheSync, CmSync
<1>2. ASSUME NEW c \in CR, NEW o, UserStores(c, o)
      PROVE  UNCHANGED <<pc, cur, inst, todo, pushErr, missed>> /\ (fresh' => fresh)
  BY <1>2 DEF UserStores
<1>3. ASSUME NEW c \in CR, UserCreates(c) \/ UserEdits(c) \/ UserDeletes(c)
      PROVE  UNCHANGED <<pc, cur, inst, todo, pushErr, missed>> /\ (fresh' => fresh)
  BY <1>2, <1>3 DEF UserCreates, UserEdits, UserDeletes
<1>4. ASSUME NEW c \in CR, CsvControllerPatches(c)
      PROVE  UNCHANGED <<pc, cur, inst, todo, pushErr, missed>> /\ (fresh' => fresh)
  BY <1>4 DEF CsvControllerPatches
<1>5. CASE \/ \E n \in Namespace : NamespaceChanges(n) \/ AuthorizationChanges(n)
           \/ \E m \in ConfigMapName : CollectConfigMap(m)
           \/ UNCHANGED vars
  BY <1>5 DEF NamespaceChanges, AuthorizationChanges, CollectConfigMap, vars
<1> QED BY <1>1, <1>3, <1>4, <1>5 DEF Bystanders, Others, Environment

\* A step is the worker's or a bystander's.
WorkerStep ==
    \/ \E c \in CR : Start(c)
    \/ AddFinalizer \/ UpdateStatus \/ UpdateUnprojected
    \/ \E n \in Namespace : Push(n) \/ Delete(n)
    \/ DeleteRbacFromUnmanaged \/ UpdateConfigMap \/ RestartPods
    \/ RuntimeRoles \/ Record \/ DeleteAllRbac \/ RemoveFinalizer
    \/ CallFails \/ Crash

LEMMA TwoKinds == [Next]_vars => WorkerStep \/ Bystanders
BY DEF Next, Reconcile, WorkerStep, Bystanders, Others

LEMMA WithdrawNext ==
    ASSUME TypeOK, CopiesInv, PathInv, CmCopiesInv, FreshInv, WithdrawInv, ~CacheLag,
           [Next]_vars
    PROVE  WithdrawInv'
<1>1. CASE Bystanders
  BY <1>1, BystandersShape DEF WithdrawInv
<1>2. CASE pc' # "delete"
  BY <1>2 DEF WithdrawInv
<1>3. ASSUME NEW n \in Namespace, Delete(n), pc' = "delete" PROVE WithdrawInv'
  <2>1. ~Fail
    BY <1>3, FailPath
  <2>2. pc = "delete" /\ UNCHANGED <<inst, fresh>> /\ todo' \subseteq todo
    BY <1>3, <2>1 DEF Delete, Loop
  <2> QED BY <2>2 DEF WithdrawInv
<1>4. CASE DeleteAllRbac
  BY <1>4 DEF DeleteAllRbac, PathInv, WithdrawInv
<1>5. CASE DeleteRbacFromUnmanaged
  <2>1. /\ todo' = Unmanaged(inst.cm) \ {OperatorNs} /\ UNCHANGED <<inst, fresh>>
        /\ pc = "deleteUnmanaged" /\ CaughtUp
    BY <1>5 DEF DeleteRbacFromUnmanaged, Loop
  <2>2. ASSUME fresh, ~inst.deleting, NEW n \in inst.validated
        PROVE  n \notin todo'
    <3>1. Claimed(n, inst.cm)
      BY <2>1, <2>2, FreshClaims DEF afterDefaults
    <3>2. n \in getAllValidated(inst.cm)
      BY <2>1, <3>1, ValidatedAreClaimed
    <3> QED BY <2>1, <3>2 DEF Unmanaged
  <2> QED BY <2>1, <2>2 DEF WithdrawInv
<1>6. CASE WorkerStep
  <2>1. \/ pc' # "delete" \/ DeleteAllRbac \/ DeleteRbacFromUnmanaged
        \/ \E n \in Namespace : Delete(n)
    BY <1>6, WhereTo DEF WorkerStep
  <2> QED BY <1>2, <1>3, <1>4, <1>5, <2>1
<1> QED BY <1>1, <1>6, TwoKinds

LEMMA ListedNext ==
    ASSUME TypeOK, CopiesInv, PathInv, CmCopiesInv, FreshInv, ListedInv, ~CacheLag,
           [Next]_vars
    PROVE  ListedInv'
<1> DEFINE L == {"restart", "runtime", "recordCompleted"}
           Listed(m) == /\ m \in ConfigMapName /\ cms[m] # None
                        /\ inst.validated \subseteq cms[m].names
                        /\ <<cur, inst.uid>> \in cms[m].owners
<1>1. CASE pc' \notin L
  BY <1>1 DEF ListedInv
<1>2. ASSUME pc' \in L => pc \in L, UNCHANGED <<cur, inst>>, fresh' => fresh,
             \/ UNCHANGED cms
             \/ \E m \in ConfigMapName : cms' = [cms EXCEPT ![m] = None]
                    /\ ~\E r \in cms[m].owners : api[r[1]] # None /\ api[r[1]].uid = r[2]
      PROVE  ListedInv'
  <2>1. SUFFICES ASSUME pc \in L, ~inst.deleting, fresh PROVE Listed(inst.cm)'
    BY <1>2 DEF ListedInv
  <2>2. Listed(inst.cm)
    BY <2>1 DEF ListedInv
  <2>3. api[cur] # None /\ api[cur].uid = inst.uid
    BY <2>1 DEF CopiesInv
  <2>4. inst.cm \in ConfigMapName
    BY <2>2
  <2>5. ASSUME NEW m \in ConfigMapName, cms' = [cms EXCEPT ![m] = None],
               ~\E r \in cms[m].owners : api[r[1]] # None /\ api[r[1]].uid = r[2]
        PROVE  cms'[inst.cm] = cms[inst.cm]
    <3>1. m # inst.cm
      BY <2>2, <2>3, <2>5
    <3> QED BY <2>4, <2>5, <3>1 DEF TypeOK, ConfigMapsTypeOK
  <2> QED BY <1>2, <2>2, <2>5
<1>3. CASE Bystanders
  <2>1. \/ UNCHANGED cms
        \/ \E m \in ConfigMapName : cms' = [cms EXCEPT ![m] = None]
               /\ ~\E r \in cms[m].owners : api[r[1]] # None /\ api[r[1]].uid = r[2]
    BY <1>3 DEF Bystanders, Others, Informers, CacheSync, CmSync, Environment,
       UserCreates, UserEdits, UserDeletes, UserStores, CsvControllerPatches,
       NamespaceChanges, AuthorizationChanges, CollectConfigMap, StoreCm, vars
  <2> QED BY <1>2, <1>3, <2>1, BystandersShape
<1>4. CASE RestartPods \/ RuntimeRoles
  <2>1. pc \in L /\ UNCHANGED <<cur, inst, fresh, cms>>
    BY <1>4 DEF RestartPods, RuntimeRoles
  <2> QED BY <1>2, <2>1
<1>5. ASSUME UpdateConfigMap, pc' \in L PROVE ListedInv'
  <2>1. ~Fail
    BY <1>5, FailPath
  <2>2. SUFFICES ASSUME ~inst'.deleting, fresh' PROVE Listed(inst.cm)'
    BY DEF ListedInv
  <2>3. UNCHANGED <<cur, inst, fresh, cmCache>> /\ pc = "updateCm" /\ CaughtUp
        /\ inst.cm \in ConfigMapName
    BY <1>5, <2>1, UpdateConfigMapShape
  <2>4. \A n \in inst.validated : n \in getAllValidated(inst.cm)
    BY <2>2, <2>3, FreshClaims, ValidatedAreClaimed DEF afterDefaults
  <2>5. CASE /\ UNCHANGED <<cms, cmLag>> /\ cmCache[inst.cm] # None
             /\ cmCache[inst.cm].names = getAllValidated(inst.cm)
             /\ <<cur, inst.uid>> \in cmCache[inst.cm].owners
    BY <2>3, <2>4, <2>5, CachesAreCurrent
  <2>6. ASSUME NEW o \in ConfigMap, StoreCm(inst.cm, o),
               o.names = getAllValidated(inst.cm), <<cur, inst.uid>> \in o.owners
        PROVE  Listed(inst.cm)'
    <3>1. cms'[inst.cm] = o /\ o # None
      BY <2>3, <2>6, NoneIsNoObject DEF StoreCm, TypeOK, ConfigMapsTypeOK
    <3> QED BY <2>3, <2>4, <2>6, <3>1
  <2> QED BY <1>5, <2>1, <2>5, <2>6, UpdateConfigMapShape
<1>6. CASE WorkerStep
  <2>1. pc' \notin L \/ RestartPods \/ RuntimeRoles \/ UpdateConfigMap
    BY <1>6, WhereTo DEF WorkerStep
  <2> QED BY <1>1, <1>4, <1>5, <2>1
<1> QED BY <1>3, <1>6, TwoKinds

\* The bounds are only ever used up; the steps on namespaces use one of theirs.
LEMMA SpentGrows ==
    ASSUME TypeOK, [Next]_vars
    PROVE  /\ spent["ns"] \in Nat /\ spent'["ns"] \in Nat
           /\ \/ spent'["ns"] = spent["ns"]
              \/ /\ spent'["ns"] = spent["ns"] + 1
                 /\ \E n \in Namespace : NamespaceChanges(n) \/ AuthorizationChanges(n)
           /\ spent'["fault"] = 0 => spent["fault"] = 0
           /\ spent["fault"] \in Nat
<1> DEFINE Goal == /\ spent'["ns"] = spent["ns"]
                   /\ spent'["fault"] = 0 => spent["fault"] = 0
<1>0. spent \in [{"user", "ns", "fault"} -> Nat]
  BY DEF TypeOK
<1>1. UNCHANGED spent => Goal
  OBVIOUS
<1>2. \A max : Spend("fault", max) \/ Spend("user", max) => Goal
  BY <1>0 DEF Spend
<1>3. ASSUME NEW n \in Namespace, NamespaceChanges(n) \/ AuthorizationChanges(n)
      PROVE  /\ spent'["ns"] = spent["ns"] + 1
             /\ spent'["fault"] = 0 => spent["fault"] = 0
  <2>1. Spend("ns", MaxNsEvents)
    BY <1>3 DEF NamespaceChanges, AuthorizationChanges
  <2> QED BY <1>0, <2>1 DEF Spend
<1>4. ASSUME \/ \E c \in CR : Start(c) \/ CsvControllerPatches(c)
             \/ AddFinalizer \/ UpdateUnprojected
             \/ DeleteRbacFromUnmanaged \/ UpdateConfigMap \/ RestartPods \/ Record
             \/ DeleteAllRbac \/ RemoveFinalizer \/ CallFails \/ Crash \/ Informers
             \/ \E m \in ConfigMapName : CollectConfigMap(m)
             \/ UNCHANGED vars
      PROVE  Goal
  <2>1. UNCHANGED spent \/ \E max : Spend("fault", max)
    BY <1>4 DEF Start, CsvControllerPatches, AddFinalizer, UpdateUnprojected,
       DeleteRbacFromUnmanaged, UpdateConfigMap, RestartPods, Record, DeleteAllRbac,
       RemoveFinalizer, CallFails, Crash, Informers, CacheSync, CmSync,
       CollectConfigMap, vars
  <2> QED BY <1>1, <1>2, <2>1
<1>5. ASSUME UpdateStatus \/ RuntimeRoles \/ \E n \in Namespace : Push(n) \/ Delete(n)
      PROVE  Goal
  <2>1. UpdateStatus => Goal
    BY <1>1, <1>2, UpdateStatusShape
  <2>2. RuntimeRoles => Goal
    BY <1>1, <1>2 DEF RuntimeRoles
  <2>3. \A n \in Namespace : Push(n) \/ Delete(n) => Goal
    BY <1>1, <1>2 DEF Push, Delete
  <2> QED BY <1>5, <2>1, <2>2, <2>3
<1>6. ASSUME NEW c \in CR, UserCreates(c) \/ UserEdits(c) \/ UserDeletes(c)
      PROVE  Goal
  BY <1>2, <1>6, UserShape
<1>7. Goal \/ \E n \in Namespace : NamespaceChanges(n) \/ AuthorizationChanges(n)
  BY <1>4, <1>5, <1>6 DEF Next, Reconcile, Environment
<1> QED BY <1>0, <1>3, <1>7

\* A namespace keeps its RBAC until it is gone.
LEMMA NamespaceShape ==
    ASSUME TypeOK, NEW n \in Namespace, NamespaceChanges(n)
    PROVE  /\ UNCHANGED <<api, cache, crLag, made, cms, cmCache, cmLag, pc, cur,
                          inst, fresh, todo, pushErr, missed>>
           /\ Spend("ns", MaxNsEvents)
           /\ \/ UNCHANGED <<role, binding>>
              \/ /\ nsPhase[n] # "Active" /\ nsPhase' # nsPhase
                 /\ role' = [role EXCEPT ![n] = None]
                 /\ binding' = [binding EXCEPT ![n] = None]
<1> DEFINE next == [Active |-> "Terminating", Terminating |-> "Absent",
                    Absent |-> "Active"][nsPhase[n]]
           keep(f) == IF next = "Absent" THEN [f EXCEPT ![n] = None] ELSE f
<1>1. /\ UNCHANGED <<api, cache, crLag, made, cms, cmCache, cmLag, pc, cur,
                     inst, fresh, todo, pushErr, missed>>
      /\ Spend("ns", MaxNsEvents)
      /\ role' = keep(role) /\ binding' = keep(binding)
      /\ nsPhase' = [nsPhase EXCEPT ![n] = next]
  BY DEF NamespaceChanges
<1>2. next = "Absent" => nsPhase[n] \notin {"Active", "Absent"}
  BY DEF TypeOK, NamespacesTypeOK
<1>3. nsPhase'[n] = next
  BY <1>1 DEF TypeOK, NamespacesTypeOK
<1> QED BY <1>1, <1>2, <1>3

\* Bystanders take RBAC away only with a namespace, which is two steps from
\* being Active.
LEMMA BystandersKeepRbac ==
    ASSUME TypeOK, Bystanders,
           \A n \in Namespace : NamespaceChanges(n) => nsPhase[n] = "Active"
    PROVE  UNCHANGED <<role, binding>>
<1>1. ASSUME NEW n \in Namespace, NamespaceChanges(n)
      PROVE  UNCHANGED <<role, binding>>
  BY <1>1, NamespaceShape
<1>2. CASE ~\E n \in Namespace : NamespaceChanges(n)
  BY <1>2 DEF Bystanders, Others, Informers, CacheSync, CmSync, Environment,
     UserCreates, UserEdits, UserDeletes, UserStores, CsvControllerPatches,
     AuthorizationChanges, CollectConfigMap, vars
<1> QED BY <1>1, <1>2

\* A goroutine without error leaves its namespace projected and no other
\* touched.
LEMMA PushProjects ==
    ASSUME TypeOK, NEW n \in Namespace, Push(n), ~pushErr'
    PROVE  /\ ~pushErr /\ todo' = todo \ {n} /\ UNCHANGED <<cur, inst, fresh>>
           /\ pc = "push" /\ n \in todo
           /\ role'[n] = inst.cm /\ binding'[n] # None
           /\ \A x \in Namespace \ {n} : role'[x] = role[x] /\ binding'[x] = binding[x]
           /\ Accessible(n) /\ missed' = missed
<1>1. pc = "push" /\ n \in todo /\ todo' = todo \ {n} /\ UNCHANGED <<cur, inst, fresh>>
  BY DEF Push, Loop
<1>2. inst.cm # None
  BY <1>1 DEF TypeOK, WorkerTypeOK, afterDefaults
<1>3. /\ Accessible(n) /\ ProjectRole(n) /\ ProjectBinding(n)
      /\ UNCHANGED <<pushErr, missed>>
  BY DEF Push
<1> QED BY <1>1, <1>2, <1>3 DEF ProjectRole, ProjectBinding, TypeOK, NamespacesTypeOK

\* One step of a deletion loop touches its namespace only.
LEMMA DeleteElsewhere ==
    ASSUME TypeOK, NEW n \in Namespace, Delete(n)
    PROVE  /\ \A x \in Namespace \ {n} : role'[x] = role[x] /\ binding'[x] = binding[x]
           /\ role'[n] \in {role[n], None} /\ binding'[n] \in {binding[n], None}
           /\ role'[n] # role[n] => role[n] = inst.cm
           /\ binding'[n] # binding[n] => binding[n] = inst.cm
           /\ pc = "delete" /\ n \in todo
BY DEF Delete, DropLabel, TypeOK, NamespacesTypeOK

\* All other steps of the worker leave Roles and RoleBindings alone.
LEMMA WorkerKeepsRbac ==
    ASSUME WorkerStep
    PROVE  \/ \E n \in Namespace : Push(n) \/ Delete(n)
           \/ UNCHANGED <<role, binding>>
BY DEF WorkerStep, Start, AddFinalizer, UpdateStatus, UpdateUnprojected,
   DeleteRbacFromUnmanaged, UpdateConfigMap, RestartPods, RuntimeRoles, Record,
   DeleteAllRbac, RemoveFinalizer, CallFails, Crash

\* Only NamespaceChanges changes the phase of a namespace.
LEMMA PhasesStay ==
    ASSUME [Next]_vars
    PROVE  UNCHANGED nsPhase \/ \E n \in Namespace : NamespaceChanges(n)
<1>1. WorkerStep => UNCHANGED nsPhase
  BY DEF WorkerStep, Start, AddFinalizer, UpdateStatus, UpdateUnprojected, Push,
     Delete, DeleteRbacFromUnmanaged, UpdateConfigMap, RestartPods, RuntimeRoles,
     Record, DeleteAllRbac, RemoveFinalizer, CallFails, Crash
<1>2. Bystanders => UNCHANGED nsPhase \/ \E n \in Namespace : NamespaceChanges(n)
  BY DEF Bystanders, Others, Informers, CacheSync, CmSync, Environment,
     UserCreates, UserEdits, UserDeletes, UserStores, CsvControllerPatches,
     AuthorizationChanges, CollectConfigMap, vars
<1> QED BY <1>1, <1>2, TwoKinds

LEMMA ProjectedNext ==
    ASSUME TypeOK, CopiesInv, PathInv, WithdrawInv, ProjectedInv, [Next]_vars
    PROVE  ProjectedInv'
<1> DEFINE Few == spent["ns"] < 2
           B == spent["ns"] = 0 => \A n \in Namespace : nsPhase[n] = "Active"
           C == Few /\ pc = "push" /\ ~pushErr =>
                   \A n \in inst.validated \ ({OperatorNs} \cup todo) : Projected(n)
           D == Few /\ pc \in afterPush /\ ~inst.deleting /\ fresh /\ cur \notin SubsetCR =>
                   \A n \in inst.validated \ {OperatorNs} : Projected(n)
<1>0. B /\ C /\ D
  BY DEF ProjectedInv
<1>1. SUFFICES C' /\ D' /\ B'
  BY DEF ProjectedInv
<1>2. /\ Few' => Few
      /\ Few' => \A n \in Namespace : NamespaceChanges(n) => nsPhase[n] = "Active"
  <2>1. Few' => Few
    BY SpentGrows
  <2>2. ASSUME Few', NEW n \in Namespace, NamespaceChanges(n)
        PROVE  nsPhase[n] = "Active"
    <3>1. spent'["ns"] = spent["ns"] + 1 /\ spent["ns"] \in Nat
      BY <2>2, NamespaceShape, SpentGrows DEF Spend, TypeOK
    <3>2. spent["ns"] = 0
      BY <2>2, <3>1
    <3> QED BY <1>0, <3>2
  <2> QED BY <2>1, <2>2
<1>3. B'
  <2>1. ASSUME spent'["ns"] = 0 PROVE spent["ns"] = 0 /\ UNCHANGED nsPhase
    <3>1. spent["ns"] = 0
      BY <2>1, SpentGrows
    <3>2. \A n \in Namespace : ~NamespaceChanges(n)
      BY <2>1, <3>1, NamespaceShape DEF Spend, TypeOK
    <3> QED BY <3>1, <3>2, PhasesStay
  <2> QED BY <1>0, <2>1
\* Steps that leave the worker with what it holds and the RBAC as it is.
<1>4. ASSUME Few' => UNCHANGED <<role, binding>>,
             UNCHANGED <<cur, inst>>, fresh' => fresh,
             \/ pc' \in afterPush /\ pc \in afterPush
             \/ pc' = pc /\ UNCHANGED <<todo, pushErr>>
      PROVE  C' /\ D'
  <2>2. Few' => \A n : Projected(n)' <=> Projected(n)
    BY <1>4 DEF Projected
  <2>3. C'
    BY <1>0, <1>2, <1>4, <2>2 DEF afterPush
  <2>4. D'
    BY <1>0, <1>2, <1>4, <2>2
  <2> QED BY <2>3, <2>4
<1>5. CASE Bystanders
  <2>1. Few' => UNCHANGED <<role, binding>>
    BY <1>2, <1>5, BystandersKeepRbac
  <2> QED BY <1>3, <1>4, <1>5, <2>1, BystandersShape
<1>6. CASE pc' \notin afterPush \cup {"push", "unprojected"}
  BY <1>3, <1>6
<1>7. CASE UpdateStatus
  <2>1. CASE Fail
    BY <1>6, <2>1, FailPath DEF afterPush
  <2>2. CASE ~Fail
    <3>1. /\ todo' = inst'.validated \ {OperatorNs} /\ cur' = cur
          /\ pc' = IF todo' = {} THEN AfterPush(FALSE) ELSE "push"
      BY <1>7, <2>2, UpdateStatusShape
    <3>2. C'
      BY <3>1 DEF AfterPush
    <3>3. pc' \in afterPush => inst'.validated \ {OperatorNs} = {}
      BY <3>1 DEF afterPush
    <3>4. D'
      BY <3>3
    <3> QED BY <1>3, <3>2, <3>4
  <2> QED BY <2>1, <2>2
<1>8. CASE UpdateUnprojected
  <2>1. CASE Fail
    BY <1>6, <2>1, FailPath DEF afterPush
  <2>2. CASE ~Fail
    <3>1. /\ pc = "unprojected" /\ pc' = "deleteUnmanaged"
          /\ UNCHANGED <<cur, fresh, spent, role, binding>>
          /\ inst'.validated = inst.validated /\ inst'.deleting = inst.deleting
          /\ inst'.cm = inst.cm
      BY <1>8, <2>2, UnprojectedShape DEF UpdateUnprojected
    <3>2. \A n : Projected(n)' <=> Projected(n)
      BY <3>1 DEF Projected
    <3>3. D'
      BY <1>0, <3>1, <3>2 DEF afterPush
    <3>4. C'
      BY <3>1
    <3> QED BY <1>3, <3>3, <3>4
  <2> QED BY <2>1, <2>2
<1>9. ASSUME NEW n \in Namespace, Push(n) PROVE C' /\ D'
  <2>1. /\ pc = "push" /\ n \in todo /\ todo' = todo \ {n}
        /\ pc' = IF todo' = {} THEN AfterPush(pushErr') ELSE "push"
        /\ UNCHANGED <<cur, inst, fresh>>
    BY <1>9 DEF Push, Loop
  <2>3. ASSUME Few', ~pushErr', NEW x \in inst.validated \ ({OperatorNs} \cup todo')
        PROVE  Projected(x)'
    <3>1. /\ ~pushErr /\ role'[n] = inst.cm /\ binding'[n] # None
          /\ \A y \in Namespace \ {n} : role'[y] = role[y] /\ binding'[y] = binding[y]
      BY <1>9, <2>3, PushProjects
    <3>2. CASE x = n
      BY <2>1, <3>1, <3>2 DEF Projected
    <3>3. CASE x # n
      <4>1. x \in Namespace
        BY <2>1, <2>3 DEF TypeOK, WorkerTypeOK, Scope
      <4>2. Projected(x)
        BY <1>0, <1>2, <2>1, <2>3, <3>1, <3>3
      <4> QED BY <2>1, <3>1, <3>3, <4>1, <4>2 DEF Projected
    <3> QED BY <3>2, <3>3
  <2>4. C'
    BY <2>1, <2>3
  <2>5. ASSUME pc' \in afterPush, cur \notin SubsetCR
        PROVE  todo' = {} /\ ~pushErr'
    BY <2>1, <2>5 DEF afterPush, AfterPush
  <2>6. D'
    BY <2>1, <2>3, <2>5
  <2> QED BY <2>4, <2>6
<1>10. ASSUME NEW n \in Namespace, Delete(n) PROVE C' /\ D'
  <2>1. CASE Fail
    BY <1>6, <2>1, FailPath DEF afterPush
  <2>2. CASE ~Fail
    <3>1. UNCHANGED <<cur, inst, fresh>> /\ pc = "delete" /\ n \in todo
          /\ pc' \in {"delete", "updateCm", "removeFinalizer"}
      BY <1>10, <2>2 DEF Delete, Loop
    <3>2. ASSUME Few', ~inst.deleting, fresh, cur \notin SubsetCR,
                 NEW x \in inst.validated \ {OperatorNs}
          PROVE  Projected(x)'
      <4>1. x \in Namespace \ {n}
        BY <3>1, <3>2 DEF WithdrawInv, TypeOK, WorkerTypeOK, Scope
      <4>2. Projected(x)
        BY <1>0, <1>2, <3>1, <3>2 DEF afterPush
      <4> QED BY <1>10, <3>1, <4>1, <4>2, DeleteElsewhere DEF Projected
    <3>3. C' /\ D'
      BY <3>1, <3>2
    <3> QED BY <3>3
  <2> QED BY <2>1, <2>2
<1>11. CASE DeleteRbacFromUnmanaged \/ UpdateConfigMap \/ RestartPods \/ RuntimeRoles
  <2>1. UNCHANGED <<role, binding>>
    BY <1>11 DEF DeleteRbacFromUnmanaged, UpdateConfigMap, RestartPods, RuntimeRoles
  <2>2. pc \in afterPush
    BY <1>11 DEF DeleteRbacFromUnmanaged, UpdateConfigMap, RestartPods, RuntimeRoles,
       afterPush
  <2>3. Fail \/ UNCHANGED <<cur, inst, fresh>>
    BY <1>11, UpdateConfigMapShape
       DEF DeleteRbacFromUnmanaged, RestartPods, RuntimeRoles
  <2>4. Fail => pc' \notin afterPush \cup {"push", "unprojected"}
    BY FailPath DEF afterPush
  <2>5. pc' \in afterPush \/ pc' \notin afterPush \cup {"push", "unprojected"}
    BY <1>11, WhereTo DEF afterPush
  <2> QED BY <1>3, <1>4, <1>6, <2>1, <2>2, <2>3, <2>4, <2>5
<1>12. CASE DeleteAllRbac
  <2>1. inst.deleting /\ UNCHANGED inst /\ pc' \in {"delete", "removeFinalizer"}
    BY <1>12, WhereTo DEF DeleteAllRbac, PathInv
  <2> QED BY <1>3, <2>1
<1>13. ASSUME NEW c \in CR, Start(c) PROVE C' /\ D'
  <2>1. CASE pc' = "updateCm"
    BY <1>13, <2>1, StartShape
  <2>2. CASE pc' # "updateCm"
    BY <1>3, <1>6, <1>13, <2>2, WhereTo DEF afterPush
  <2> QED BY <2>1, <2>2
<1>14. CASE WorkerStep
  <2>1. \/ pc' \notin afterPush \cup {"push", "unprojected"}
        \/ UpdateStatus \/ UpdateUnprojected \/ DeleteAllRbac
        \/ DeleteRbacFromUnmanaged \/ UpdateConfigMap \/ RestartPods \/ RuntimeRoles
        \/ \E n \in Namespace : Push(n) \/ Delete(n)
        \/ \E c \in CR : Start(c)
    BY <1>14, WhereTo DEF WorkerStep, afterPush
  <2> QED BY <1>3, <1>6, <1>7, <1>8, <1>9, <1>10, <1>11, <1>12, <1>13, <2>1
<1> QED BY <1>5, <1>14, TwoKinds

-----------------------------------------------------------------------------
(* What a withdrawal spares                                                *)

\* Nobody but the worker makes a scope claim a namespace, unless a scope is
\* renamed onto another ConfigMap.
LEMMA NoNewClaims ==
    ASSUME TypeOK, "rename" \notin UserOps, Bystanders, NEW n, NEW m
    PROVE  Claimed(n, m)' => Claimed(n, m)
<1>1. ASSUME NEW c \in CR, UserCreates(c) \/ UserEdits(c) \/ UserDeletes(c)
      PROVE  Claimed(n, m)' => Claimed(n, m)
  <2>1. \A d \in CR \ {c} : api'[d] = api[d]
    BY <1>1, UserShape
  <2>2. Claims(c, n, m)' => Claims(c, n, m)
    <3>1. \/ api'[c] = None \/ api'[c].validated = {}
          \/ /\ api[c] # None
             /\ api[c].deleting => api'[c].deleting
             /\ api'[c].validated = api[c].validated
             /\ setDefaults(api'[c]).cm = setDefaults(api[c]).cm
      BY <1>1, UserShape
    <3> QED BY <3>1 DEF Claims
  <2>3. \A d \in CR \ {c} : Claims(d, n, m)' => Claims(d, n, m)
    BY <2>1 DEF Claims
  <2> QED BY <2>2, <2>3 DEF Claimed
<1>2. CASE UNCHANGED api
  BY <1>2 DEF Claimed, Claims
<1>3. CASE \/ Informers
           \/ \E c \in CR : CsvControllerPatches(c)
           \/ \E x \in Namespace : NamespaceChanges(x) \/ AuthorizationChanges(x)
           \/ \E x \in ConfigMapName : CollectConfigMap(x)
           \/ UNCHANGED vars
  <2>1. UNCHANGED api
    BY <1>3 DEF Informers, CacheSync, CmSync, CsvControllerPatches,
       NamespaceChanges, AuthorizationChanges, CollectConfigMap, vars
  <2> QED BY <1>2, <2>1
<1> QED BY <1>1, <1>3 DEF Bystanders, Others, Environment

\* With caches that catch up, neither list of namespaces to visit holds one
\* that is claimed.
LEMMA WithdrawalSpares ==
    ASSUME TypeOK, CopiesInv, CmCopiesInv, ~CacheLag,
           DeleteRbacFromUnmanaged \/ DeleteAllRbac
    PROVE  /\ UNCHANGED <<api, inst>>
           /\ \A n \in todo' : ~Claimed(n, inst.cm)
<1>1. UNCHANGED <<api, inst>> /\ CaughtUp
  BY DEF DeleteRbacFromUnmanaged, DeleteAllRbac
<1>2. \A n \in todo' : n \notin getAllValidated(inst.cm)
  BY DEF DeleteRbacFromUnmanaged, DeleteAllRbac, Unmanaged, Loop
<1> QED BY <1>1, <1>2, ValidatedAreClaimed

LEMMA SparedNext ==
    ASSUME TypeOK, CopiesInv, CmCopiesInv, SparedInv, ~CacheLag,
           "rename" \notin UserOps, [Next]_vars
    PROVE  SparedInv'
<1>1. CASE Bystanders
  BY <1>1, BystandersShape, NoNewClaims DEF SparedInv
<1>2. CASE pc' # "delete"
  BY <1>2 DEF SparedInv
<1>3. CASE DeleteRbacFromUnmanaged \/ DeleteAllRbac
  <2>1. \A n : Claimed(n, inst.cm)' <=> Claimed(n, inst.cm)
    BY <1>3, WithdrawalSpares DEF Claimed, Claims
  <2> QED BY <1>3, <2>1, WithdrawalSpares DEF SparedInv
<1>4. ASSUME NEW n \in Namespace, Delete(n), pc' = "delete" PROVE SparedInv'
  <2>1. ~Fail
    BY <1>4, FailPath
  <2>2. pc = "delete" /\ UNCHANGED <<inst, api>> /\ todo' \subseteq todo
    BY <1>4, <2>1 DEF Delete, Loop
  <2>3. \A x : Claimed(x, inst.cm)' <=> Claimed(x, inst.cm)
    BY <2>2 DEF Claimed, Claims
  <2> QED BY <2>2, <2>3 DEF SparedInv
<1>5. CASE WorkerStep
  <2>1. \/ pc' # "delete" \/ DeleteAllRbac \/ DeleteRbacFromUnmanaged
        \/ \E n \in Namespace : Delete(n)
    BY <1>5, WhereTo DEF WorkerStep
  <2> QED BY <1>2, <1>3, <1>4, <2>1
<1> QED BY <1>1, <1>5, TwoKinds

LEMMA FanOutNext ==
    ASSUME TypeOK, FanOutInv, [Next]_vars PROVE FanOutInv'
<1>1. CASE Bystanders
  BY <1>1, BystandersShape DEF FanOutInv
<1>2. CASE pc' # "push"
  BY <1>2 DEF FanOutInv
<1>3. ASSUME UpdateStatus, pc' = "push" PROVE FanOutInv'
  BY <1>3, UpdateStatusShape, FailPath DEF FanOutInv
<1>4. ASSUME NEW n \in Namespace, Push(n) PROVE FanOutInv'
  BY <1>4 DEF Push, Loop, FanOutInv
<1>5. CASE WorkerStep
  <2>1. pc' # "push" \/ UpdateStatus \/ \E n \in Namespace : Push(n)
    BY <1>5, WhereTo DEF WorkerStep
  <2> QED BY <1>2, <1>3, <1>4, <2>1
<1> QED BY <1>1, <1>5, TwoKinds

-----------------------------------------------------------------------------
(* As long as nothing goes wrong and nothing is deleted                    *)

\* A scope comes into being with a new uid; it keeps its uid, and a deletion is
\* not taken back.
LEMMA ScopeSteps ==
    ASSUME TypeOK, CopiesInv, [Next]_vars, NEW c \in CR
    PROVE  /\ made[c] \in Nat
           /\ \/ made'[c] = made[c] + 1 /\ api[c] = None
              \/ /\ made'[c] = made[c]
                 /\ api'[c] # None =>
                       /\ api[c] # None /\ api'[c].uid = api[c].uid
                       /\ api[c].deleting => api'[c].deleting
<1> DEFINE Goal == \/ made'[c] = made[c] + 1 /\ api[c] = None
                   \/ /\ made'[c] = made[c]
                      /\ api'[c] # None =>
                            /\ api[c] # None /\ api'[c].uid = api[c].uid
                            /\ api[c].deleting => api'[c].deleting
<1>0. made[c] \in Nat
  BY DEF TypeOK, ScopesTypeOK
<1>1. UNCHANGED <<api, made>> => Goal
  OBVIOUS
<1>2. ASSUME UNCHANGED made, cur \in CR,
             NEW o, Store(cur, o),
             \/ o = None
             \/ api[cur] # None /\ o.uid = api[cur].uid /\ o.deleting = api[cur].deleting
      PROVE  Goal
  BY <1>2, StoreFacts
<1>3. ASSUME Idle \/ CacheSync \/ Crash \/ \E d \in CR : Start(d) PROVE Goal
  <2>1. UNCHANGED <<api, made>>
    BY <1>3, IdleShape DEF CacheSync, Crash, Start
  <2> QED BY <1>1, <2>1
<1>4. fresh => /\ api[cur] # None /\ api[cur].uid = inst.uid
               /\ api[cur].deleting = inst.deleting
  BY DEF CopiesInv
<1>5. AddFinalizer => Goal
  BY <1>1, <1>2, <1>4, AddFinalizerShape
<1>6. UpdateStatus => Goal
  BY <1>1, <1>2, <1>4, UpdateStatusShape
<1>7. UpdateUnprojected => Goal
  BY <1>1, <1>2, <1>4, UnprojectedShape
<1>8. ASSUME RemoveFinalizer PROVE Goal
  <2>1. UNCHANGED made /\ cur \in CR /\ (UNCHANGED api \/ Store(cur, None))
    BY <1>8 DEF RemoveFinalizer, TypeOK, WorkerTypeOK
  <2> QED BY <1>1, <1>2, <2>1
<1>9. ASSUME NEW d \in CR, UserCreates(d) \/ UserEdits(d) \/ UserDeletes(d)
      PROVE  Goal
  <2>1. CASE d = c
    BY <1>9, <2>1, UserShape
  <2>2. CASE d # c
    BY <1>9, <2>2, UserShape
  <2> QED BY <2>1, <2>2
<1>10. Goal
  BY <1>3, <1>5, <1>6, <1>7, <1>8, <1>9
     DEF Next, Reconcile, Informers, Environment, Idle
<1> QED BY <1>0, <1>10

\* What is quiet now was quiet before, and this step was none that disturbs.
LEMMA QuietBefore ==
    ASSUME TypeOK, CopiesInv, UidInv, [Next]_vars, Quiet'
    PROVE  /\ Quiet
           /\ \A max : ~Spend("fault", max) /\ ~Spend("ns", max)
           /\ ~CallFails /\ ~Crash
           /\ \A c \in CR : ~CsvControllerPatches(c) /\ ~UserDeletes(c)
           /\ \A n \in Namespace : ~NamespaceChanges(n) /\ ~AuthorizationChanges(n)
           /\ \A c \in CR : api[c] # None => made[c] = 1 /\ api[c].uid = 1
           /\ \A c \in CR : made'[c] # made[c] => made[c] = 0
<1>1. spent'["fault"] = 0 /\ spent'["ns"] = 0
  BY DEF Quiet, Undisturbed
<1>2. spent["fault"] = 0 /\ spent["ns"] = 0
  BY <1>1, SpentGrows
<1>3. \A max : ~Spend("fault", max) /\ ~Spend("ns", max)
  BY <1>1, <1>2 DEF Spend, TypeOK
<1>4. /\ ~CallFails /\ ~Crash
      /\ \A c \in CR : ~CsvControllerPatches(c)
      /\ \A n \in Namespace : ~NamespaceChanges(n) /\ ~AuthorizationChanges(n)
  BY <1>3 DEF CallFails, Crash, CsvControllerPatches, NamespaceChanges,
     AuthorizationChanges
<1>5. authorized = Namespace
  <2>1. WorkerStep => UNCHANGED authorized
    BY DEF WorkerStep, Start, AddFinalizer, UpdateStatus, UpdateUnprojected, Push,
       Delete, DeleteRbacFromUnmanaged, UpdateConfigMap, RestartPods, RuntimeRoles,
       Record, DeleteAllRbac, RemoveFinalizer, CallFails, Crash
  <2>2. Bystanders => UNCHANGED authorized
    BY <1>4 DEF Bystanders, Others, Informers, CacheSync, CmSync, Environment,
       UserCreates, UserEdits, UserDeletes, UserStores, CollectConfigMap, vars
  <2> QED BY <2>1, <2>2, TwoKinds DEF Quiet, Undisturbed
<1>6. \A c \in CR : made'[c] = 0 \/ (made'[c] = 1 /\ api'[c] # None /\ ~api'[c].deleting)
  BY DEF Quiet, Undisturbed
<1>7. \A c \in CR : made'[c] # made[c] => made[c] = 0
  BY <1>6, ScopeSteps
<1>8. \A c \in CR : made[c] = 0 \/ (made[c] = 1 /\ api[c] # None /\ ~api[c].deleting)
  BY <1>6, <1>7, ScopeSteps
<1>9. Quiet
  BY <1>2, <1>5, <1>8 DEF Quiet, Undisturbed
<1>10. \A c \in CR : api[c] # None => made[c] = 1 /\ api[c].uid = 1
  BY <1>8 DEF UidInv
<1>11. ASSUME NEW c \in CR, UserDeletes(c) PROVE FALSE
  <2>1. api[c] \in Scope /\ made'[c] = made[c]
    BY <1>11 DEF UserDeletes, TypeOK, ScopesTypeOK
  <2>2. made'[c] = 1
    BY <1>10, <1>11, <2>1 DEF UserDeletes
  <2>3. api'[c] # None /\ ~api'[c].deleting
    BY <1>6, <2>2
  <2>4. api'[c] = None \/ api'[c] = [api[c] EXCEPT !.deleting = TRUE]
    BY <1>11, StoreFacts DEF UserDeletes, UserStores
  <2>5. [api[c] EXCEPT !.deleting = TRUE].deleting
    BY <2>1 DEF Scope
  <2> QED BY <2>3, <2>4, <2>5
<1> QED BY <1>3, <1>4, <1>7, <1>9, <1>10, <1>11

\* A quiet step of a user: a new scope, or an edit that leaves alone what the
\* controller keeps.
LEMMA QuietUser ==
    ASSUME TypeOK, CopiesInv, UidInv, "rename" \notin UserOps, [Next]_vars, Quiet',
           NEW c \in CR, UserCreates(c) \/ UserEdits(c) \/ UserDeletes(c)
    PROVE  /\ UNCHANGED <<pc, cur, inst, todo, cms, role, binding, pushErr, missed>>
           /\ \A d \in CR \ {c} : api'[d] = api[d]
           /\ api'[c] # None /\ ~api'[c].deleting
           /\ \/ api[c] = None /\ api'[c].unprojected = {}
              \/ /\ api[c] # None /\ api'[c].uid = api[c].uid
                 /\ api'[c].validated = api[c].validated
                 /\ api'[c].unprojected = api[c].unprojected
                 /\ setDefaults(api'[c]).cm = setDefaults(api[c]).cm
<1>1. made[c] \in Nat /\ made'[c] # 0
  <2>1. made[c] \in Nat
    BY DEF TypeOK, ScopesTypeOK
  <2>2. CASE made'[c] = made[c] + 1
    BY <2>1, <2>2
  <2>3. CASE api[c] # None /\ made'[c] = made[c]
    BY <2>1, <2>3, QuietBefore
  <2> QED BY <2>1, <2>2, <2>3, UserShape
<1>2. api'[c] # None /\ ~api'[c].deleting
  BY <1>1 DEF Quiet, Undisturbed
<1> QED BY <1>2, UserShape

\* Where the operator has every right the goroutines of a push succeed.
LEMMA QuietPush ==
    ASSUME TypeOK, CopiesInv, UidInv, ProjectedInv, [Next]_vars, Quiet',
           NEW n \in Namespace, Push(n)
    PROVE  /\ ProjectRole(n) /\ ProjectBinding(n) /\ UNCHANGED <<pushErr, missed>>
           /\ UNCHANGED <<api, cms, cur, inst>> /\ pc = "push" /\ n \in todo
           /\ pc' \in {"push", "unprojected", "recordFailed", "deleteUnmanaged"}
<1>1. Quiet /\ \A max : ~Spend("fault", max)
  BY QuietBefore
<1>2. Accessible(n)
  BY <1>1 DEF Quiet, Undisturbed, ProjectedInv, Accessible
<1>3. ProjectRole(n) /\ ProjectBinding(n) /\ UNCHANGED <<pushErr, missed>>
  BY <1>1, <1>2 DEF Push
<1>4. UNCHANGED <<api, cms, cur, inst>> /\ pc = "push" /\ n \in todo
  BY DEF Push
<1> QED BY <1>3, <1>4, WhereTo

\* Nor does a deletion fail.
LEMMA QuietDelete ==
    ASSUME TypeOK, CopiesInv, UidInv, HandInv, [Next]_vars, Quiet',
           NEW n \in Namespace, Delete(n)
    PROVE  /\ UNCHANGED <<api, cms, cur, inst, pushErr, missed>>
           /\ binding' = DropLabel(binding, n) /\ role' = DropLabel(role, n)
           /\ pc = "delete" /\ todo' = todo \ {n}
           /\ pc' = IF todo' = {} THEN "updateCm" ELSE "delete"
<1>1. Quiet /\ \A max : ~Spend("fault", max)
  BY QuietBefore
<1>2. n \in authorized /\ ~inst.deleting /\ pc = "delete"
  BY <1>1 DEF Quiet, Undisturbed, HandInv, Delete
<1> QED BY <1>1, <1>2 DEF Delete, Loop

LEMMA HandNext ==
    ASSUME TypeOK, CopiesInv, PathInv, CmCopiesInv, UidInv, FreshInv, ProjectedInv,
           HandInv, ~CacheLag, "rename" \notin UserOps, [Next]_vars, Quiet'
    PROVE  HandInv'
<1>1. Quiet
  BY QuietBefore
<1>2. ASSUME UNCHANGED api, pushErr' = FALSE, missed' = {},
             pc' = "idle" \/ (pc # "idle" /\ UNCHANGED <<cur, inst>>)
      PROVE  HandInv'
  BY <1>2 DEF HandInv
<1>3. ASSUME UNCHANGED <<api, pc, cur, inst, pushErr, missed>> PROVE HandInv'
  BY <1>3 DEF HandInv
<1>4. ASSUME Fail, UNCHANGED api, pc # "idle" PROVE HandInv'
  <2>1. UNCHANGED <<cur, inst, pushErr, missed>>
    BY <1>4 DEF Fail, HandInv
  <2> QED BY <1>2, <1>4, <2>1 DEF HandInv
\* A store of the scope in hand.
<1>5. ASSUME cur \in CR, UNCHANGED <<cur, pushErr, missed>>, NEW o, Store(cur, o),
             inst'.deleting = inst.deleting, inst'.unprojected = {},
             o.unprojected = {}, o # None, o.validated = inst'.validated,
             setDefaults(o).cm = setDefaults(inst').cm, pc # "idle"
      PROVE  HandInv'
  <2>1. api'[cur] = o /\ \A d \in CR \ {cur} : api'[d] = api[d]
    BY <1>5, StoreFacts
  <2> QED BY <1>5, <2>1 DEF HandInv
<1>6. CASE AddFinalizer
  <2>1. CASE Fail /\ UNCHANGED api
    BY <1>4, <1>6, <2>1 DEF AddFinalizer
  <2>2. CASE ~(Fail /\ UNCHANGED api)
    <3>1. /\ Store(cur, inst') /\ cur \in CR /\ UNCHANGED <<cur, pushErr, missed>>
          /\ inst'.deleting = inst.deleting /\ inst'.unprojected = inst.unprojected
          /\ inst' # None /\ pc # "idle"
      BY <1>6, <2>2, AddFinalizerShape, NoneIsNoObject DEF AddFinalizer
    <3> QED BY <1>5, <3>1 DEF HandInv
  <2> QED BY <2>1, <2>2
<1>7. CASE UpdateStatus
  <2>1. CASE Fail /\ UNCHANGED api
    BY <1>4, <1>7, <2>1 DEF UpdateStatus
  <2>2. CASE ~(Fail /\ UNCHANGED api)
    <3>1. /\ cur \in CR /\ UNCHANGED <<cur, pushErr, missed>> /\ pc = "updateStatus"
          /\ inst'.deleting = inst.deleting /\ inst'.unprojected = inst.unprojected
          /\ inst'.cm = setDefaults(inst).cm /\ inst' \in Scope /\ inst \in Scope
      BY <1>7, <2>2, UpdateStatusShape
    <3>2. inst'.cm \in ConfigMapName /\ inst'.cm # None
      BY <3>1, SetDefaultsType
    <3>3. setDefaults(inst').cm = setDefaults(inst).cm
      BY <3>1, <3>2 DEF setDefaults
    <3>4. CASE UNCHANGED api /\ inst'.validated = inst.validated
      BY <3>1, <3>3, <3>4 DEF HandInv
    <3>5. ASSUME NEW o \in Scope, Store(cur, o), o.validated = inst'.validated,
                 o.unprojected = inst.unprojected,
                 setDefaults(o).cm = setDefaults(inst).cm
          PROVE  HandInv'
      BY <1>5, <3>1, <3>3, <3>5, NoneIsNoObject DEF HandInv
    <3> QED BY <1>7, <2>2, <3>4, <3>5, UpdateStatusShape
  <2> QED BY <2>1, <2>2
<1>8. CASE UpdateUnprojected
  <2>0. missed = {} /\ inst.unprojected = {} /\ pc # "idle"
    BY <1>8 DEF HandInv, UpdateUnprojected
  <2>1. /\ cur \in CR /\ UNCHANGED <<cur, pushErr, missed>> /\ pc' = "deleteUnmanaged"
        /\ inst'.deleting = inst.deleting /\ inst'.unprojected = missed
        /\ inst'.validated = inst.validated
        /\ inst'.cm = inst.cm /\ inst' \in Scope /\ inst \in Scope
    BY <1>8, <2>0, UnprojectedShape
  <2>2. setDefaults(inst').cm = setDefaults(inst).cm
    BY <2>1, SetDefaultsType DEF setDefaults, Scope
  <2>3. UNCHANGED api
    BY <1>8, <2>0 DEF UpdateUnprojected
  <2> QED BY <2>0, <2>1, <2>2, <2>3 DEF HandInv
<1>9. ASSUME NEW c \in CR, Start(c) PROVE HandInv'
  <2>1. UNCHANGED <<api, pushErr, missed>> /\ cache[c] = api[c] /\ pc = "idle"
    BY <1>9, StartShape, CachesAreCurrent
  <2>2. CASE UNCHANGED <<pc, cur, inst, fresh>>
    BY <1>3, <2>1, <2>2
  <2>3. CASE ~UNCHANGED <<pc, cur, inst, fresh>>
    <3>1. /\ cache[c] # None /\ cur' = c
          /\ inst'.validated = cache[c].validated
          /\ inst'.unprojected = cache[c].unprojected
          /\ inst'.deleting = cache[c].deleting
          /\ setDefaults(inst').cm = setDefaults(cache[c]).cm
      BY <1>9, <2>3, StartShape
    <3>2. ~api[c].deleting
      <4>1. made[c] = 1
        BY <2>1, <3>1, QuietBefore
      <4> QED BY <1>1, <4>1 DEF Quiet, Undisturbed
    <3>3. api[c].unprojected = {}
      BY <2>1, <3>1 DEF HandInv
    <3>4. \A d \in CR : api'[d] # None => api'[d].unprojected = {}
      BY <2>1 DEF HandInv
    <3>5. pushErr' = FALSE /\ missed' = {}
      BY <2>1 DEF HandInv
    <3>6. /\ ~inst'.deleting /\ inst'.unprojected = {} /\ api'[cur'] # None
          /\ inst'.validated = api'[cur'].validated
          /\ setDefaults(inst').cm = setDefaults(api'[cur']).cm
      BY <2>1, <3>1, <3>2, <3>3
    <3> QED BY <3>4, <3>5, <3>6 DEF HandInv
  <2> QED BY <2>2, <2>3
<1>10. ASSUME NEW n \in Namespace, Push(n) PROVE HandInv'
  BY <1>2, <1>10, QuietPush DEF HandInv
<1>11. ASSUME NEW n \in Namespace, Delete(n) PROVE HandInv'
  <2>1. UNCHANGED <<api, cur, inst, pushErr, missed>> /\ pc # "idle"
    BY <1>11, QuietDelete
  <2> QED BY <1>2, <2>1 DEF HandInv
<1>12. CASE DeleteRbacFromUnmanaged \/ RestartPods \/ RuntimeRoles
  <2>1. UNCHANGED <<api, cur, inst, pushErr, missed>> /\ pc # "idle"
    BY <1>12 DEF DeleteRbacFromUnmanaged, RestartPods, RuntimeRoles
  <2> QED BY <1>2, <2>1 DEF HandInv
<1>13. CASE UpdateConfigMap
  <2>1. UNCHANGED api /\ pc # "idle"
    BY <1>13, UpdateConfigMapShape
  <2>2. Fail \/ UNCHANGED <<cur, inst, pushErr, missed>>
    BY <1>13, UpdateConfigMapShape
  <2> QED BY <1>2, <1>4, <2>1, <2>2 DEF HandInv
<1>14. CASE Record
  BY <1>2, <1>14 DEF Record, Return
<1>15. ~DeleteAllRbac /\ ~RemoveFinalizer
  BY DEF DeleteAllRbac, RemoveFinalizer, PathInv, HandInv
<1>16. ASSUME NEW c \in CR, UserCreates(c) \/ UserEdits(c) \/ UserDeletes(c)
       PROVE  HandInv'
  <2>1. \A d \in CR : api'[d] # None => api'[d].unprojected = {}
    BY <1>16, QuietUser DEF HandInv
  <2>2. UNCHANGED <<pc, cur, inst, pushErr, missed>>
    BY <1>16, QuietUser
  <2>3. pc # "idle" => /\ api'[cur] # None /\ inst.validated = api'[cur].validated
                       /\ setDefaults(inst).cm = setDefaults(api'[cur]).cm
    <3>1. CASE cur = c
      BY <1>16, <3>1, QuietUser DEF HandInv
    <3>2. CASE cur # c
      BY <1>16, <3>2, QuietUser DEF HandInv, TypeOK, WorkerTypeOK
    <3> QED BY <3>1, <3>2
  <2> QED BY <2>1, <2>2, <2>3 DEF HandInv
<1>17. ASSUME \/ CacheSync \/ CmSync
              \/ \E m \in ConfigMapName : CollectConfigMap(m)
              \/ UNCHANGED vars
       PROVE  HandInv'
  <2>1. UNCHANGED <<api, pc, cur, inst, pushErr, missed>>
    BY <1>17 DEF CacheSync, CmSync, CollectConfigMap, vars
  <2> QED BY <1>3, <2>1
<1> QED BY <1>6, <1>7, <1>8, <1>9, <1>10, <1>11, <1>12, <1>13, <1>14, <1>15, <1>16,
           <1>17, QuietBefore DEF Next, Reconcile, Informers, Environment

LEMMA OwnedNext ==
    ASSUME TypeOK, CopiesInv, UidInv, HandInv, OwnedInv, [Next]_vars, Quiet'
    PROVE  OwnedInv'
\* A scope that exists goes on existing under its uid.
<1>1. \A c \in CR : api[c] # None => api'[c] # None /\ api'[c].uid = api[c].uid
  <2>1. ASSUME NEW c \in CR, api[c] # None
        PROVE  api'[c] # None /\ api'[c].uid = api[c].uid
    <3>1. made[c] = 1 /\ made'[c] = 1
      BY <2>1, QuietBefore, ScopeSteps
    <3>2. api'[c] # None
      BY <3>1 DEF Quiet, Undisturbed
    <3> QED BY <2>1, <3>2, ScopeSteps
  <2> QED BY <2>1
<1>2. \A m \in ConfigMapName : cms[m] # None =>
         \E r \in cms[m].owners : api'[r[1]] # None /\ api'[r[1]].uid = r[2]
  <2>1. ASSUME NEW m \in ConfigMapName, cms[m] # None
        PROVE  \E r \in cms[m].owners : api'[r[1]] # None /\ api'[r[1]].uid = r[2]
    <3>1. PICK r \in cms[m].owners : api[r[1]] # None /\ api[r[1]].uid = r[2]
      BY <2>1 DEF OwnedInv
    <3>2. r \in CR \X Nat
      BY <2>1, <3>1 DEF TypeOK, ConfigMapsTypeOK, ConfigMap
    <3>3. r[1] \in CR
      BY <3>2
    <3> QED BY <1>1, <3>1, <3>3
  <2> QED BY <2>1
<1>3. UNCHANGED cms => OwnedInv'
  BY <1>2 DEF OwnedInv
<1>4. CASE UpdateConfigMap
  <2>1. ASSUME NEW o \in ConfigMap, StoreCm(inst.cm, o), <<cur, inst.uid>> \in o.owners
        PROVE  OwnedInv'
    <3>1. cur \in CR /\ inst \in Scope /\ pc # "idle"
      BY <1>4, UpdateConfigMapShape
    <3>2. api[cur] # None /\ api[cur].uid = 1 /\ made[cur] = 1
      BY <3>1, QuietBefore DEF HandInv
    <3>3. inst.uid = 1
      BY <3>1, <3>2 DEF UidInv, Scope
    <3>4. api'[cur] # None /\ api'[cur].uid = inst.uid
      BY <1>1, <3>1, <3>2, <3>3
    <3>5. \E r \in o.owners : api'[r[1]] # None /\ api'[r[1]].uid = r[2]
      <4> DEFINE me == <<cur, inst.uid>>
      <4>1. me[1] = cur /\ me[2] = inst.uid /\ me \in o.owners
        BY <2>1
      <4> HIDE DEF me
      <4> QED BY <3>4, <4>1
    <3>6. \A m \in ConfigMapName : cms'[m] = IF m = inst.cm THEN o ELSE cms[m]
      BY <2>1 DEF StoreCm, TypeOK, ConfigMapsTypeOK
    <3> QED BY <1>2, <3>5, <3>6 DEF OwnedInv
  <2> QED BY <1>3, <1>4, <2>1, UpdateConfigMapShape
<1>5. \A m \in ConfigMapName : ~CollectConfigMap(m)
  BY DEF OwnedInv, CollectConfigMap
<1>6. CASE WorkerStep
  <2>1. UNCHANGED cms \/ UpdateConfigMap
    BY <1>6 DEF WorkerStep, Start, AddFinalizer, UpdateStatus, UpdateUnprojected,
       Push, Delete, DeleteRbacFromUnmanaged, RestartPods, RuntimeRoles, Record,
       DeleteAllRbac, RemoveFinalizer, CallFails, Crash
  <2> QED BY <1>3, <1>4, <2>1
<1>7. CASE Bystanders
  <2>1. UNCHANGED cms
    BY <1>5, <1>7 DEF Bystanders, Others, Informers, CacheSync, CmSync, Environment,
       UserCreates, UserEdits, UserDeletes, UserStores, CsvControllerPatches,
       NamespaceChanges, AuthorizationChanges, vars
  <2> QED BY <1>3, <2>1
<1> QED BY <1>6, <1>7, TwoKinds

\* In a quiet step the claims of the scopes stay, but where UpdateStatus
\* validates a scope anew.
LEMMA ClaimsStay ==
    ASSUME TypeOK, CopiesInv, UidInv, "rename" \notin UserOps, [Next]_vars, Quiet',
           Bystanders, NEW n, NEW m
    PROVE  Claimed(n, m) => Claimed(n, m)'
<1>1. ASSUME NEW c \in CR, UserCreates(c) \/ UserEdits(c) \/ UserDeletes(c)
      PROVE  Claimed(n, m) => Claimed(n, m)'
  <2>1. \A d \in CR : Claims(d, n, m) => Claims(d, n, m)'
    BY <1>1, QuietUser DEF Claims
  <2> QED BY <2>1 DEF Claimed
<1>2. CASE UNCHANGED api
  BY <1>2 DEF Claimed, Claims
<1>3. CASE \/ Informers
           \/ \E c \in CR : CsvControllerPatches(c)
           \/ \E x \in Namespace : NamespaceChanges(x) \/ AuthorizationChanges(x)
           \/ \E x \in ConfigMapName : CollectConfigMap(x)
           \/ UNCHANGED vars
  <2>1. UNCHANGED api
    BY <1>3 DEF Informers, CacheSync, CmSync, CsvControllerPatches,
       NamespaceChanges, AuthorizationChanges, CollectConfigMap, vars
  <2> QED BY <1>2, <2>1
<1> QED BY <1>1, <1>3 DEF Bystanders, Others, Environment

\* The scope in hand claims what its copy has validated.
LEMMA HandClaims ==
    ASSUME TypeOK, UidInv, HandInv, Quiet, pc \in afterDefaults
    PROVE  \A n \in inst.validated : Claimed(n, inst.cm)
<1>1. pc # "idle" /\ inst.cm # None /\ cur \in CR
  BY DEF TypeOK, WorkerTypeOK, afterDefaults
<1>2. setDefaults(inst).cm = inst.cm
  BY <1>1 DEF setDefaults
<1>3. /\ api[cur] # None /\ setDefaults(api[cur]).cm = inst.cm
      /\ inst.validated = api[cur].validated
  BY <1>1, <1>2 DEF HandInv
<1>4. ~api[cur].deleting
  <2>1. made[cur] = 0 \/ ~api[cur].deleting
    BY <1>1 DEF Quiet, Undisturbed
  <2> QED BY <1>1, <1>3, <2>1 DEF UidInv
<1> QED BY <1>1, <1>3, <1>4 DEF Claimed, Claims

\* The invariants a quiet step starts from.
Kept == /\ RecordsKeptInv /\ Quiet /\ Quiet'
        /\ ~CacheLag /\ "rename" \notin UserOps

LEMMA KeptFacts ==
    ASSUME Kept
    PROVE  /\ TypeOK /\ CopiesInv /\ PathInv /\ CmCopiesInv /\ FreshInv /\ UidInv
           /\ ProjectedInv /\ FanOutInv /\ HandInv /\ OwnedInv
           /\ Traced(role) /\ Traced(binding)
           /\ ~CacheLag /\ "rename" \notin UserOps /\ Quiet /\ Quiet'
BY DEF Kept, RecordsKeptInv, IInv, RecordsInv, ServedInv, KeptInv, QuietInv

\* A goroutine of a push leaves its object on record in the hands of the worker.
LEMMA FollowedPush ==
    ASSUME Kept, [Next]_vars, NEW x \in Namespace, Push(x),
           NEW n \in Namespace, NEW m \in ConfigMapName,
           Followed(n, m) \/ (n = x /\ m = inst.cm)
    PROVE  Followed(n, m)'
<1>1. /\ UNCHANGED <<cms, inst>> /\ pc = "push" /\ x \in todo /\ pushErr' = FALSE
  BY KeptFacts, QuietPush DEF HandInv
<1>2. pc' \in {"push", "unprojected", "deleteUnmanaged"}
  BY <1>1 DEF Push, Loop, AfterPush
<1>3. x \in inst.validated \ {OperatorNs}
  BY <1>1, KeptFacts DEF FanOutInv
<1> QED BY <1>1, <1>2, <1>3 DEF Followed, OnRecord

\* A deletion takes objects away only where the list may lose their namespace.
LEMMA FollowedDelete ==
    ASSUME Kept, [Next]_vars, NEW x \in Namespace, Delete(x),
           NEW n \in Namespace, NEW m \in ConfigMapName,
           Followed(n, m), ~(n = x /\ m = inst.cm)
    PROVE  Followed(n, m)'
<1>1. /\ UNCHANGED <<api, cms, inst>> /\ pc = "delete" /\ todo' = todo \ {x}
      /\ pc' = IF todo' = {} THEN "updateCm" ELSE "delete"
  BY KeptFacts, QuietDelete
<1>2. Claimed(n, m)' <=> Claimed(n, m)
  BY <1>1 DEF Claimed, Claims
<1>3. OnRecord(n, m)'
  BY <1>1 DEF Followed, OnRecord
<1>4. m = inst.cm => Claimed(n, m) \/ n \in todo
  BY <1>1 DEF Followed
<1> QED BY <1>1, <1>2, <1>3, <1>4 DEF Followed

\* What the list is about to lose is exactly what is visited first.
LEMMA FollowedUnmanaged ==
    ASSUME Kept, DeleteRbacFromUnmanaged,
           NEW n \in Namespace, NEW m \in ConfigMapName, Followed(n, m)
    PROVE  Followed(n, m)'
<1>1. /\ pc = "deleteUnmanaged" /\ CaughtUp /\ UNCHANGED <<api, cms, inst>>
      /\ todo' = Unmanaged(inst.cm) \ {OperatorNs}
      /\ pc' = IF todo' = {} THEN "updateCm" ELSE "delete"
  BY DEF DeleteRbacFromUnmanaged, Loop
<1>2. Claimed(n, m)' <=> Claimed(n, m)
  BY <1>1 DEF Claimed, Claims
<1>3. OnRecord(n, m)' /\ n # OperatorNs
  BY <1>1 DEF Followed, OnRecord
<1>4. ASSUME m = inst.cm, ~Claimed(n, m) PROVE n \in todo'
  <2>1. n \notin inst.validated
    BY <1>1, <1>4, KeptFacts, HandClaims DEF afterDefaults
  <2>2. cms[m] # None /\ n \in cms[m].names
    BY <1>4, <2>1 DEF Followed, OnRecord
  <2>3. cmCache[m] = cms[m]
    BY <1>1, KeptFacts, CachesAreCurrent
  <2>4. n \notin getAllValidated(m)
    BY <1>1, <1>4, KeptFacts, ValidatedAreClaimed
  <2> QED BY <1>1, <1>3, <1>4, <2>2, <2>3, <2>4 DEF Unmanaged
<1> QED BY <1>1, <1>2, <1>3, <1>4 DEF Followed

\* The list that is written holds every claim, hence every object left.
LEMMA FollowedUpdateConfigMap ==
    ASSUME Kept, UpdateConfigMap,
           NEW n \in Namespace, NEW m \in ConfigMapName, Followed(n, m)
    PROVE  Followed(n, m)'
<1>1. pc = "updateCm" /\ CaughtUp /\ inst.cm \in ConfigMapName /\ ~inst.deleting
  BY KeptFacts, UpdateConfigMapShape DEF HandInv
<1>2. cmLag = {} /\ cmCache[inst.cm] = cms[inst.cm]
  BY <1>1, KeptFacts, CachesAreCurrent
<1>3. /\ pc' \in {"restart", "runtime"}
      /\ \/ /\ UNCHANGED cms /\ cmCache[inst.cm] # None
            /\ cmCache[inst.cm].names = getAllValidated(inst.cm)
         \/ \E o \in ConfigMap :
               StoreCm(inst.cm, o) /\ o.names = getAllValidated(inst.cm)
  BY <1>1, <1>2, KeptFacts, UpdateConfigMapShape
<1>4. /\ cms'[inst.cm] # None /\ cms'[inst.cm].names = getAllValidated(inst.cm)
      /\ m # inst.cm => cms'[m] = cms[m]
  BY <1>1, <1>2, <1>3, KeptFacts, NoneIsNoObject
     DEF StoreCm, TypeOK, ConfigMapsTypeOK
<1>5. cms'[m] # None /\ n \in cms'[m].names
  <2>1. CASE m = inst.cm
    <3>1. Claimed(n, m)
      BY <1>1, <2>1 DEF Followed
    <3> QED BY <1>1, <1>4, <2>1, <3>1, KeptFacts, ValidatedAreClaimed
  <2>2. CASE m # inst.cm
    BY <1>4, <2>2 DEF Followed, OnRecord
  <2> QED BY <2>1, <2>2
<1> QED BY <1>3, <1>5 DEF Followed, OnRecord

LEMMA FollowedNext ==
    ASSUME Kept, HandInv', [Next]_vars,
           NEW n \in Namespace, NEW m \in ConfigMapName,
           \/ Followed(n, m) /\ ~(Delete(n) /\ m = inst.cm)
           \/ Push(n) /\ m = inst.cm
    PROVE  Followed(n, m)'
<1> DEFINE Lists == {"push", "unprojected", "deleteUnmanaged", "delete", "updateCm"}
<1>1. ASSUME NEW x \in Namespace, Push(x) PROVE Followed(n, m)'
  <2>1. Followed(n, m) \/ (Push(n) /\ m = inst.cm)
    OBVIOUS
  <2>2. CASE Followed(n, m)
    BY <1>1, <2>2, FollowedPush
  <2>3. CASE Push(n) /\ m = inst.cm
    BY <2>3, FollowedPush
  <2> QED BY <2>1, <2>2, <2>3
<1>2. SUFFICES ASSUME \A x \in Namespace : ~Push(x), Followed(n, m),
                      ~(Delete(n) /\ m = inst.cm)
               PROVE  Followed(n, m)'
  BY <1>1
<1>3. ASSUME NEW x \in Namespace, Delete(x) PROVE Followed(n, m)'
  <2>1. ~(n = x /\ m = inst.cm)
    BY <1>2, <1>3
  <2> QED BY <1>2, <1>3, <2>1, FollowedDelete
<1>4. DeleteRbacFromUnmanaged \/ UpdateConfigMap => Followed(n, m)'
  BY <1>2, FollowedUnmanaged, FollowedUpdateConfigMap
\* Steps at which only the stored list counts.
<1>5. ASSUME UNCHANGED cms, pc \notin Lists, pc' \notin {"delete", "updateCm"}
      PROVE  Followed(n, m)'
  BY <1>2, <1>5 DEF Followed, OnRecord
<1>6. ASSUME NEW c \in CR, Start(c) PROVE Followed(n, m)'
  <2>1. UNCHANGED cms /\ pc = "idle"
    BY <1>6, KeptFacts, StartShape
  <2>2. pc' \notin {"delete", "updateCm"}
    BY <1>6, <2>1, KeptFacts, StartShape DEF HandInv
  <2> QED BY <1>5, <2>1, <2>2
<1>7. CASE AddFinalizer \/ UpdateStatus \/ RestartPods \/ RuntimeRoles \/ Record
  <2>1. UNCHANGED cms /\ pc \notin Lists
    BY <1>7 DEF AddFinalizer, UpdateStatus, RestartPods, RuntimeRoles, Record
  <2>2. pc' \notin {"delete", "updateCm"}
    BY <1>7, WhereTo
  <2> QED BY <1>5, <2>1, <2>2
<1>8. CASE UpdateUnprojected
  <2>1. missed = inst.unprojected /\ pc = "unprojected" /\ UNCHANGED cms
    BY <1>8, KeptFacts DEF UpdateUnprojected, HandInv
  <2>2. /\ pc' = "deleteUnmanaged" /\ inst'.cm = inst.cm
        /\ inst'.validated = inst.validated
    BY <1>8, <2>1, KeptFacts, UnprojectedShape
  <2> QED BY <1>2, <2>1, <2>2 DEF Followed, OnRecord
<1>9. ~DeleteAllRbac /\ ~RemoveFinalizer /\ ~CallFails /\ ~Crash
  BY KeptFacts, QuietBefore DEF DeleteAllRbac, RemoveFinalizer, PathInv, HandInv
<1>10. CASE Bystanders
  <2>1. UNCHANGED <<pc, inst, todo>>
    BY <1>10, BystandersShape
  <2>2. UNCHANGED cms
    <3>1. \A x \in ConfigMapName : ~CollectConfigMap(x)
      BY KeptFacts DEF OwnedInv, CollectConfigMap
    <3> QED BY <1>10, <3>1 DEF Bystanders, Others, Informers, CacheSync, CmSync,
            Environment, UserCreates, UserEdits, UserDeletes, UserStores,
            CsvControllerPatches, NamespaceChanges, AuthorizationChanges, vars
  <2>3. Claimed(n, m) => Claimed(n, m)'
    BY <1>10, KeptFacts, ClaimsStay
  <2> QED BY <1>2, <2>1, <2>2, <2>3 DEF Followed, OnRecord
<1> QED BY <1>2, <1>3, <1>4, <1>6, <1>7, <1>8, <1>9, <1>10, TwoKinds DEF WorkerStep

\* A goroutine of a push only adds its label.
LEMMA PushAdds ==
    ASSUME TypeOK, NEW x \in Namespace, Push(x)
    PROVE  /\ inst.cm # None
           /\ \A n \in Namespace :
                 /\ role'[n] \in {role[n], inst.cm}
                 /\ binding'[n] \in {binding[n], inst.cm}
                 /\ binding[n] # None => binding'[n] = binding[n]
                 /\ n # x => role'[n] = role[n] /\ binding'[n] = binding[n]
<1>1. inst.cm # None
  BY DEF Push, TypeOK, WorkerTypeOK, afterDefaults
<1>2. /\ ProjectRole(x) \/ UNCHANGED role
      /\ ProjectBinding(x) \/ UNCHANGED binding
  BY DEF Push
<1>3. ASSUME NEW n \in Namespace
      PROVE  /\ role'[n] \in {role[n], inst.cm}
             /\ n # x => role'[n] = role[n]
  BY <1>2 DEF ProjectRole, TypeOK, NamespacesTypeOK
<1>4. ASSUME NEW n \in Namespace
      PROVE  /\ binding'[n] \in {binding[n], inst.cm}
             /\ binding[n] # None => binding'[n] = binding[n]
             /\ n # x => binding'[n] = binding[n]
  BY <1>2 DEF ProjectBinding, TypeOK, NamespacesTypeOK
<1> QED BY <1>1, <1>3, <1>4

\* In a quiet step an object is found as it was, unless a push left it there.
LEMMA QuietRbac ==
    ASSUME Kept, [Next]_vars, NEW n \in Namespace
    PROVE  /\ role'[n] # None =>
                 \/ role'[n] = role[n] /\ ~(Delete(n) /\ role[n] = inst.cm)
                 \/ Push(n) /\ role'[n] = inst.cm
           /\ binding'[n] # None =>
                 \/ binding'[n] = binding[n] /\ ~(Delete(n) /\ binding[n] = inst.cm)
                 \/ Push(n) /\ binding'[n] = inst.cm
<1>0. role[n] = role[n] /\ TypeOK
  BY KeptFacts
<1>1. CASE Push(n)
  <2>1. ~Delete(n)
    BY <1>1 DEF Push, Delete
  <2> QED BY <1>0, <1>1, <2>1, PushAdds
<1>2. ASSUME NEW x \in Namespace \ {n}, Push(x) \/ Delete(x)
      PROVE  role'[n] = role[n] /\ binding'[n] = binding[n]
  BY <1>0, <1>2, PushAdds, DeleteElsewhere
<1>3. CASE Delete(n)
  <2>1. binding' = DropLabel(binding, n) /\ role' = DropLabel(role, n)
    BY <1>3, KeptFacts, QuietDelete
  <2> QED BY <1>0, <2>1 DEF DropLabel, TypeOK, NamespacesTypeOK
<1>4. CASE ~\E x \in Namespace : Push(x) \/ Delete(x)
  <2>1. WorkerStep => UNCHANGED <<role, binding>>
    BY <1>4, WorkerKeepsRbac
  <2>2. Bystanders => UNCHANGED <<role, binding>>
    <3>1. \A x \in Namespace : ~NamespaceChanges(x)
      BY KeptFacts, QuietBefore
    <3> QED BY <1>0, <3>1, BystandersKeepRbac
  <2> QED BY <1>4, <2>1, <2>2, TwoKinds
<1>5. CASE ~Delete(n) /\ ~Push(n) /\ \E x \in Namespace : Push(x) \/ Delete(x)
  BY <1>2, <1>5
<1> QED BY <1>1, <1>3, <1>4, <1>5

LEMMA QuietNext ==
    ASSUME RecordsKeptInv, ~CacheLag, "rename" \notin UserOps, [Next]_vars
    PROVE  QuietInv'
<1>1. SUFFICES ASSUME Quiet' PROVE (HandInv /\ OwnedInv /\ Traced(role) /\ Traced(binding))'
  BY DEF QuietInv
<1>2. Kept
  BY <1>1, QuietBefore DEF Kept, RecordsKeptInv, IInv, RecordsInv
<1>3. HandInv' /\ OwnedInv'
  BY <1>2, KeptFacts, HandNext, OwnedNext
<1>4. \A n \in Namespace : /\ role'[n] \in ConfigMapName \cup {None}
                           /\ binding'[n] \in ConfigMapName \cup {None}
  <2>1. TypeOK'
    BY <1>2, KeptFacts, TypeNext
  <2> QED BY <2>1 DEF TypeOK, NamespacesTypeOK
<1>5. ASSUME NEW n \in Namespace, NEW m \in ConfigMapName, role'[n] = m, m # None
      PROVE  Followed(n, m)'
  <2>1. CASE role[n] = m /\ ~(Delete(n) /\ m = inst.cm)
    <3>1. Followed(n, m)
      BY <1>2, <1>5, <2>1, KeptFacts DEF Traced
    <3> QED BY <1>2, <1>3, <2>1, <3>1, FollowedNext
  <2>2. CASE Push(n) /\ m = inst.cm
    BY <1>2, <1>3, <2>2, FollowedNext
  <2> QED BY <1>2, <1>5, <2>1, <2>2, QuietRbac
<1>6. ASSUME NEW n \in Namespace, NEW m \in ConfigMapName, binding'[n] = m, m # None
      PROVE  Followed(n, m)'
  <2>1. CASE binding[n] = m /\ ~(Delete(n) /\ m = inst.cm)
    <3>1. Followed(n, m)
      BY <1>2, <1>6, <2>1, KeptFacts DEF Traced
    <3> QED BY <1>2, <1>3, <2>1, <3>1, FollowedNext
  <2>2. CASE Push(n) /\ m = inst.cm
    BY <1>2, <1>3, <2>2, FollowedNext
  <2> QED BY <1>2, <1>6, <2>1, <2>2, QuietRbac
<1>7. Traced(role)'
  <2>1. ASSUME NEW n \in Namespace, role'[n] # None PROVE Followed(n, role[n])'
    <3>1. PICK m \in ConfigMapName : m = role'[n]
      BY <1>4, <2>1
    <3>2. Followed(n, m)'
      BY <1>5, <2>1, <3>1
    <3> QED BY <3>1, <3>2 DEF Followed, OnRecord, Claimed, Claims
  <2> QED BY <2>1 DEF Traced
<1>8. Traced(binding)'
  <2>1. ASSUME NEW n \in Namespace, binding'[n] # None PROVE Followed(n, binding[n])'
    <3>1. PICK m \in ConfigMapName : m = binding'[n]
      BY <1>4, <2>1
    <3>2. Followed(n, m)'
      BY <1>6, <2>1, <3>1
    <3> QED BY <3>1, <3>2 DEF Followed, OnRecord, Claimed, Claims
  <2> QED BY <2>1 DEF Traced
<1> QED BY <1>3, <1>7, <1>8

-----------------------------------------------------------------------------
(* The theorems                                                            *)

LEMMA RecordsInit == Init => RecordsInv
<1> SUFFICES ASSUME Init PROVE RecordsInv
  OBVIOUS
<1>1. CmCopiesInv /\ FreshInv
  BY DEF Init, CmCopiesInv, FreshInv
<1>2. UidInv
  BY DEF Init, UidInv
<1> QED BY <1>1, <1>2 DEF RecordsInv

LEMMA ServedInit == Init => ServedInv
<1> SUFFICES ASSUME Init PROVE ServedInv
  OBVIOUS
<1>1. pc = "idle" /\ \A n \in Namespace : nsPhase[n] = "Active"
  BY DEF Init
<1> QED BY <1>1 DEF ServedInv, WithdrawInv, ProjectedInv, ListedInv, FanOutInv, afterPush

LEMMA KeptInit == Init => KeptInv
<1> SUFFICES ASSUME Init PROVE KeptInv
  OBVIOUS
<1>1. HandInv /\ OwnedInv /\ Traced(role) /\ Traced(binding)
  BY DEF Init, HandInv, OwnedInv, Traced
<1>2. SparedInv
  BY DEF Init, SparedInv
<1> QED BY <1>1, <1>2 DEF KeptInv, QuietInv

LEMMA RecordsNext == IInv /\ RecordsInv /\ [Next]_vars => RecordsInv'
BY CmCopiesNext, FreshNext, UidNext DEF IInv, RecordsInv

LEMMA ServedNext ==
    ASSUME ~CacheLag
    PROVE  IInv /\ RecordsInv /\ ServedInv /\ [Next]_vars => ServedInv'
BY WithdrawNext, ProjectedNext, ListedNext, FanOutNext DEF IInv, RecordsInv, ServedInv

LEMMA KeptNext ==
    ASSUME ~CacheLag, "rename" \notin UserOps
    PROVE  RecordsKeptInv /\ [Next]_vars => KeptInv'
BY SparedNext, QuietNext DEF RecordsKeptInv, IInv, RecordsInv, KeptInv

\* Whatever the informers' lag, the users and the failures: the copies in the
\* hands of the worker and in the caches carry uids that were given, and, while
\* fresh, the validated members that are stored.
THEOREM RecordsCorrect == Spec => []RecordsInv
<1>1. Init => IInv /\ RecordsInv
  BY IInvInit, RecordsInit
<1>2. (IInv /\ RecordsInv) /\ [Next]_vars => (IInv /\ RecordsInv)'
  BY IInvNext, RecordsNext
<1> QED BY <1>1, <1>2, PTL DEF Spec

\* With caches that catch up before each call, every step keeps what a
\* reconcile has achieved so far: what it withdraws, projects and lists.
THEOREM ServedCorrect ==
    ASSUME ~CacheLag PROVE Spec => [](IInv /\ RecordsInv /\ ServedInv)
<1>1. Init => IInv /\ RecordsInv /\ ServedInv
  BY IInvInit, RecordsInit, ServedInit
<1>2. (IInv /\ RecordsInv /\ ServedInv) /\ [Next]_vars => (IInv /\ RecordsInv /\ ServedInv)'
  BY IInvNext, RecordsNext, ServedNext
<1> QED BY <1>1, <1>2, PTL DEF Spec

\* A reconcile is recorded as Completed only with a Role and a RoleBinding in
\* each of its validated members (recordOperationTimingAndStatus), however many
\* scopes share the namespaces and whatever failed before, until a namespace
\* has had the time to go.
THEOREM CompletedIsProjected ==
    ASSUME ~CacheLag PROVE Spec => [](spent["ns"] < 2 => CompletedMeansProjected)
<1>1. IInv /\ RecordsInv /\ ServedInv => (spent["ns"] < 2 => CompletedMeansProjected)
  BY DEF IInv, PathInv, ServedInv, ProjectedInv, Projected, afterPush,
     CompletedMeansProjected
<1> QED BY <1>1, ServedCorrect, PTL

\* ... and only with these members in the ConfigMap, and the scope among its
\* owners (UpdateConfigMap), whatever the users and the garbage collector do.
THEOREM CompletedIsListed ==
    ASSUME ~CacheLag PROVE Spec => []CompletedMeansListed
<1>1. IInv /\ RecordsInv /\ ServedInv => CompletedMeansListed
  BY DEF IInv, PathInv, ServedInv, ListedInv, CompletedMeansListed
<1> QED BY <1>1, ServedCorrect, PTL

\* All of it is kept when no scope moves to another ConfigMap.
THEOREM KeptCorrect ==
    ASSUME ~CacheLag, "rename" \notin UserOps PROVE Spec => []RecordsKeptInv
<1>1. Init => RecordsKeptInv
  BY IInvInit, RecordsInit, ServedInit, KeptInit DEF RecordsKeptInv
<1>2. RecordsKeptInv /\ [Next]_vars => RecordsKeptInv'
  BY IInvNext, RecordsNext, ServedNext, KeptNext DEF RecordsKeptInv
<1> QED BY <1>1, <1>2, PTL DEF Spec

LEMMA SharedStep ==
    ASSUME TypeOK, SparedInv, [Next]_vars, nsPhase' = nsPhase, NEW n \in Namespace
    PROVE  /\ role'[n] = None => ~\E c \in CR : Claims(c, n, role[n])
           /\ binding'[n] = None => ~\E c \in CR : Claims(c, n, binding[n])
<1>1. ~\E c \in CR : Claims(c, n, None)
  BY SetDefaultsType DEF Claims, TypeOK, ScopesTypeOK
<1>2. CASE UNCHANGED <<role, binding>>
  BY <1>1, <1>2
<1>3. ASSUME NEW x \in Namespace, Push(x)
      PROVE  /\ role'[n] = None => role[n] = None
             /\ binding'[n] = None => binding[n] = None
  BY <1>3, PushAdds
<1>4. ASSUME NEW x \in Namespace, Delete(x)
      PROVE  /\ role'[n] = None /\ role[n] # None => n \in todo /\ role[n] = inst.cm
             /\ binding'[n] = None /\ binding[n] # None => n \in todo /\ binding[n] = inst.cm
  BY <1>4, DeleteElsewhere
<1>5. ASSUME NEW x \in Namespace, Delete(x)
      PROVE  \A c \in CR : n \in todo => ~Claims(c, n, inst.cm)
  <2>1. pc = "delete"
    BY <1>5 DEF Delete
  <2> QED BY <2>1 DEF SparedInv, Claimed
<1>6. ASSUME ~\E x \in Namespace : Push(x) \/ Delete(x)
      PROVE  UNCHANGED <<role, binding>>
  <2>1. WorkerStep => UNCHANGED <<role, binding>>
    BY <1>6, WorkerKeepsRbac
  <2>2. ASSUME NEW x \in Namespace, NamespaceChanges(x)
        PROVE  UNCHANGED <<role, binding>>
    BY <2>2, NamespaceShape
  <2>3. ASSUME Bystanders, ~\E x \in Namespace : NamespaceChanges(x)
        PROVE  UNCHANGED <<role, binding>>
    BY <2>3, BystandersKeepRbac
  <2> QED BY <2>1, <2>2, <2>3, TwoKinds
<1> QED BY <1>1, <1>2, <1>3, <1>4, <1>5, <1>6

\* DeleteRbacFromUnmanagedNamespace and DeleteAllRbac take nothing from a
\* namespace that a live scope with the same ConfigMap claims, however scopes
\* with shared members come, change and go.
THEOREM SharedIsKept ==
    ASSUME ~CacheLag, "rename" \notin UserOps PROVE Spec => SharedNamespaceKept
<1> DEFINE Kept_ == \A n \in Namespace :
              nsPhase' = nsPhase =>
                  /\ role'[n] = None => ~\E c \in CR : Claims(c, n, role[n])
                  /\ binding'[n] = None => ~\E c \in CR : Claims(c, n, binding[n])
<1>1. RecordsKeptInv /\ [Next]_vars => Kept_
  BY SharedStep DEF RecordsKeptInv, IInv, KeptInv
<1>2. RecordsKeptInv /\ [Next]_vars => [Kept_]_vars
  BY <1>1
<1> QED BY <1>2, KeptCorrect, PTL DEF Spec, SharedNamespaceKept

\* No Role or RoleBinding is forgotten while members are only edited: from each
\* leads a ConfigMap's list or a live scope's status back to it.
THEOREM RbacIsAccounted ==
    ASSUME ~CacheLag, "rename" \notin UserOps
    PROVE  Spec => [](spent["ns"] = 0 => RbacAccounted)
<1>1. ASSUME TypeOK, UidInv, HandInv, Quiet, NEW n \in Namespace, NEW m, Followed(n, m)
      PROVE  Accounted(n, m)
  <2>1. CASE cms[m] # None /\ n \in cms[m].names
    BY <2>1 DEF Accounted
  <2>2. CASE /\ pc \in {"push", "unprojected", "deleteUnmanaged", "delete", "updateCm"}
             /\ inst.cm = m /\ n \in inst.validated
    <3>1. Claimed(n, m)
      BY <1>1, <2>2, HandClaims DEF afterDefaults
    <3> QED BY <3>1 DEF Claimed, Accounted
  <2> QED BY <1>1, <2>1, <2>2 DEF Followed, OnRecord
<1>2. ASSUME RecordsKeptInv, spent["ns"] = 0 PROVE RbacAccounted
  <2>1. SUFFICES ASSUME Quiet
                 PROVE  \A n \in Namespace :
                           /\ role[n] # None => Accounted(n, role[n])
                           /\ binding[n] # None => Accounted(n, binding[n])
    BY <1>2 DEF RbacAccounted, Quiet
  <2>2. TypeOK /\ UidInv /\ HandInv /\ Traced(role) /\ Traced(binding)
    BY <1>2, <2>1 DEF RecordsKeptInv, IInv, RecordsInv, KeptInv, QuietInv
  <2> QED BY <1>1, <2>1, <2>2 DEF Traced
<1>3. RecordsKeptInv => (spent["ns"] = 0 => RbacAccounted)
  BY <1>2
<1> QED BY <1>3, KeptCorrect, PTL
=============================================================================
