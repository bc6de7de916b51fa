--------------------------- MODULE NamespaceScope ---------------------------
(***************************************************************************)
(* The NamespaceScope controller: NamespaceScopeReconciler.Reconcile and   *)
(* everything it calls, run by its single worker against the Kubernetes    *)
(* API, beside the users, the administrators, the namespaces, the garbage  *)
(* collector and the informer caches, all of which may move between any    *)
(* two API calls of the worker.                                            *)
(*                                                                         *)
(* Abstracted: one service account holding one Role in the operator's      *)
(* namespace is projected, so a target namespace has at most one Role and  *)
(* one RoleBinding made by the operator.  Their names do not depend on the *)
(* NamespaceScope (CreateRole hashes role, service account and source      *)
(* namespace), only their label does: two NamespaceScopes with different   *)
(* ConfigMaps share the objects and fight over the label.  Lists of        *)
(* namespaces are sets.  Every NamespaceScope lives in the operator's own  *)
(* namespace, the only one NewNSSCache lets the manager see.               *)
(***************************************************************************)
EXTENDS Naturals, FiniteSets

CONSTANTS
    CR,             \* names of NamespaceScope resources
    Namespace,      \* every namespace of the cluster that matters
    OperatorNs,     \* the namespace the operator runs in
    ConfigMapName,  \* names of ConfigMaps, and values of the RBAC label
    DefaultCm,      \* constant.NamespaceScopeConfigmapName
    None,           \* an absent object, an unset field
    HelmCR,         \* NamespaceScopes labelled cpfs.helm/install=true
    SubsetCR,       \* NamespaceScopes with allowSubsetProjection
    CanGetNs,       \* the operator may get Namespaces (checkGetNSAuth)
    MemberChoices,  \* spec.namespaceMembers a user may write
    CmChoices,      \* spec.configmapName a user may write; None is ""
    UserOps,        \* subset of {"edit", "rename", "delete"}
    CacheLag,       \* FALSE: the caches catch up before each worker step
    MaxUserOps,     \* bound on the steps of the users
    MaxNsEvents,    \* bound on namespace and authorization changes
    MaxFaults       \* bound on failing API calls and operator crashes

ASSUME ConstantsOK ==
    /\ OperatorNs \in Namespace
    /\ DefaultCm \in ConfigMapName
    /\ None \notin ConfigMapName \cup CR
    /\ HelmCR \subseteq CR /\ SubsetCR \subseteq CR
    /\ CanGetNs \in BOOLEAN /\ CacheLag \in BOOLEAN
    /\ MemberChoices \subseteq SUBSET Namespace
    /\ CmChoices \subseteq ConfigMapName \cup {None}

\* The steps of Reconcile that follow setDefaults.
afterDefaults == {"push", "unprojected", "deleteUnmanaged", "delete", "updateCm",
                  "restart", "runtime", "deleteAll", "removeFinalizer"}

\* A NamespaceScope as the API server stores it; `unprojected` holds the
\* namespaces that status.unprojectedRoles names.
Scope == [uid: Nat, members: SUBSET Namespace, cm: ConfigMapName \cup {None},
          validated: SUBSET Namespace, unprojected: SUBSET Namespace,
          fin: BOOLEAN, deleting: BOOLEAN]

\* A ConfigMap: data.namespaces and the owner references (name and uid).
ConfigMap == [names: SUBSET Namespace, owners: SUBSET (CR \X Nat)]

ASSUME NoneIsNoObject == None \notin Scope /\ None \notin ConfigMap

VARIABLES
    api,        \* the NamespaceScopes in the API server
    cache,      \* the copies in the manager's informer cache
    crLag,      \* the names whose cached copy is older than the stored one
    cms,        \* the ConfigMaps in the API server
    cmCache,    \* their cached copies
    cmLag,      \* the ConfigMaps whose cached copy is older
    role,       \* label of the projected Role in each namespace, or None
    binding,    \* label of the projected RoleBinding, or None
    runtime,    \* ConfigMap whose scope last wrote the runtime Role, or None
    podView,    \* for each ConfigMap, the list its pods were started with
    nsPhase,    \* phase of each namespace
    authorized, \* namespaces where the operator may manage RBAC
    queue,      \* workqueue: keys waiting to be reconciled
    pc,         \* where the worker is in Reconcile
    cur,        \* req: the key being reconciled
    inst,       \* instance: the worker's copy of it
    fresh,      \* inst still carries the stored resourceVersion
    todo,       \* namespaces the current loop has still to visit
    spared,     \* namespaces DeleteAllRbac leaves alone
    pushErr,    \* a goroutine of PushRbacToNamespace failed
    missed,     \* namespaces whose goroutine reported a Role as unprojected
    made,       \* how often each NamespaceScope was created (its last uid)
    spent       \* steps used of each bound

apiVars == <<api, crLag, made>>
cacheVars == <<cache, cmCache>>
cmVars == <<cms, cmLag>>
rbacVars == <<role, binding, runtime>>
nsVars == <<nsPhase, authorized>>
workVars == <<pc, cur, inst, fresh, todo, spared, pushErr, missed>>
vars == <<apiVars, cacheVars, cmVars, rbacVars, podView, nsVars, queue,
          workVars, spent>>

-----------------------------------------------------------------------------
(* Helpers the handlers share                                              *)

\* Variant of setDefaults: the default name is not filled in.
setDefaultsForgotten(o) == o

\* setDefaults
setDefaults(o) == IF o.cm = None THEN [o EXCEPT !.cm = DefaultCm] ELSE o

\* Variants of getAllValidated: the name is compared before setDefaults; only
\* the scope at hand is asked.
getAllValidatedRaw(cm) ==
    UNION {cache[c].validated : c \in {d \in CR :
        cache[d] # None /\ ~cache[d].deleting /\ cache[d].cm = cm}}
getOwnValidated(cm) ==
    UNION {cache[c].validated : c \in {d \in CR :
        d = cur /\ cache[d] # None /\ ~cache[d].deleting}}

\* getAllValidatedNamespaceMembers: from the cache, over the NamespaceScopes
\* on the same ConfigMap that are not being deleted.
getAllValidated(cm) ==
    UNION {cache[c].validated : c \in {d \in CR :
        /\ cache[d] # None
        /\ ~cache[d].deleting
        /\ setDefaults(cache[d]).cm = cm}}

\* checkGetNSAuth, asked anew for each namespace: a review that fails (for the
\* namespaces in `unchecked`) counts as a refusal.
checkGetNSAuth(n, unchecked) == CanGetNs /\ n \notin unchecked

\* getValidatedNamespaces
getValidatedNamespaces(members, unchecked) ==
    {n \in members : \/ n = OperatorNs
                     \/ ~checkGetNSAuth(n, unchecked)
                     \/ nsPhase[n] = "Active"}

\* The informer holds every stored object, or lag is allowed.
CaughtUp == CacheLag \/ (crLag = {} /\ cmLag = {})

Spend(kind, max) == /\ spent[kind] < max
                    /\ spent' = [spent EXCEPT ![kind] = @ + 1]

\* The API server stores o (None: the object is gone) under name c; every
\* other copy of c, the worker's included, now has an old resourceVersion.
Store(c, o) == /\ api' = [api EXCEPT ![c] = o]
               /\ crLag' = crLag \cup {c}

StoreCm(m, o) == /\ cms' = [cms EXCEPT ![m] = o]
                 /\ cmLag' = cmLag \cup {m}

\* Variant of Return: the key is not put back.
ReturnForgettingTheKey(requeue) ==
    /\ pc' = "idle" /\ cur' = None /\ inst' = None /\ fresh' = FALSE
    /\ todo' = {} /\ spared' = {} /\ pushErr' = FALSE /\ missed' = {}
    /\ UNCHANGED queue

\* Reconcile returns: the worker is free; an error or a RequeueAfter puts the
\* key back.
Return(requeue) ==
    /\ pc' = "idle" /\ cur' = None /\ inst' = None /\ fresh' = FALSE
    /\ todo' = {} /\ spared' = {} /\ pushErr' = FALSE /\ missed' = {}
    /\ queue' = IF requeue THEN queue \cup {cur} ELSE queue

\* Variant of Fail: in the deletion path the error is only logged.
FailSwallowed ==
    /\ pc' = IF inst.deleting THEN "removeFinalizer" ELSE "recordFailed"
    /\ UNCHANGED <<cur, inst, fresh, todo, spared, pushErr, missed, queue>>

\* A step of Reconcile returned an error: the deletion path hands it to the
\* workqueue, the other path records the failure first.
Fail ==
    IF inst.deleting
    THEN Return(TRUE)
    ELSE /\ pc' = "recordFailed"
         /\ UNCHANGED <<cur, inst, fresh, todo, spared, pushErr, missed, queue>>

\* Next iteration of a loop over namespaces, or what comes after the loop.
Loop(rest, here, after) == /\ todo' = rest
                           /\ pc' = IF rest = {} THEN after ELSE here

-----------------------------------------------------------------------------
(* Reconcile, up to the projection of RBAC                                 *)

\* Variant of FirstStep: the finalizer is not asked for.
FirstStepUnguarded(c, o) == IF o.deleting THEN "updateCm" ELSE "updateStatus"

\* The deletion path, or the other one with its finalizer check.
FirstStep(c, o) ==
    IF o.deleting THEN "updateCm"
    ELSE IF o.fin \/ c \in HelmCR THEN "updateStatus" ELSE "addFinalizer"

\* Reconcile: get the instance from the cache and take one of the two paths.
Start(c) ==
    /\ pc = "idle" /\ c \in queue /\ CaughtUp
    /\ queue' = queue \ {c}
    /\ LET o == cache[c]
           work == o # None /\ (o.deleting => o.fin)
       IN  IF ~work
           THEN UNCHANGED workVars
           ELSE /\ cur' = c /\ fresh' = (c \notin crLag)
                /\ inst' = IF o.deleting THEN setDefaults(o) ELSE o
                /\ pc' = FirstStep(c, o)
                /\ UNCHANGED <<todo, spared, pushErr, missed>>
    /\ UNCHANGED <<apiVars, cacheVars, cmVars, rbacVars, podView, nsVars, spent>>

\* addFinalizer: an Update, refused when the copy is not the stored version.
AddFinalizer ==
    /\ pc = "addFinalizer" /\ CaughtUp
    /\ IF fresh
       THEN /\ Store(cur, [inst EXCEPT !.fin = TRUE])
            /\ inst' = [inst EXCEPT !.fin = TRUE]
            /\ pc' = "updateStatus"
            /\ UNCHANGED <<cur, fresh, todo, spared, pushErr, missed, queue>>
       ELSE Fail /\ UNCHANGED <<api, crLag>>
    /\ UNCHANGED <<made, cacheVars, cmVars, rbacVars, podView, nsVars, spent>>

\* Variant of AfterPush: the error channel is not read.
AfterPushUnread(failed) == "unprojected"

\* What follows PushRbacToNamespace once all its goroutines are done; with
\* allowSubsetProjection their errors are only logged.
AfterPush(failed) ==
    IF failed /\ cur \notin SubsetCR THEN "recordFailed" ELSE "unprojected"

\* UpdateStatus, then setDefaults and the fan-out of PushRbacToNamespace.
UpdateStatus ==
    /\ pc = "updateStatus" /\ CaughtUp
    /\ \E unchecked \in SUBSET inst.members :
       LET valid == getValidatedNamespaces(inst.members, unchecked)
           new == [inst EXCEPT !.validated = valid]
       IN
       /\ IF unchecked = {} THEN UNCHANGED spent
          ELSE CanGetNs /\ Spend("fault", MaxFaults)
       /\ IF valid # inst.validated /\ ~fresh
           THEN Fail /\ UNCHANGED <<api, crLag>>
           ELSE /\ IF valid # inst.validated
                   THEN Store(cur, new) ELSE UNCHANGED <<api, crLag>>
                /\ inst' = setDefaults(new)
                /\ Loop(valid \ {OperatorNs}, "push", AfterPush(FALSE))
                /\ UNCHANGED <<cur, fresh, spared, pushErr, missed, queue>>
    /\ UNCHANGED <<made, cacheVars, cmVars, rbacVars, podView, nsVars>>

\* What one goroutine of PushRbacToNamespace leaves in namespace n: CreateRole
\* creates the Role or overwrites it, label included; CreateRoleBinding keeps
\* an existing RoleBinding as it is.
ProjectRole(n) == role' = [role EXCEPT ![n] = inst.cm]
ProjectBinding(n) ==
    binding' = [binding EXCEPT ![n] = IF @ = None THEN inst.cm ELSE @]

Accessible(n) == n \in authorized /\ nsPhase[n] = "Active"

\* One goroutine of PushRbacToNamespace, for any namespace still to do: it
\* succeeds, is refused outright, or (a fault) fails before or after the Role.
\* With allowSubsetProjection a Role that failed is reported and does not stop
\* the RoleBinding; where the operator is not authorized at all the goroutine
\* stops at reading its own managed Role there and reports nothing.
Push(n) ==
    /\ pc = "push" /\ n \in todo /\ CaughtUp
    /\ \/ /\ Accessible(n)
          /\ ProjectRole(n) /\ ProjectBinding(n)
          /\ UNCHANGED <<pushErr, missed, spent>>
       \/ /\ ~Accessible(n)
          /\ pushErr' = TRUE
          /\ missed' = IF cur \in SubsetCR /\ n \in authorized
                       THEN missed \cup {n} ELSE missed
          /\ UNCHANGED <<role, binding, spent>>
       \/ /\ Spend("fault", MaxFaults)
          /\ pushErr' = TRUE
          /\ \/ UNCHANGED <<role, binding, missed>>
             \/ Accessible(n) /\ ProjectRole(n) /\ UNCHANGED <<binding, missed>>
             \/ /\ Accessible(n) /\ cur \in SubsetCR /\ UNCHANGED role
                /\ ProjectBinding(n) \/ UNCHANGED binding
                /\ missed' = missed \cup {n}
    /\ Loop(todo \ {n}, "push", AfterPush(pushErr'))
    /\ UNCHANGED <<apiVars, cacheVars, cmVars, runtime, podView, nsVars, queue,
                   cur, inst, fresh, spared>>

\* UpdateUnprojectedRolesStatus, called for every scope; without
\* allowSubsetProjection nothing is missed.  A status Update, which leaves the stored spec
\* alone; its answer lacks an unset configmapName, so that decoding it keeps the
\* name setDefaults filled in.
UpdateUnprojected ==
    /\ pc = "unprojected" /\ CaughtUp
    /\ IF missed # inst.unprojected /\ (~fresh \/ api[cur] = None)
       THEN Fail /\ UNCHANGED <<api, crLag>>
       ELSE /\ IF missed = inst.unprojected THEN UNCHANGED <<api, crLag>>
               ELSE Store(cur, [api[cur] EXCEPT !.unprojected = missed])
            /\ inst' = [inst EXCEPT !.unprojected = missed]
            /\ pc' = "deleteUnmanaged"
            /\ UNCHANGED <<cur, fresh, todo, spared, pushErr, missed, queue>>
    /\ UNCHANGED <<made, cacheVars, cmVars, rbacVars, podView, nsVars, spent>>

-----------------------------------------------------------------------------
(* Deletion of RBAC, by a scope that shrank or that goes away              *)

\* Variant of Unmanaged: nothing is ever unmanaged.
UnmanagedNever(m) == {}

\* What the ConfigMap lists and no scope claims any more.
Unmanaged(m) ==
    IF cmCache[m] = None THEN {} ELSE cmCache[m].names \ getAllValidated(m)

\* DeleteRbacFromUnmanagedNamespace: what the ConfigMap lists and no scope
\* claims any more, both read from the cache.
DeleteRbacFromUnmanaged ==
    /\ pc = "deleteUnmanaged" /\ CaughtUp
    /\ Loop(Unmanaged(inst.cm) \ {OperatorNs}, "delete", "updateCm")
    /\ UNCHANGED <<apiVars, cacheVars, cmVars, rbacVars, podView, nsVars, queue,
                   cur, inst, fresh, spared, pushErr, missed, spent>>

\* DeleteAllRbac: the members of the deleted scope that no other scope uses.
DeleteAllRbac ==
    /\ pc = "deleteAll" /\ CaughtUp
    /\ LET using == getAllValidated(inst.cm)
       IN  /\ spared' = using
           /\ Loop((inst.members \ using) \ {OperatorNs},
                   "delete", "removeFinalizer")
    /\ UNCHANGED <<apiVars, cacheVars, cmVars, rbacVars, podView, nsVars, queue,
                   cur, inst, fresh, pushErr, missed, spent>>

\* DeleteRoleBinding and DeleteRole in namespace n, by label; Forbidden is
\* only reported as an event, another error ends the reconcile.
DropLabel(f, n) == [f EXCEPT ![n] = IF @ = inst.cm THEN None ELSE @]

Delete(n) ==
    /\ pc = "delete" /\ n \in todo /\ CaughtUp
    /\ \/ /\ IF n \in authorized
             THEN /\ binding' = DropLabel(binding, n)
                  /\ role' = DropLabel(role, n)
                  /\ spared' = spared
             ELSE /\ spared' = spared \cup {n}
                  /\ UNCHANGED <<role, binding>>
          /\ Loop(todo \ {n}, "delete",
                  IF inst.deleting THEN "removeFinalizer" ELSE "updateCm")
          /\ UNCHANGED <<cur, inst, fresh, pushErr, missed, queue, spent>>
       \/ /\ Spend("fault", MaxFaults)
          /\ \/ n \in authorized /\ binding' = DropLabel(binding, n)
             \/ UNCHANGED binding
          /\ UNCHANGED role
          /\ Fail
    /\ UNCHANGED <<apiVars, cacheVars, cmVars, runtime, podView, nsVars>>

\* Reconcile, deletion path: drop the finalizer; the object is then gone.
RemoveFinalizer ==
    /\ pc = "removeFinalizer" /\ CaughtUp
    /\ IF fresh
       THEN Store(cur, None) /\ Return(FALSE)
       ELSE Return(TRUE) /\ UNCHANGED <<api, crLag>>
    /\ UNCHANGED <<made, cacheVars, cmVars, rbacVars, podView, nsVars, spent>>

-----------------------------------------------------------------------------
(* The ConfigMap, the pods that read it, the runtime Role, the status      *)

\* Variant of ListDiffers: GetListDifference where CheckListDifference is meant.
ListShrinks(old, names) == old = None \/ old.names \ names # {}

\* CheckListDifference against the cached list.  An empty list never compares
\* equal: strings.Split("", ",") has one element.
ListDiffers(old, names) == old = None \/ old.names # names \/ names = {}

\* UpdateConfigMap up to RestartPods.
UpdateConfigMap ==
    /\ pc = "updateCm" /\ CaughtUp
    /\ LET m == inst.cm
           names == getAllValidated(m)
           me == <<cur, inst.uid>>
           old == cmCache[m]
           differ == ListDiffers(old, names)
           refs == IF old = None THEN {} ELSE {r \in old.owners : r[1] # cur}
           after == IF inst.deleting THEN "deleteAll" ELSE "runtime"
           written == IF differ THEN names ELSE old.names
           refused == IF old = None THEN cms[m] # None ELSE m \in cmLag
       IN  IF ~differ /\ me \in old.owners
           THEN /\ pc' = after
                /\ UNCHANGED <<cmVars, cur, inst, fresh, todo, spared, pushErr,
                               missed, queue>>
           ELSE IF refused THEN Fail /\ UNCHANGED cmVars
           ELSE /\ StoreCm(m, [names |-> written, owners |-> refs \cup {me}])
                /\ pc' = IF differ THEN "restart" ELSE after
                /\ UNCHANGED <<cur, inst, fresh, todo, spared, pushErr, missed, queue>>
    /\ UNCHANGED <<apiVars, cacheVars, rbacVars, podView, nsVars, spent>>

\* RestartPods: the pods come back with the list now in the ConfigMap.
\* Operator pods only: one model value stands for the pods the selector finds,
\* and the workload kinds that own them are not told apart.
RestartPods ==
    /\ pc = "restart" /\ CaughtUp
    /\ podView' = [podView EXCEPT ![inst.cm] =
                      IF cms[inst.cm] = None THEN {} ELSE cms[inst.cm].names]
    /\ pc' = IF inst.deleting THEN "deleteAll" ELSE "runtime"
    /\ UNCHANGED <<apiVars, cacheVars, cmVars, rbacVars, nsVars, queue,
                   cur, inst, fresh, todo, spared, pushErr, missed, spent>>

\* Reconcile's last loop, CreateRuntimeRoleToNamespace in every member that
\* holds a Role of this scope; a failing list is ignored, a failing write
\* ends the loop (Forbidden only without allowSubsetProjection).
RuntimeRoles ==
    /\ pc = "runtime" /\ CaughtUp
    /\ LET listed == {n \in inst.members \ {OperatorNs} :
                         n \in authorized /\ role[n] = inst.cm}
           ok == {n \in listed : nsPhase[n] = "Active"}
           write(s) == runtime' = [n \in Namespace |->
                                      IF n \in s THEN inst.cm ELSE runtime[n]]
       IN  \/ /\ ok = listed \/ cur \in SubsetCR
              /\ write(ok) /\ pc' = "recordCompleted" /\ UNCHANGED spent
           \/ /\ ok # listed /\ cur \notin SubsetCR
              /\ \E s \in SUBSET ok : write(s)
              /\ pc' = "recordFailed" /\ UNCHANGED spent
           \/ /\ listed # {}
              /\ Spend("fault", MaxFaults)
              /\ \E s \in SUBSET ok : write(s)
              /\ pc' \in {"recordCompleted", "recordFailed"}
    /\ UNCHANGED <<apiVars, cacheVars, cmVars, role, binding, podView, nsVars,
                   queue, cur, inst, fresh, todo, spared, pushErr, missed>>

\* recordOperationTimingAndStatus: a status Update of the cached copy, which
\* always changes the object; a refused one is only logged.
Record ==
    /\ pc \in {"recordCompleted", "recordFailed"} /\ CaughtUp
    /\ crLag' = IF cache[cur] # None THEN crLag \cup {cur} ELSE crLag
    /\ Return(TRUE)
    /\ UNCHANGED <<api, made, cacheVars, cmVars, rbacVars, podView, nsVars, spent>>

-----------------------------------------------------------------------------
(* Failures of the operator                                                *)

\* An API call fails with no effect; Push, Delete and RuntimeRoles have
\* their own failing alternatives.  PushRbacToNamespace lists the service
\* accounts before the first goroutine starts: that it cannot fails the push
\* with allowSubsetProjection too.
CallFails ==
    /\ \/ pc \in {"addFinalizer", "updateStatus", "unprojected", "deleteUnmanaged",
                  "deleteAll", "updateCm", "restart", "removeFinalizer"}
       \/ pc = "push" /\ todo = inst.validated \ {OperatorNs}
    /\ Spend("fault", MaxFaults)
    /\ Fail
    /\ UNCHANGED <<apiVars, cacheVars, cmVars, rbacVars, podView, nsVars>>

\* The operator dies in the middle of a reconcile and starts again: fresh
\* caches, and an add event for every NamespaceScope.
Crash ==
    /\ pc # "idle"
    /\ Spend("fault", MaxFaults)
    /\ pc' = "idle" /\ cur' = None /\ inst' = None /\ fresh' = FALSE
    /\ todo' = {} /\ spared' = {} /\ pushErr' = FALSE /\ missed' = {}
    /\ queue' = {c \in CR : api[c] # None}
    /\ cache' = api /\ crLag' = {} /\ cmCache' = cms /\ cmLag' = {}
    /\ UNCHANGED <<api, made, cms, rbacVars, podView, nsVars>>

-----------------------------------------------------------------------------
(* The informers, the users, the cluster                                   *)

\* The NamespaceScope informer catches up; each change is an event for its key.
CacheSync ==
    /\ crLag # {}
    /\ cache' = api /\ crLag' = {}
    /\ queue' = queue \cup crLag
    /\ UNCHANGED <<api, made, cmCache, cmVars, rbacVars, podView, nsVars,
                   workVars, spent>>

\* The ConfigMap informer catches up.  Owns(ConfigMap) enqueues controller
\* owners only, and SetOwnerReference makes no controller: no event follows.
CmSync ==
    /\ cmLag # {}
    /\ cmCache' = cms /\ cmLag' = {}
    /\ UNCHANGED <<apiVars, cache, cms, rbacVars, podView, nsVars, queue,
                   workVars, spent>>

UserStores(c, o) ==
    /\ Spend("user", MaxUserOps)
    /\ Store(c, o)
    /\ fresh' = (fresh /\ c # cur)
    /\ UNCHANGED <<cacheVars, cmVars, rbacVars, podView, nsVars, queue, pc, cur,
                   inst, todo, spared, pushErr, missed>>

\* The CSV controller, the other worker of the operator, patches the status of
\* a scope: nothing this module keeps changes, but every copy is outdated.
CsvControllerPatches(c) ==
    /\ api[c] # None
    /\ Spend("fault", MaxFaults)
    /\ crLag' = crLag \cup {c}
    /\ fresh' = (fresh /\ c # cur)
    /\ UNCHANGED <<api, made, cacheVars, cmVars, rbacVars, podView, nsVars, queue,
                   pc, cur, inst, todo, spared, pushErr, missed>>

UserCreates(c) ==
    /\ api[c] = None
    /\ made' = [made EXCEPT ![c] = @ + 1]
    /\ \E ms \in MemberChoices, m \in CmChoices :
          UserStores(c, [uid |-> made[c] + 1, members |-> ms, cm |-> m,
                         validated |-> {}, unprojected |-> {}, fin |-> FALSE,
                         deleting |-> FALSE])

UserEdits(c) ==
    /\ api[c] # None
    /\ \/ /\ "edit" \in UserOps
          /\ \E ms \in MemberChoices \ {api[c].members} :
                UserStores(c, [api[c] EXCEPT !.members = ms])
       \/ /\ "rename" \in UserOps
          /\ \E m \in CmChoices \ {api[c].cm} :
                UserStores(c, [api[c] EXCEPT !.cm = m])
    /\ UNCHANGED made

\* A finalizer keeps the deleted object; without one it is gone at once.
UserDeletes(c) ==
    /\ "delete" \in UserOps
    /\ api[c] # None /\ ~api[c].deleting
    /\ UserStores(c, IF api[c].fin THEN [api[c] EXCEPT !.deleting = TRUE] ELSE None)
    /\ UNCHANGED made

\* A namespace is deleted, in two steps, with everything in it, the Role that
\* authorizes the operator included, or created.
NamespaceChanges(n) ==
    /\ n # OperatorNs
    /\ Spend("ns", MaxNsEvents)
    /\ LET next == [Active |-> "Terminating", Terminating |-> "Absent",
                    Absent |-> "Active"][nsPhase[n]]
           gone == next = "Absent"
           keep(f) == IF gone THEN [f EXCEPT ![n] = None] ELSE f
       IN  /\ nsPhase' = [nsPhase EXCEPT ![n] = next]
           /\ role' = keep(role) /\ binding' = keep(binding)
           /\ runtime' = keep(runtime)
           /\ authorized' = IF gone THEN authorized \ {n} ELSE authorized
    /\ UNCHANGED <<apiVars, cacheVars, cmVars, podView, queue, workVars>>

\* authorize-namespace.sh, with and without -delete.
AuthorizationChanges(n) ==
    /\ n # OperatorNs /\ nsPhase[n] = "Active"
    /\ Spend("ns", MaxNsEvents)
    /\ authorized' = IF n \in authorized THEN authorized \ {n} ELSE authorized \cup {n}
    /\ UNCHANGED <<apiVars, cacheVars, cmVars, rbacVars, podView, nsPhase, queue,
                   workVars>>

\* The garbage collector removes a ConfigMap none of whose owners exists.
CollectConfigMap(m) ==
    /\ cms[m] # None
    /\ ~\E r \in cms[m].owners : api[r[1]] # None /\ api[r[1]].uid = r[2]
    /\ StoreCm(m, None)
    /\ UNCHANGED <<apiVars, cacheVars, rbacVars, podView, nsVars, queue, workVars, spent>>

-----------------------------------------------------------------------------
Init ==
    /\ api = [c \in CR |-> None] /\ cache = api /\ crLag = {}
    /\ cms = [m \in ConfigMapName |-> None] /\ cmCache = cms /\ cmLag = {}
    /\ role = [n \in Namespace |-> None] /\ binding = role /\ runtime = role
    /\ podView = [m \in ConfigMapName |-> {}]
    /\ nsPhase = [n \in Namespace |-> "Active"]
    /\ authorized \in {s \in SUBSET Namespace : OperatorNs \in s}
    /\ queue = {}
    /\ pc = "idle" /\ cur = None /\ inst = None /\ fresh = FALSE
    /\ todo = {} /\ spared = {} /\ pushErr = FALSE /\ missed = {}
    /\ made = [c \in CR |-> 0]
    /\ spent = [k \in {"user", "ns", "fault"} |-> 0]

\* The steps of a reconcile once it has started.
Reconcile ==
    \/ AddFinalizer \/ UpdateStatus \/ UpdateUnprojected
    \/ \E n \in Namespace : Push(n) \/ Delete(n)
    \/ DeleteRbacFromUnmanaged \/ UpdateConfigMap \/ RestartPods
    \/ RuntimeRoles \/ Record \/ DeleteAllRbac \/ RemoveFinalizer

Informers == CacheSync \/ CmSync

Environment ==
    \/ \E c \in CR : \/ UserCreates(c) \/ UserEdits(c) \/ UserDeletes(c)
                     \/ CsvControllerPatches(c)
    \/ \E n \in Namespace : NamespaceChanges(n) \/ AuthorizationChanges(n)
    \/ \E m \in ConfigMapName : CollectConfigMap(m)

Next ==
    \/ \E c \in CR : Start(c)
    \/ Reconcile \/ CallFails \/ Crash
    \/ Informers \/ Environment

Spec == Init /\ [][Next]_vars

\* The worker and the informers are never starved.  The pauses between two
\* attempts (the workqueue's growing backoff, or 60 seconds) outlast the
\* informers' lag again and again: they catch up while the worker rests, and a
\* waiting key is then taken with an up-to-date copy.
Fairness ==
    /\ WF_vars(Reconcile) /\ WF_vars(CacheSync) /\ WF_vars(CmSync)
    /\ SF_vars(CacheSync /\ pc = "idle") /\ SF_vars(CmSync /\ pc = "idle")
    /\ \A c \in CR : SF_vars(Start(c) /\ c \notin crLag)

FairSpec == Spec /\ Fairness

-----------------------------------------------------------------------------
(* Properties                                                              *)

ScopesTypeOK ==
    /\ api \in [CR -> Scope \cup {None}] /\ cache \in [CR -> Scope \cup {None}]
    /\ crLag \subseteq CR /\ queue \subseteq CR /\ made \in [CR -> Nat]

ConfigMapsTypeOK ==
    /\ cms \in [ConfigMapName -> ConfigMap \cup {None}]
    /\ cmCache \in [ConfigMapName -> ConfigMap \cup {None}]
    /\ cmLag \subseteq ConfigMapName
    /\ podView \in [ConfigMapName -> SUBSET Namespace]

NamespacesTypeOK ==
    /\ role \in [Namespace -> ConfigMapName \cup {None}]
    /\ binding \in [Namespace -> ConfigMapName \cup {None}]
    /\ runtime \in [Namespace -> ConfigMapName \cup {None}]
    /\ nsPhase \in [Namespace -> {"Active", "Terminating", "Absent"}]
    /\ authorized \subseteq Namespace

\* The worker holds a scope exactly while it is busy, and from setDefaults on
\* one whose ConfigMap has a name.
WorkerTypeOK ==
    /\ pc \in {"idle", "addFinalizer", "updateStatus", "recordCompleted",
               "recordFailed"} \cup afterDefaults
    /\ pc = "idle" => cur = None /\ inst = None /\ fresh = FALSE
    /\ pc # "idle" => cur \in CR /\ inst \in Scope
    /\ pc \in afterDefaults => inst.cm # None
    /\ fresh \in BOOLEAN /\ pushErr \in BOOLEAN
    /\ todo \subseteq Namespace /\ spared \subseteq Namespace
    /\ missed \subseteq Namespace

\* Every variable holds what the code can put there; in particular no label or
\* ConfigMap name is used before setDefaults.
TypeOK ==
    /\ ScopesTypeOK /\ ConfigMapsTypeOK /\ NamespacesTypeOK /\ WorkerTypeOK
    /\ spent \in [{"user", "ns", "fault"} -> Nat]

\* cur's copy stands for the stored scope, which a finalizer holds back.
Guarded == api[cur] # None /\ api[cur].fin /\ api[cur].uid = inst.uid

\* What the copies are worth.  The informer's copy of a scope outside crLag is
\* the stored one; a live copy with a finalizer, however old, stands for a
\* scope that is still stored under the same uid with its finalizer, because
\* only the worker removes one and only after the informer has shown it the
\* deletion; the worker's copy, while fresh, agrees with the stored scope.
CopiesInv ==
    /\ \A c \in CR : c \notin crLag => cache[c] = api[c]
    /\ \A c \in CR : cache[c] # None /\ ~cache[c].deleting /\ cache[c].fin =>
          api[c] # None /\ api[c].fin /\ api[c].uid = cache[c].uid
    /\ fresh => /\ api[cur] # None
                /\ api[cur].uid = inst.uid /\ api[cur].fin = inst.fin
                /\ api[cur].deleting = inst.deleting
                /\ api[cur].members = inst.members
                /\ setDefaults(api[cur]).cm = setDefaults(inst).cm
    /\ fresh /\ inst.deleting => cache[cur] # None /\ cache[cur].deleting

\* The two paths of Reconcile meet only where they share a handler.
PathInv ==
    /\ pc \in {"addFinalizer", "updateStatus", "push", "unprojected",
               "deleteUnmanaged", "runtime", "recordCompleted", "recordFailed"}
          => ~inst.deleting
    /\ pc \in {"deleteAll", "removeFinalizer"} => inst.deleting

\* Past addFinalizer the scope being projected is guarded.
GuardInv ==
    pc \in afterDefaults \cup {"updateStatus"} /\ ~inst.deleting /\ cur \notin HelmCR
        => Guarded

\* The loop of DeleteAllRbac: what it has left behind is clean.
CleanInv ==
    /\ pc = "removeFinalizer" => todo = {}
    /\ pc \in {"delete", "removeFinalizer"} /\ inst.deleting =>
          \A n \in inst.members \ ({OperatorNs} \cup spared \cup todo) :
              role[n] # inst.cm /\ binding[n] # inst.cm

\* The inductive invariant behind the two properties that follow.
IInv == TypeOK /\ CopiesInv /\ PathInv /\ GuardInv /\ CleanInv

\* addFinalizer comes first: no Role, RoleBinding or runtime Role is written
\* for a scope that could vanish without DeleteAllRbac having its turn, however
\* old the copy Reconcile works on (Helm's scopes are exempt by label).
FinalizerBeforeProjection ==
    [][\A n \in Namespace :
          \/ /\ role'[n] \in {role[n], None}
             /\ binding'[n] \in {binding[n], None}
             /\ runtime'[n] \in {runtime[n], None}
          \/ cur \in HelmCR
          \/ Guarded]_vars

\* Reconcile removes the finalizer only when DeleteAllRbac has really emptied
\* every member that is not spared (used by a sibling, or Forbidden), whatever
\* failed, was retried or was edited meanwhile.
CleanedBeforeRelease ==
    [][\A c \in CR :
          api[c] # None /\ api[c].fin /\ api'[c] = None =>
              \A n \in api[c].members \ ({OperatorNs} \cup spared) :
                  LET label == setDefaults(api[c]).cm
                  IN  role[n] # label /\ binding[n] # label]_vars

\* A live scope of ConfigMap m claims namespace n.
Claims(c, n, m) ==
    /\ api[c] # None /\ ~api[c].deleting
    /\ setDefaults(api[c]).cm = m /\ n \in api[c].validated

\* DeleteRbacFromUnmanagedNamespace and DeleteAllRbac take nothing from a
\* namespace that a live scope with the same ConfigMap still claims.
SharedNamespaceKept ==
    [][\A n \in Namespace :
          nsPhase' = nsPhase =>
              /\ role'[n] = None => ~\E c \in CR : Claims(c, n, role[n])
              /\ binding'[n] = None => ~\E c \in CR : Claims(c, n, binding[n])]_vars

\* Whoever may still have to clean up namespace n: the ConfigMap's list, from
\* which DeleteRbacFromUnmanagedNamespace starts, a live scope, or a scope in
\* deletion with n among the members DeleteAllRbac goes through.
Accounted(n, m) ==
    \/ cms[m] # None /\ n \in cms[m].names
    \/ \E c \in CR : Claims(c, n, m)
    \/ \E c \in CR : /\ api[c] # None /\ api[c].deleting
                     /\ setDefaults(api[c]).cm = m /\ n \in api[c].members

\* Nothing has gone wrong so far and no scope has been deleted.
Undisturbed ==
    /\ spent["fault"] = 0 /\ authorized = Namespace
    /\ \A c \in CR : made[c] = 0 \/ (made[c] = 1 /\ api[c] # None /\ ~api[c].deleting)

\* No projected Role or RoleBinding is forgotten while members are only edited,
\* whenever that happens: some record the operator consults later still leads
\* to it.  A failure between the push and the ConfigMap, or a deletion, breaks it.
RbacAccounted ==
    Undisturbed => \A n \in Namespace :
        /\ role[n] # None => Accounted(n, role[n])
        /\ binding[n] # None => Accounted(n, binding[n])

\* recordOperationTimingAndStatus(..., "Completed", ...) is reached only with
\* Role and RoleBinding in every validated member: no goroutine's error is
\* lost, and no later step of the same reconcile takes them away again (unless
\* the scope was written to meanwhile).
CompletedMeansProjected ==
    pc = "recordCompleted" /\ fresh /\ cur \notin SubsetCR =>
        \A n \in inst.validated \ {OperatorNs} :
            role[n] = inst.cm /\ binding[n] # None

\* ... and with its validated members in the published list.
CompletedMeansListed ==
    pc = "recordCompleted" /\ fresh =>
        /\ cms[inst.cm] # None
        /\ inst.validated \subseteq cms[inst.cm].names
        /\ <<cur, inst.uid>> \in cms[inst.cm].owners

\* Scope c is served: its validated members are the namespaces it should have,
\* its ConfigMap lists them and is owned by it, each of them holds the RBAC.
Served(c) ==
    LET o == setDefaults(api[c])
    IN  /\ o.fin \/ c \in HelmCR
        /\ o.validated = getValidatedNamespaces(o.members, {})
        /\ cms[o.cm] # None
        /\ cms[o.cm].names = UNION {api[d].validated : d \in
               {e \in CR : \E n \in Namespace : Claims(e, n, o.cm)}}
        /\ <<c, o.uid>> \in cms[o.cm].owners
        /\ \A n \in o.validated \ {OperatorNs} : role[n] # None /\ binding[n] # None

\* Every live scope can be projected.
Reachable ==
    \A c \in CR : api[c] # None =>
        \A n \in getValidatedNamespaces(api[c].members, {}) :
            n \in authorized /\ nsPhase[n] = "Active"

\* Once every scope can be projected, the reconcile loop serves every live one
\* and finishes every deletion, whatever failed, crashed or lagged before.
Converges ==
    <>[]Reachable =>
        <>[](\A c \in CR : api[c] # None => ~api[c].deleting /\ Served(c))

-----------------------------------------------------------------------------
(* What the repository says and the code does not do                       *)

\* "When delete NamespaceScope instance, cleanup all RBAC resources": after the
\* last scope is gone and the worker rests, no copied Role or RoleBinding is
\* left in a namespace the operator may still change.
DeletedScopeLeavesNothing ==
    pc = "idle" /\ (\A c \in CR : api[c] = None) =>
        \A n \in authorized : role[n] = None /\ binding[n] = None

\* "When the configmap updated, restart all the pods with the RestartLabels":
\* a reconcile that is recorded as Completed leaves no pod on an older list.
PodsFollowTheList ==
    pc = "recordCompleted" /\ cms[inst.cm] # None =>
        podView[inst.cm] = cms[inst.cm].names
=============================================================================
