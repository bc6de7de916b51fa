----------------------------- MODULE PodRefresh -----------------------------
(***************************************************************************)
(* RestartPods from inside.  UpdateConfigMap has written a new list and    *)
(* calls it once: pods that carry the scope's restartLabels and read the   *)
(* ConfigMap are refreshed, operator pods by deleting them, the others by  *)
(* writing a hash of the list into the pod template of their Deployment,   *)
(* DaemonSet (if an access review allows it) or StatefulSet, whose         *)
(* controller then replaces the pods whenever the template changed.  Pods, *)
(* Deployments and DaemonSets are read from informers that may be behind.  *)
(*                                                                         *)
(* A list stands for its own hash.  A workload's pods are one pod: what    *)
(* matters is the list it was started with and the template it came from.  *)
(***************************************************************************)
EXTENDS Naturals, FiniteSets

CONSTANTS
    Scope,          \* NamespaceScopes
    ConfigMap, CmOf,\* the ConfigMap each of them publishes to
    List, FirstList,\* values of `namespaces`
    Follows,        \* those that may follow each of them
    Workload, KindOf, Reads, \* pods by owner, and the ConfigMaps they read
    Selects,        \* the workloads each scope's restartLabels match
    None,           \* no annotation
    MaxEdits,       \* bound on new lists
    MaxFaults,      \* bound on failing API calls and crashes
    Restarting, MaxRestarts, \* pods that restart by themselves, and how often
    MaxAccess       \* bound on changes of the operator's rights

Kind == {"Operator", "Foreign", "Deployment", "DaemonSet", "StatefulSet"}

ASSUME RefreshOK ==
    /\ CmOf \in [Scope -> ConfigMap] /\ FirstList \in List /\ None \notin List
    /\ Follows \in [List -> SUBSET List] /\ Restarting \subseteq Workload
    /\ KindOf \in [Workload -> Kind] /\ Reads \in [Workload -> SUBSET ConfigMap]
    /\ Selects \in [Scope -> SUBSET Workload]

VARIABLES
    list,       \* data.namespaces of each ConfigMap
    used,       \* the lists it has had
    recurred,   \* ConfigMaps whose list came back to an earlier value
    template,   \* the annotation in each workload's pod template
    seen,       \* the same, in the informer's copy of a DaemonSet
    old,        \* Deployments whose copy is behind
    unseen,     \* workloads whose pod was replaced, of which no informer told yet
    from,       \* the annotation of the template each pod came from
    runs,       \* the lists each pod was started with
    access,     \* the operator may get and patch DaemonSets, and review that
    watched,    \* the operator may list and watch them, which nobody reviews
    synced,     \* it has listed them since the process began
    pc, cur,    \* "idle", "listing" or "refreshing"; the scope in hand
    todo,       \* workloads this call has still to refresh
    lost,       \* the operators among them whose listed pod is no longer there
    reviewed,   \* the access review allowed it
    skipped,    \* workloads left out by the last call that came to them
    result,     \* how the last call for each ConfigMap ended
    spent       \* steps used of each bound

listVars == <<list, used, recurred>>
clusterVars == <<from, runs>>
objectVars == <<template, seen, old>>
rightVars == <<access, watched, synced>>
callVars == <<pc, cur, todo, lost, reviewed, skipped, result>>
vars == <<listVars, objectVars, unseen, clusterVars, rightVars, callVars, spent>>

-----------------------------------------------------------------------------
(* Helpers                                                                 *)

Spend(kind, max) == spent[kind] < max /\ spent' = [spent EXCEPT ![kind] = @ + 1]

cm == CmOf[cur]

\* needRestart: the pods that read the ConfigMap; List keeps those with the labels.
Matching == {w \in Selects[cur] : cm \in Reads[w]}

\* RestartPods works through the kinds in this order.
Rank(w) == CASE KindOf[w] \in {"Operator", "Foreign"} -> 1
             [] KindOf[w] = "Deployment" -> 2
             [] KindOf[w] = "DaemonSet" -> 3
             [] KindOf[w] = "StatefulSet" -> 4

Turn(w, kind) ==
    /\ pc = "refreshing" /\ w \in todo /\ KindOf[w] = kind
    /\ \A v \in todo : Rank(w) <= Rank(v)

DaemonSets == {w \in todo : KindOf[w] = "DaemonSet"}

\* Variant of Stamp: the template always looks the same.
StampConstant(w) == template' = [template EXCEPT ![w] = FirstList]

\* The annotation nss.ibm.com/namespaceList.
Stamp(w) == template' = [template EXCEPT ![w] = list[cm]]

\* When a stored Deployment changes, its copy is behind.
Behind(w) == old' = IF KindOf[w] = "Deployment" THEN old \cup {w} ELSE old

Changes(w) ==
    /\ IF template'[w] = template[w] THEN UNCHANGED old ELSE Behind(w)
    /\ UNCHANGED seen

\* A pod starts with what is published in the ConfigMaps it reads.
Starts(w) ==
    runs' = [runs EXCEPT ![w] = [c \in ConfigMap |-> IF c \in Reads[w] THEN list[c] ELSE @[c]]]

Replaced(w) == Starts(w) /\ unseen' = unseen \cup {w}

Operators == {w \in todo : KindOf[w] = "Operator"}

Done(ws) == todo' = todo \ ws

\* Variant of End: the rest of the work is kept.
EndUnfinished(how) ==
    /\ pc' = "idle" /\ lost' = {} /\ reviewed' = FALSE /\ UNCHANGED todo
    /\ result' = [result EXCEPT ![cm] = how]

End(how) ==
    /\ pc' = "idle" /\ todo' = {} /\ lost' = {} /\ reviewed' = FALSE
    /\ result' = [result EXCEPT ![cm] = how]

\* A new process reads everything anew, DaemonSets when it first needs them.
FreshCaches ==
    /\ old' = {} /\ unseen' = {} /\ synced' = FALSE
    /\ UNCHANGED <<template, seen>>

-----------------------------------------------------------------------------
(* The call                                                                *)

\* UpdateConfigMap has found a difference and stored the new list.
Write(s) ==
    /\ pc = "idle" /\ Spend("edit", MaxEdits)
    /\ LET c == CmOf[s]
       IN  /\ \E l \in Follows[list[c]] \ {list[c]} :
                 /\ list' = [list EXCEPT ![c] = l]
                 /\ used' = [used EXCEPT ![c] = @ \cup {l}]
                 /\ recurred' = IF l \in used[c] THEN recurred \cup {c} ELSE recurred
           /\ result' = [result EXCEPT ![c] = "none"]
    /\ pc' = "listing" /\ cur' = s /\ todo' = {} /\ lost' = {} /\ reviewed' = FALSE
    /\ UNCHANGED <<objectVars, unseen, clusterVars, rightVars, skipped>>

\* The informer's pods: where it has not heard of the new pod, it shows the old
\* one or none, and then the workload is missed.
ListPods ==
    /\ pc = "listing" /\ pc' = "refreshing"
    /\ \E missed \in SUBSET (Matching \cap unseen) :
          todo' = Matching \ missed /\ skipped' = skipped \cup missed
    /\ lost' = Operators' \cap unseen
    /\ UNCHANGED <<listVars, objectVars, unseen, clusterVars, rightVars, cur,
                   reviewed, result, spent>>

\* A pod with the annotation olm.operatorGroup is deleted and comes back.  One
\* that was replaced is not found, which is an error, or is still on its way out
\* and is deleted once more, in place of its successor.
DeletePod(w) ==
    /\ Turn(w, "Operator")
    /\ \/ w \in lost /\ End("failed") /\ UNCHANGED <<runs, unseen, skipped>>
       \/ /\ w \in lost /\ Done({w}) /\ lost' = lost \ {w} /\ skipped' = skipped \cup {w}
          /\ UNCHANGED <<pc, reviewed, result, runs, unseen>>
       \/ /\ w \notin lost /\ Done({w}) /\ Replaced(w) /\ skipped' = skipped \ {w}
          /\ UNCHANGED <<pc, reviewed, result, lost>>
    /\ UNCHANGED <<listVars, objectVars, from, rightVars, cur, spent>>

\* An owner reference without the field `controller`: *or.Controller panics, and
\* the process dies of it.
Panic(w) ==
    /\ Turn(w, "Foreign") /\ End("panicked") /\ FreshCaches
    /\ UNCHANGED <<listVars, clusterVars, access, watched, cur, skipped, spent>>

\* Get from the informer, Update with its resourceVersion: an old copy is a
\* conflict, and a conflict ends the call.
AnnotateDeployment(w) ==
    /\ Turn(w, "Deployment")
    /\ \/ w \in old /\ End("failed") /\ UNCHANGED <<objectVars, skipped>>
       \/ /\ w \notin old /\ Stamp(w) /\ Changes(w) /\ Done({w}) /\ skipped' = skipped \ {w}
          /\ UNCHANGED <<pc, lost, reviewed, result>>
    /\ UNCHANGED <<listVars, unseen, clusterVars, rightVars, cur, spent>>

SkipDaemonSets == Done(DaemonSets) /\ skipped' = skipped \cup DaemonSets

\* Variant of ReviewAccess: not being allowed to ask is an error.
ReviewAccessStrict ==
    /\ pc = "refreshing" /\ ~reviewed /\ \E w \in todo : Turn(w, "DaemonSet")
    /\ \/ access /\ reviewed' = TRUE /\ UNCHANGED <<pc, todo, lost, skipped, result>>
       \/ ~access /\ End("failed") /\ UNCHANGED skipped
    /\ UNCHANGED <<listVars, objectVars, unseen, clusterVars, rightVars, cur, spent>>

\* selfSubjectDaemonSetPermissionChecker.Check, of get and patch; without the
\* permission, or without that of asking, DaemonSets are left out.
ReviewAccess ==
    /\ pc = "refreshing" /\ ~reviewed /\ \E w \in todo : Turn(w, "DaemonSet")
    /\ \/ access /\ reviewed' = TRUE /\ UNCHANGED <<todo, skipped>>
       \/ ~access /\ SkipDaemonSets /\ UNCHANGED reviewed
    /\ UNCHANGED <<listVars, objectVars, unseen, clusterVars, rightVars, pc, cur, lost,
                   result, spent>>

\* The first Get of a DaemonSet starts their informer and returns when it has
\* listed them: without the right to, never.
SyncDaemonSets ==
    /\ reviewed /\ \E w \in todo : Turn(w, "DaemonSet")
    /\ ~synced /\ watched /\ synced' = TRUE /\ seen' = template
    /\ UNCHANGED <<listVars, template, old, unseen, clusterVars, access, watched, callVars, spent>>

\* A merge patch against the informer's copy; Forbidden after all ends the loop.
PatchDaemonSet(w) ==
    /\ Turn(w, "DaemonSet") /\ reviewed /\ synced
    /\ \/ ~access /\ SkipDaemonSets /\ UNCHANGED objectVars
       \/ /\ access /\ Done({w}) /\ skipped' = skipped \ {w}
          /\ IF seen[w] = list[cm] THEN UNCHANGED objectVars
             ELSE Stamp(w) /\ Changes(w)
    /\ UNCHANGED <<listVars, unseen, clusterVars, rightVars, pc, cur, lost, reviewed,
                   result, spent>>

\* originalStatefulSet is the object itself, so the patch says nothing.
PatchStatefulSet(w) ==
    /\ Turn(w, "StatefulSet") /\ Done({w})
    /\ UNCHANGED <<listVars, objectVars, unseen, clusterVars, rightVars, pc, cur, lost,
                   reviewed, skipped, result, spent>>

Finish ==
    /\ pc = "refreshing" /\ todo = {} /\ End("ok")
    /\ UNCHANGED <<listVars, objectVars, unseen, clusterVars, rightVars, cur, skipped, spent>>

\* Any call to the API server fails; UpdateConfigMap will find no difference and
\* not call again.
CallFails ==
    /\ pc # "idle" /\ Spend("fault", MaxFaults) /\ End("failed")
    /\ UNCHANGED <<listVars, objectVars, unseen, clusterVars, rightVars, cur, skipped>>

\* The operator dies, in a call or between two, and starts anew.
Crash ==
    /\ Spend("fault", MaxFaults) /\ FreshCaches
    /\ IF pc = "idle" THEN UNCHANGED <<pc, todo, lost, reviewed, result>> ELSE End("failed")
    /\ UNCHANGED <<listVars, clusterVars, access, watched, cur, skipped>>

Call ==
    \/ ListPods \/ ReviewAccess \/ SyncDaemonSets \/ Finish
    \/ \E w \in Workload : \/ DeletePod(w) \/ Panic(w) \/ AnnotateDeployment(w)
                           \/ PatchDaemonSet(w) \/ PatchStatefulSet(w)

-----------------------------------------------------------------------------
(* The cluster                                                             *)

\* The workload's controller replaces a pod whose template changed.
RollOut(w) ==
    /\ from[w] # template[w] /\ from' = [from EXCEPT ![w] = template[w]]
    /\ Replaced(w) /\ Behind(w)
    /\ UNCHANGED <<listVars, template, seen, rightVars, callVars, spent>>

\* A container crashes, or a pod is evicted and made anew from its template.
PodRestarts(w) ==
    /\ w \in Restarting /\ Spend("restart", MaxRestarts)
    /\ \/ Starts(w) /\ UNCHANGED <<unseen, lost>>
       \/ Replaced(w) /\ lost' = lost \cup (Operators \cap {w})
    /\ UNCHANGED <<listVars, objectVars, from, rightVars, pc, cur, todo, reviewed, skipped,
                   result>>

\* An informer hears of a Deployment, a DaemonSet or the pods of a workload.
CatchUp(w) ==
    /\ \/ w \in old /\ old' = old \ {w} /\ UNCHANGED <<seen, unseen>>
       \/ /\ KindOf[w] = "DaemonSet" /\ synced /\ watched /\ seen[w] # template[w]
          /\ seen' = [seen EXCEPT ![w] = template[w]] /\ UNCHANGED <<old, unseen>>
       \/ w \in unseen /\ unseen' = unseen \ {w} /\ UNCHANGED <<seen, old>>
    /\ UNCHANGED <<listVars, template, clusterVars, rightVars, callVars, spent>>

ChangeAccess ==
    /\ Spend("access", MaxAccess)
    /\ \/ access' = ~access /\ UNCHANGED watched
       \/ watched' = ~watched /\ UNCHANGED access
    /\ UNCHANGED <<listVars, objectVars, unseen, clusterVars, synced, callVars>>

Init ==
    /\ list = [c \in ConfigMap |-> FirstList] /\ used = [c \in ConfigMap |-> {FirstList}]
    /\ recurred = {}
    /\ template = [w \in Workload |-> None] /\ seen = template /\ old = {}
    /\ unseen = {} /\ from = template /\ runs = [w \in Workload |-> list]
    /\ access = TRUE /\ watched = TRUE /\ synced = FALSE
    /\ pc = "idle" /\ cur \in Scope /\ todo = {} /\ lost = {} /\ reviewed = FALSE
    /\ skipped = {} /\ result = [c \in ConfigMap |-> "none"]
    /\ spent = [k \in {"edit", "fault", "restart", "access"} |-> 0]

Next ==
    \/ \E s \in Scope : Write(s)
    \/ Call \/ CallFails \/ Crash \/ ChangeAccess
    \/ \E w \in Workload : RollOut(w) \/ PodRestarts(w) \/ CatchUp(w)

Spec == Init /\ [][Next]_vars

\* Reconcile's worker and the workloads' controllers are never starved.
FairSpec == Spec /\ WF_vars(Call) /\ \A w \in Workload : WF_vars(RollOut(w))

-----------------------------------------------------------------------------
(* Properties                                                              *)

\* Every variable holds what the code and the cluster can put there, and work is
\* left only while a call runs.
TypeOK ==
    /\ list \in [ConfigMap -> List] /\ used \in [ConfigMap -> SUBSET List]
    /\ recurred \subseteq ConfigMap
    /\ template \in [Workload -> List \cup {None}] /\ seen \in [Workload -> List \cup {None}]
    /\ from \in [Workload -> List \cup {None}]
    /\ runs \in [Workload -> [ConfigMap -> List]] /\ old \subseteq Workload
    /\ unseen \subseteq Workload
    /\ pc \in {"idle", "listing", "refreshing"} /\ cur \in Scope
    /\ todo \subseteq (IF pc = "refreshing" THEN Matching ELSE {}) /\ lost \subseteq Workload
    /\ skipped \subseteq Workload
    /\ result \in [ConfigMap -> {"none", "ok", "failed", "panicked"}]
    /\ reviewed \in BOOLEAN /\ access \in BOOLEAN /\ watched \in BOOLEAN /\ synced \in BOOLEAN

\* The workloads RestartPods can keep up with a ConfigMap: not a StatefulSet (its
\* patch is empty), not one it left out (a DaemonSet it had no right to, one whose
\* pods its informer did not show), none that only some of the ConfigMap's scopes
\* select, and, since the annotation is one for all ConfigMaps and a hash of the
\* list alone, none that reads two of them and none whose list came back to an
\* earlier value; operator pods need no annotation.
Reached(w, c) ==
    /\ c \in Reads[w] /\ w \notin skipped /\ KindOf[w] # "StatefulSet"
    /\ \A s \in Scope : CmOf[s] = c => w \in Selects[s]
    /\ KindOf[w] # "Operator" => Reads[w] = {c} /\ c \notin recurred

\* From a successful RestartPods until the next one, every pod it can reach is up
\* to date or its replacement is due, whatever happens to the workload in between.
SuccessMeansRefreshed ==
    \A c \in ConfigMap, w \in Workload :
        result[c] = "ok" /\ Reached(w, c) =>
            runs[w][c] = list[c] \/ from[w] # template[w]

\* Missing rights on DaemonSets, noticed at the review or only at the patch, never
\* make RestartPods (and the reconcile with it) fail; only a failing call, an
\* operator pod that was replaced and a Deployment whose copy is old do.
RightsNeverFail ==
    [][\A c \in ConfigMap : result[c] # "failed" /\ result'[c] = "failed" =>
          \/ spent' # spent
          \/ \E w \in old : Turn(w, "Deployment")
          \/ \E w \in lost : Turn(w, "Operator")]_vars

\* The worker waits for an informer that may not list, until somebody grants it.
Blocked == reviewed /\ ~synced /\ ~watched /\ \E w \in todo : Turn(w, "DaemonSet")

\* The pods end up with the list that is published, unless the call for it failed
\* or panicked (it is never repeated: see UpdateConfigMap) or is blocked.
PodsFollow ==
    <>[](\A c \in ConfigMap, w \in Workload :
            result[c] \in {"none", "ok"} /\ Reached(w, c) /\ ~(Blocked /\ c = cm) =>
                runs[w][c] = list[c])
=============================================================================
