# A verification model of the IBM NamespaceScope operator

The operator keeps, for every `NamespaceScope` resource, a list of namespaces
in a ConfigMap, copies ("projects") Roles and RoleBindings of the service
accounts of its own namespace into those namespaces, restarts the pods that
read the list, and injects the list into operators' CSVs and webhooks. This
directory models both of its controllers with TLA+, checks the models with TLC
and proves the central safety properties with TLAPS.

## The system

| Component | State it keeps | Operations | What makes it correct |
|---|---|---|---|
| Reconcile (`controllers/namespacescope_controller.go`) | the instance in hand; everything else is in the API server | get the instance, add the finalizer, status with validated members, push RBAC (goroutines per namespace and per service account), report unprojected Roles, withdraw RBAC, write the ConfigMap, restart pods, runtime Roles, record the outcome; on deletion: ConfigMap, DeleteAllRbac, drop the finalizer | RBAC only behind a finalizer, clean-up before release, a shared namespace is kept, no error lost, "Completed" is true, everything converges |
| rulesFilter | none | intersect rules, expand wildcards | exactly the rights the Role and the operator's own permissions allow |
| PushRbacToNamespace | channels of errors and of unprojected Roles | fan out, copy Roles, bind them, collect | no goroutine blocks, what the call reports is so |
| RestartPods | pod templates | delete operator pods, annotate Deployments, DaemonSets, StatefulSets | pods follow the list |
| CSV controller (`CSVReconcile`) | CSV specs, webhook selectors, four lists in the status | inject, patch, patch the status | the injected list is the published one, and the patches come to an end |
| recordOperationTimingAndStatus, UpdateStatus, UpdateUnprojectedRolesStatus | status, history (3), timing (5) | replace, prepend and cut | bounded, newest first, no write undoes another's |
| API server | NamespaceScopes with resourceVersion, finalizers and deletion timestamps; ConfigMaps with owner references; RBAC objects with labels | optimistic updates, garbage collection | (external) |
| Informer caches, workqueue | copies of objects; keys to reconcile | catch up, enqueue, requeue with backoff or after 60 or 180 s | a stale copy never does harm |
| Users, `authorize-namespace.sh`, namespaces, OLM, workload controllers | specs, authorizations, phases, CSVs, pods | create, edit, rename, delete; authorize, withdraw; reinstall; roll out | (environment) |

Components share the API server and nothing else. Reconcile and the CSV
controller each have one worker, read through the same cache and write the same
NamespaceScope objects; several NamespaceScopes may name the same ConfigMap and
then share its list, its label and the RBAC objects; scopes with different
ConfigMaps share the RBAC objects and fight over the label. What is hard here:
each reconcile is a sequence of API calls that may fail or be cut off anywhere,
works on copies that may be old, and is interleaved with users, namespaces, the
other controller and the garbage collector; the operator keeps no state of its
own, so whatever the next reconcile needs to know has to be in an object.

`PROJECT.json` lists the hazards one by one, at their lines, with the
properties that cover them or the reason why none does.

## Modules

| Module | Models |
|---|---|
| `NamespaceScope` | the first controller and its environment; the core of the project |
| `ScopeLifecycle` | what the finalizer promises, without worker, caches or call order |
| `ScopeRefinement` | the refinement mapping from `NamespaceScope` to `ScopeLifecycle` |
| `RulesFilter` | rulesFilter as a function, against the meaning of a rule |
| `ProjectRbac` | PushRbacToNamespace from inside: two levels of goroutines and channels |
| `PodRefresh` | RestartPods from inside, with the workload controllers it relies on |
| `CsvInjector` | the second controller, with OLM, administrators and its own queue |
| `StatusHistory` | the writers of the status and its history |
| `MCNamespaceScope`, `MCProjectRbac`, `MCPodRefresh`, `MCCsvInjector`, `MCStatusHistory` | the constants of the instances; one `.cfg` per run |
| `KeptRecords` | adds nothing to `NamespaceScope`: the invariants behind what the records of the operator promise |
| `ProjectedRoles` | the same for `ProjectRbac`: what each goroutine has done and told so far |
| `NamespaceScopeProofs`, `ScopeRefinementProofs`, `KeptRecordsProofs`, `RulesFilterProofs`, `ProjectRbacProofs`, `PodRefreshProofs`, `CsvInjectorProofs`, `StatusHistoryProofs` | the proofs |

How they compose. `ScopeRefinement` instantiates `ScopeLifecycle` with the
phases read off the stored objects. `ProjectRbac` extends `RulesFilter`: the
rules a projected Role holds are those the filter returns. The other modules open
up one action of `NamespaceScope` each, with the data that action abstracts from,
because one state space for all of them could not be explored: `ProjectRbac`
is the action `Push` (and `PushesAsAbstracted` says that what one namespace sees
of it is one of the three alternatives of `Push`); `PodRefresh` is `RestartPods`;
`StatusHistory` is the status that `UpdateStatus`, `UpdateUnprojected` and
`Record` write and `CsvControllerPatches` touches; `CsvInjector` takes
`validatedMembers`, which `UpdateStatus` writes, from its environment.

Before some operators stands a `Variant of ...`: the same operator with a plausible
mistake in it, which a property must catch.

### NamespaceScope

| Variable | In the code |
|---|---|
| `api`, `made` | NamespaceScopes in the API server: uid, members, ConfigMap name, status, finalizer, deletionTimestamp |
| `cache`, `crLag`, `cmCache`, `cmLag` | what `r.Client.Get/List` return, and which copies are older than the stored object |
| `cms` | ConfigMaps: `data.namespaces`, owner references |
| `role`, `binding`, `runtime` | label of the projected Role and RoleBinding in each namespace; last writer of the runtime Role |
| `podView` | the list the pods were last started with |
| `nsPhase`, `authorized` | phase of a namespace; presence of `nss-managed-role-from-...` |
| `queue`, `pc`, `cur`, `inst`, `fresh`, `todo`, `spared`, `pushErr`, `missed` | workqueue; place in Reconcile; `req`, `instance`, whether its resourceVersion is the stored one, the rest of a loop, errors and reports of the goroutines |
| `spent` | how much of the bounds is used |

`UpdateUnprojected` belongs to every reconcile; it writes only for scopes with
`allowSubsetProjection` (the constant `SubsetCR`), since otherwise nothing is ever
missed here. That the flag may be switched, and a list of the time before is then
cleared, is in `StatusHistory`.

Each API call that may fail or be interleaved is an action of its own, in the
order of the code: `Start`, `AddFinalizer`, `UpdateStatus`, `Push(n)` (one per
goroutine, in any order), `UpdateUnprojected`, `DeleteRbacFromUnmanaged`,
`Delete(n)`, `UpdateConfigMap`, `RestartPods`, `RuntimeRoles`, `Record`, and for
the deletion path `UpdateConfigMap`, `RestartPods`, `DeleteAllRbac`, `Delete(n)`,
`RemoveFinalizer`. `Fail` and `Return` are the error paths and returns of
Reconcile. `CallFails` and the fault branches of `UpdateStatus`, `Push`, `Delete`
and `RuntimeRoles` are failing calls, `Crash` the death of the process.
Optimistic concurrency is the flag `fresh`: every other write to the object
clears it, and a write through a copy that is not fresh is refused. Status and
spec writes by the operator itself return the new version, so they leave the copy
fresh.

Abstractions: one service account with one Role is projected, lists are sets,
names and labels are atoms, every NamespaceScope lives in the operator's
namespace (the only one the manager watches). A deletion by label in a namespace
is split between RoleBinding and Role only when a call fails, because no step
that touches these objects is enabled in between other than the loss of the whole
namespace. The loop over runtime Roles is one step, with any prefix done when a
write fails. A status update decodes the server's answer into the instance; when
the stored object has no ConfigMap name the answer lacks the field, and decoding
keeps the name filled in by `setDefaults`. An explicitly stored empty name is not
modelled.

### ScopeLifecycle, ScopeRefinement

`life[c]` is `absent`, `open` (no finalizer), `held` or `leaving`; `traces` are the
labels of the projected objects; `serving` is the scope the operator is at work
for, the worker's `cur`. A scope projects only while it is served and is held or
leaving (or is Helm's), and is released only when the namespaces it claims are clean.
Without `serving` one of Helm's scopes would excuse every write.
Every step of the core maps to one of these or to a stutter; `excused` is the
worker's `spared`: namespaces a sibling claims, or where the operator is
Forbidden to delete.

### RulesFilter, ProjectRbac

A rule is a record of four sets; an empty `names` means every name, `Wild` is
`"*"`. `CopiedPart` is the explicit half of a rule, `WildPart` its wildcard half
limited by a rule of the managed Role, `rulesFilter` their union over all rules.

`ProjectRbac` has one worker per namespace and service account. `ListRoles`,
`ReadManaged`, `CopyRole` (one Role), `Report`, `BindRole` (one RoleBinding) and
`Leave` are its API calls and channel sends; `Collect(n)` is the outer goroutine
after `wg.Wait`, `Return` the end of `PushRbacToNamespace`. `errs`, `notes`,
`outErrs`, `outNotes` are the lengths of the channels, whose capacities the code
takes from the number of service accounts and of namespaces. A call works for
any one account or for all of them, in any order of the Roles, with or without
`allowSubsetProjection`. Roles and RoleBindings are read as stored, since the code
reads them through `mgr.GetAPIReader()`, past the caches. Administrators bind and
remove Roles, change the
operator's access and delete objects at any moment.

### PodRefresh

`template` is the annotation `nss.ibm.com/namespaceList` of each workload, `from`
the template a pod came from, `runs` the lists a pod was started with. Pods,
Deployments and DaemonSets are read from informers: `unseen` are the workloads of
whose newest pod none has told, `old` the Deployments whose copy is not current,
`seen` the annotation in the copy of a DaemonSet. `Write` is the update in
`UpdateConfigMap` that calls `RestartPods`, `ListPods` its list, then one action per
kind in the order of the code: `DeletePod`, `AnnotateDeployment`, `ReviewAccess`,
`SyncDaemonSets`, `PatchDaemonSet`, `PatchStatefulSet`, `Finish`. `RollOut` is the
workload's controller. The hash is taken to be injective.

- A listed operator pod that was replaced meanwhile (`lost`) is not found, which
  fails the call (line 1001 ignores no error), or is still terminating.
- The rights to get and patch DaemonSets (`access`) are reviewed, those to list and
  watch them (`watched`) are not, and the first cached Get starts the informer and
  waits for its list, without a timeout. Where they are missing the only worker
  waits in this Get until somebody grants them (`Blocked`); what the review and a
  patch Forbidden after all lead to is only logged.
- A Deployment's Update carries the copy's resourceVersion, so an old copy is a
  conflict and the call fails.

### CsvInjector

`scope[s]` is a NamespaceScope as the API server has it; `csv[c]` the one Deployment
of a CSV: its `WATCH_NAMESPACE`, its labels, a counter for everything else; `hook[c]`
the namespaces its webhook selects; `marks` the packages that annotations ask for.
The controller reads none of these but what the informers show: `seen`, `csvSeen`,
`marksSeen`, and for webhooks only whether the copy is current (`behind`), since
an update of one that is not is refused. Each informer hears of the present state
at any later time (`HearOfScopes`, `HearOfCsvs`, `HearOfHooks`) and the watch
predicates then decide which keys are queued: a scope's own when its spec or
deletion changed (`ScopeEvent`), all of them when a CSV or a webhook changed in
a way `DeepDerivative` sees (`CsvEvent`; for a webhook either outcome, as it depends
on the order of values made from a Go map).

`Take`, `Read`, `ListCsvs`, `PatchHook`, `PatchCsv`, `WriteStatus` are the steps of
`CSVReconcile`; `batch` holds the CSVs of the package in hand as they were listed. A
merge patch later writes the whole list of Deployments made from that copy, and
nothing at all when the copy needs no change, whatever is stored by then. `known`
are the lists of the status as read; only a list that differs from them is patched.
A failed call and a panic (`Restart`) are there too. The environment validates
members, switches, renames and deletes scopes, marks packages, writes CSVs anew and
edits them.

Abstractions: time is not modelled, so a key that comes back after 180 seconds is
in the queue at once, and any delay is a reconcile that is not taken yet. A CSV or a
webhook is written anew in place (`Reinstalls`), never removed. A selector is its set
of namespace names: match expressions with other keys, which the code keeps, are
left out.

### StatusHistory

One scope: `stored`, `cached` and `inst` are three generations of the same object
with its resourceVersion `rev`. `UpdateStatus` and `UpdateUnprojected` write through
the instance, `Record` through a copy read again, and a refused outcome is only
logged. `CsvPatches` writes beside them without a version. A runtime Role that cannot
be written (`runtimeFailed`) is recorded as a failure but returns no error, so that the
key comes back after 60 seconds (`timer`) and not with a backoff (`queued`).

## Runs

"lag" means the caches may be behind; without it they catch up before each step of
the worker. Deadlock checking is off in all runs: once the bounded steps of the
environment are spent and nothing is left to do, the system is at rest.

| Run | Instance | Checks |
|---|---|---|
| `siblings` | 2 scopes (one Helm's) on 1 ConfigMap, 2 targets, 3 user steps (create, edit, delete), 1 fault, lag | `TypeOK`, `IInv`, `FinalizerBeforeProjection`, `CleanedBeforeRelease`, `ImplementsLifecycle` |
| `withdraws` | 2 scopes on 1 ConfigMap, 2 targets, 4 user steps (create, edit, delete), 1 fault | `RbacAccounted`, `CompletedMeansProjected`, `CompletedMeansListed`, `SharedNamespaceKept`, `RecordsKeptInv` |
| `renames` | 2 scopes (one with allowSubsetProjection), 2 ConfigMaps, 1 target, no permission to get namespaces, 3 user steps (create, rename, delete), 1 namespace event | `CompletedMeansProjected`, `CompletedMeansListed`, `Converges` |
| `converges` | 1 scope, 1 target and the operator's namespace, 2 user steps, 2 namespace events, 1 fault, lag | `Converges` |
| `project` | 1 namespace, 2 accounts, 2 Roles, 2 calls, 1 administrator's step, 1 fault; 5 rules in the Roles, 3 in the managed Role | `TypeOK`, `NobodyBlocks`, `SuccessMeansCopied`, `SuccessMeansBoundFromScratch`, `SubsetReports`, `PushesAsAbstracted`, `PushReturns`, `CopiesGrantExactly`, `CopiesGrantSomething`, `GoroutinesInv` |
| `refresh` | 2 ConfigMaps, 3 lists, 5 workloads (one of each kind of owner), 2 new lists, 1 fault or crash, 1 restart of an operator pod or a Deployment's, 1 change of rights, lag | `TypeOK`, `SuccessMeansRefreshed`, `RightsNeverFail`, `PodsFollow` |
| `csv` | 2 scopes (one of which is changed), 2 ConfigMaps, 2 CSVs of one package (one with a webhook, one without labels), 1 package without any, 1 step of others, 1 fault or crash, lag | `TypeOK`, `PatchedMeansInjected`, `Injected`, `Settles` |
| `history` | history 3, timing 5, 6 reconciles, 2 writes of others, 1 fault, lag | `TypeOK`, `OneStory`, `NothingUndone`, `CompletedMeansCleared` |
| `leak`, `stale_list`, `restart_lost`, `project_unbound` | small | one statement of the repository each, which the code does not keep |

### What the properties say

Of the core:

- `FinalizerBeforeProjection`: a Role, RoleBinding or runtime Role is written only
  while the stored scope carries the finalizer and is the very object (uid) the
  worker works for. Helm's scopes are exempt in the code by label.
- `CleanedBeforeRelease`: at the step in which a scope under finalizer disappears,
  no member that is not spared (claimed by a sibling, or Forbidden) holds a Role
  or RoleBinding with its label.
- `ImplementsLifecycle`: the refinement of `ScopeLifecycle`, of which the two above
  are consequences.
- `SharedNamespaceKept`: withdrawing RBAC never takes what a live scope of the same
  ConfigMap claims. It needs caches that keep up: with a lagging sibling list the
  code does take it, and gives it back in the sibling's next reconcile.
- `RbacAccounted`: every projected object is reachable from a record from which a
  later reconcile would withdraw it. Its premise is `Undisturbed`: while nothing has
  failed and nothing was deleted. A failure between the push and the ConfigMap
  breaks it, and a deletion does (`leak`).
- `CompletedMeansProjected`, `CompletedMeansListed`: "Completed" is true. The second
  holds with caches that keep up; `stale_list` shows it does not with lag.
- `Converges`: if from some point on every live scope can be projected, then from
  some point on every live scope is served and no deletion is pending.

Of the projection:

- `NobodyBlocks`: no goroutine ever stands at a full channel; `PushReturns`: every
  call returns.
- `SuccessMeansCopied`: a call that reports no error and was not disturbed has left
  every Role of every account in every namespace, with the rules the filter gives.
- `SuccessMeansBoundFromScratch`: and bound it, where there was no RoleBinding before
  (`project_unbound` shows why that is needed).
- `SubsetReports`: with `allowSubsetProjection`, what was not copied is in the
  answer, except of a goroutine that stopped at Forbidden or whose error was only
  logged.
- `CopiesGrantExactly`: a projected Role grants a request exactly when a rule of its
  source Role does and names group and resource, or reaches them by a wildcard that
  the managed Role (where the operator found one) covers. `CopiesGrantSomething`: no
  Role is projected whose copy grants nothing.

Of the pods:

- `SuccessMeansRefreshed`: after a successful `RestartPods` every pod it can reach
  is up to date or its replacement is due. `Reached` names what it cannot reach:
  StatefulSets, DaemonSets it had no right to, workloads whose pod the informer did
  not show or whose listed operator pod was on its way out, workloads only some
  scopes of the ConfigMap select, workloads that read two ConfigMaps, and lists that
  return to an earlier value.
- `RightsNeverFail`: missing rights on DaemonSets never fail the reconcile; only a
  failing call or crash, an operator pod that was replaced and an old copy of a
  Deployment do.
- `PodsFollow`: in the end the pods run with the published list, unless the call for
  it failed, panicked, or waits for an informer that may not list DaemonSets.

Of the CSV controller:

- `PatchedMeansInjected`: when `patchedCSVList` is written, every CSV of a package it
  names watches the ConfigMap the reconcile read, and its webhook selects the members
  it read, however old the copies were. It has a premise (`calm`) of three parts:
  the status in hand was the stored one (otherwise a list that looks unchanged is not
  written, and the stored one names packages of another reconcile); no CSV was
  written anew in the meantime; and none was listed with a `WATCH_NAMESPACE` that
  points at the ConfigMap but in the stored CSV no longer does (then
  `DeepEqual` at line 1511 skips the patch, and the package counts as patched all the
  same). TLC finds a violation when any one of the three is dropped (the
  first needs two steps of others). A copy that is old in any other way does no harm
  here: the merge patch made from it writes the whole list of Deployments. It may
  thereby undo an edit, which this property does not speak of.
- `Injected`: once others rest and the enabled scopes agree on a ConfigMap with
  members, every marked CSV watches it and its webhook selects exactly the
  members; not while a marked CSV has a plain `WATCH_NAMESPACE`, at which the code
  panics.
- `Settles`: scopes that agree leave the CSVs alone in the end. Dropping the premise
  lets TLC show two scopes with different ConfigMaps that patch back and forth for
  ever.

Of the status:

- `OneStory`: status, `reconcileHistory` and `operationTiming` agree: newest first,
  each reconcile at most once, the history the head of the timing.
- `NothingUndone`: no write takes back the CSV controller's lists or a recorded
  outcome.
- `CompletedMeansCleared`: a completed reconcile that read `allowSubsetProjection`
  off leaves no unprojected Roles in the status.

### Bounds

The core's hazards need at most two scopes (a sibling), two targets (one that stays
and one that goes) and two ConfigMaps (a rename); a creation, a change and a deletion
with a recreation are three to four user steps; each violation found while the model
was built needed at most one fault. In `project` two accounts and two Roles are the least in which goroutines of one
namespace compete for its channels and a loop has a second round; two calls are the
least in which old objects meet a new call. `refresh` needs two ConfigMaps to have a
workload that reads both, and a third list so that lists need not return. The pods
that restart by themselves are those of the two kinds that lag of the pod informer
and a rollout treat differently. `csv` needs
two scopes to disagree; by symmetry one of them is changed. Its second package has no
CSV, so that a list of packages can change without a patch, and its one step of
others meets a fault or crash and any lag; `PatchedMeansInjected` was also checked
with two steps of others and no fault. `history` runs one reconcile more than the longer list holds.

The proofs remove the bounds for every safety property of the passing runs, with
the hypotheses named under Proofs; the liveness properties keep them.

### Fairness

- Core: the worker and the informers are never starved (weak fairness of `Reconcile`
  and of the two informers). A reconcile that ends in an error is retried after a
  growing backoff, one that ends well after 60 seconds, and both pauses outlast the
  lag of an informer again and again: strong fairness of an informer catching up
  while the worker rests, and of starting a key whose cached copy is current.
- `ProjectRbac`: the Go scheduler runs every goroutine that can run (weak fairness
  of the call's steps).
- `PodRefresh`: the worker, and the controllers of the workloads (weak fairness of
  `Call` and of each `RollOut`). No fairness of the informers is needed. The step in
  which a Get waits for the first list of DaemonSets is disabled while the right to
  list them is missing, so nothing is presumed of a blocked call.
- `CsvInjector`: one worker over a first-in first-out queue takes each waiting key
  (weak fairness of `Work`, strong fairness of `Take`), and watches deliver (weak
  fairness of each `HearOf...`). The core and this module presume that a cached Get or
  List returns.

Nothing is assumed of users, namespaces, OLM and faults, which are bounded instead.

## Findings

1. `leak`: a namespace removed from the members and not yet reconciled when the
   scope is deleted keeps its Role and RoleBinding. `DeleteAllRbac` reads
   `spec.namespaceMembers` only; the ConfigMap's list, which still names the
   namespace, has been overwritten before.
2. `stale_list`: `UpdateConfigMap` collects the members from the cache, which need not
   show the `validatedMembers` that `UpdateStatus` stored a moment before: the old list
   is published and the reconcile is recorded as Completed. A later reconcile
   repairs it.
3. `restart_lost`: the restart of the pods is lost when the operator stops, or a
   call fails, between the update of the ConfigMap and the restart.
4. `project_unbound`: `CreateRoleBinding` returns at the first RoleBinding that
   exists; a Role that comes later in the list is copied but not bound.

Seen while modelling, without a run of their own:

- The runtime Role has no label and no path deletes it. The published list contains
  the operator's own namespace only when the members name it (README of the
  repository, line 38, says otherwise). With `allowSubsetProjection` a namespace whose
  managed Role the operator may not read is missing from `status.unprojectedRoles`.
- `rulesFilter` copies the explicit part of a rule whether or not the managed Role
  covers it; only the wildcard part is limited.
- An empty list is stored as one empty name and never compares equal to itself, so a
  scope without validated members rewrites the ConfigMap and restarts the pods on
  every reconcile. A ConfigMap that exists without the operator's label is invisible
  to the cache, and `Create` fails on it for good.
- Restarts: a list that returns to an earlier value gives an old hash; two ConfigMaps
  share one annotation; only the writing scope's `restartLabels` count; a StatefulSet is
  patched against itself; an owner reference without `controller` panics.
- CSVs: a plain `WATCH_NAMESPACE` panics; an empty list of members makes a selector
  the API server refuses; labels put into a template without any are lost; the patch
  writes back the whole list of Deployments and undoes what changed since the list.
  `patchedCSVList` may name a package whose patch was skipped because the informer
  still showed an injection that is lost; the next reconcile repairs the CSV.
- DaemonSets: the rights to list and watch them, which the cached Get needs, are not
  reviewed; without them the only worker waits in `RestartPods`.
- Status: an outcome refused because its copy was old is logged and forgotten; the
  unprojected Roles stay in the status when the flag is off and the push fails; every
  recorded outcome is an event of its own scope.

## Proofs

All theorems hold for every choice of the constants that satisfies the named
assumptions, hence for every number of scopes, namespaces, ConfigMaps, rules and
every bound.

`NamespaceScopeProofs`, under `ConstantsOK` and `NoneIsNoObject` (None is neither a
name nor an object):

- `TypeCorrect`: `Spec => []TypeOK`
- `InvariantCorrect`: `Spec => []IInv`
- `FinalizerGuards`: `Spec => FinalizerBeforeProjection`
- `ReleaseIsClean`: `Spec => CleanedBeforeRelease`

`TypeOK` is inductive. The two action properties are not: that the finalizer is
there when a Role is written depends on what the worker's copy is worth, so `IInv`
adds

- `CopiesInv`: a cached live copy with finalizer, however old, stands for a scope
  still stored under that uid with its finalizer, because only `RemoveFinalizer`
  takes one away and only a copy that shows the deletion leads there; and a fresh
  worker's copy agrees with the stored object;
- `PathInv`: which steps belong to which of the two paths;
- `GuardInv`: past `addFinalizer` the scope is held by its finalizer;
- `CleanInv`: the loop invariant of `DeleteAllRbac`.

Each conjunct has a lemma that every step keeps it; `FinalizerStays` (only
`RemoveFinalizer` takes a finalizer away) carries `GuardInv` and `ReleaseIsClean`.

`ScopeRefinementProofs` proves `ImplementsTheLifecycle`: `Spec => Lifecycle!Spec`. On
top of `IInv` it needs `HeldInv` (the deletion path is taken with the finalizer in
hand) and one lemma per action that says which step of the
abstract module it is.

`KeptRecordsProofs` proves what the operator's records promise, under the same
assumptions and the hypotheses of each theorem:

| Theorem | Hypothesis | Conclusion |
|---|---|---|
| `RecordsCorrect` | none | `[]RecordsInv` |
| `ServedCorrect` | `~CacheLag` | `[](IInv /\ RecordsInv /\ ServedInv)` |
| `CompletedIsListed` | `~CacheLag` | `[]CompletedMeansListed` |
| `CompletedIsProjected` | `~CacheLag` | `[](spent["ns"] < 2 => CompletedMeansProjected)` |
| `KeptCorrect` | `~CacheLag`, no "rename" among `UserOps` | `[]RecordsKeptInv` |
| `SharedIsKept` | `~CacheLag`, no "rename" | `SharedNamespaceKept` |
| `RbacIsAccounted` | `~CacheLag`, no "rename" | `[](spent["ns"] = 0 => RbacAccounted)` |

None of the four properties is inductive: each speaks of one moment (the record,
the withdrawal) and what makes it true was done calls earlier. `RecordsKeptInv`,
which `withdraws` checks, is `IInv` and

- `RecordsInv`, of the copies alone, however old: a ConfigMap's copy outside the lag
  is the stored one, a fresh copy has the stored validated members, and every uid
  was given;
- `ServedInv`, of the reconcile in progress: what it withdraws is none of its own
  members (`WithdrawInv`), the namespaces whose goroutine is through without error
  hold Role and RoleBinding from then on (`ProjectedInv`), the list it has written
  holds its members (`ListedInv`);
- `SparedInv`: the namespaces of a deletion loop, computed before the loop, are
  claimed by nobody for as long as it runs;
- `QuietInv`: as long as nothing failed, was deleted or went away, each projected
  object is on the list of its ConfigMap or in the hands of the reconcile that is about
  to write it, and a list that is about to be shortened loses only what is clean.

The hypotheses are those under which the code keeps the promise; without each, TLC
shows a behaviour that breaks it. With lag a reconcile publishes a list read back
from its old copy (`stale_list`), takes the Role it has just pushed for one of an
unmanaged namespace, or withdraws from a namespace a sibling has just claimed. A scope
renamed to a ConfigMap from whose namespaces RBAC is just being withdrawn loses what
it claims until its own next reconcile. A namespace that goes away between the
push and the record takes its Role with it, which needs two of its steps. A rename
during the push leaves objects with a label no record names, and a namespace whose
authorization is withdrawn or that is going away makes a push fail as a fault does.
`renames` checks the two `Completed` properties with renames, `withdraws` all four
without.

`RulesFilterProofs`, under `RulesOK` (the wildcard is no group, resource or verb;
there is at least one group and one resource):

- `FilterGrantsExactly`: whatever the rules, the filter's result grants exactly
  `meant`. A rule of the copy grants a request iff the two rules it was made from do,
  by cases on the wildcard and on the empty list of names (`WildcardIntersection`,
  `NamesIntersection`).
- `ProjectedGrants`: it is empty exactly when it grants nothing: every rule of the
  copy has a request it grants.

`ProjectRbacProofs`, under `RulesOK` and `ProjectOK` (accounts and namespaces are
finite, every name made of a Role and an account is an object's name, every Role has
rules):

- `PushNeverBlocks`: `Spec => []NobodyBlocks`. `NobodyBlocks` is not inductive; it
  follows (`RoomInv`) from `PlacesInv`, where each goroutine may stand, and
  `ChannelsInv`: a channel holds no more than the goroutines that are past it. So
  whoever is about to send is missing in that count, and the capacity, which is the
  number of all of them, is not reached (`RoomForOne`).
- `CopiesAreExact`: `Spec => []CopiesGrantExactly`, and `CopiesAreNotEmpty`:
  `Spec => []CopiesGrantSomething`. `CopiesInv` says that every projected Role is the
  filter's result for its source, with or without the managed Role, and not empty;
  the two theorems about the filter say what that grants.
- `TypeCorrect`: `Spec => []TypeOK`, and `GoroutinesCorrect`: `Spec => []GoroutinesInv`,
  from which follow `SubsetIsReported` (`[]SubsetReports`), `PushIsAbstracted`
  (`[]PushesAsAbstracted`), and, assuming `NamesApart`, `SuccessIsCopied`
  (`[]SuccessMeansCopied`) and `SuccessIsBound` (`[]SuccessMeansBoundFromScratch`).

What a call reports is known when it returns, and what it did was done by
goroutines of which nothing is left but the objects and a number in a channel. So
`GoroutinesInv` (`ProjectedRoles`; `project` checks it) follows each of them:
`ListsInv` and `CappedInv` tie its list and its managed Role to what is bound and
readable while no administrator interferes; `CopiedInv` and `NotedInv` say that each
Role it has passed is copied, or noted; `BoundInv` the same for RoleBindings;
`ReportedInv` and `OuterInv` lead notes and errors through both channels into the
answer; `LoneInv` is the table of what a goroutine for one account and one Role
has left at each of its places. Every step is one of twelve forms (`StepForms`), told
apart by what they change. `NamesApart` says that the hashed names of projected objects
do not collide: with a collision one goroutine overwrites the Role another has just
copied, and the code has no defence.

`PodRefreshProofs`, under `RefreshOK`: `TypeCorrect`, `SuccessIsRefreshed`
(`[]SuccessMeansRefreshed`) and `RightsNeverFailed` (`RightsNeverFail`). That a pod is
up to date is not visible to the operator, which compares annotations; `AnnotationInv`
says what an annotation tells: where one ConfigMap decides and no list came twice,
a template or a pod that shows the present list was made since it was published.
`WorkInv` is the loop invariant of `RestartPods`, `DoneInv` what is left of it after a
success, until the next list is written. What the informers missed is in `skipped`,
so no hypothesis limits their lag.

`CsvInjectorProofs`, under `InjectorOK`: `TypeCorrect` and `PatchedIsInjected`
(`PatchedMeansInjected`), with informers arbitrarily far behind. The status is written
after the last package, so `PatchedInv` keeps what was injected for the earlier ones:
every CSV that has left the batch and whose package counts as patched watches the
ConfigMap, because only writing it anew (which ends `calm`) takes
`WATCH_NAMESPACE` away from it. `HandInv` says what the copies in hand are worth: one
that was listed as injected still is, so that a skipped patch was not needed, and a
webhook just done selects the members. `KnownInv` says that the status still has the
lists the reconcile started from, so that a list left out of the patch is right
as it stands; nobody but this worker writes these lists.

`StatusHistoryProofs`, under `HistoryOK` (the bounds are numbers and the history is
not longer than the timing):

- `StatusTyped`: `Spec => []TypeOK`; `StatusTellsOneStory`: `Spec => []OneStory`;
  `CompletedClears`: `Spec => []CompletedMeansCleared`; `StatusKeeps`:
  `Spec => NothingUndone`.

The inductive invariant adds `CopiesInv` (a copy with the latest version is the
latest object, so a write that is taken is made from what is stored: `StepWrites`),
`NumbersInv` (the outcome of the running reconcile is not in the timing yet) and
`FlagInv`: a copy that shows the flag off shows what unprojected Roles there are,
however old it is, because they were written for a copy that showed it on.

Only model-checked: the liveness properties `Converges`, `PushReturns`, `PodsFollow`,
`Injected` and `Settles`, which are out of the prover's reach. The four properties of
`KeptRecordsProofs` are not claimed outside its hypotheses; the bounds of `withdraws` and
`renames` keep within them.

## Not modelled

- Manifests, Helm chart, bundle and build files: data without behaviour.
- Generated code, registration, constants.
- The manager's flags, probes and leader election: one process is assumed at a time.
- The licence flag, events, logs, durations and messages: nothing depends on them.
- Label truncation to 63 characters and collisions of hashed names: names are atoms,
  and two ConfigMaps or Roles whose cut names collide would share their objects.
- ConfigMaps that somebody else made, with or without the operator's label.
- NamespaceScopes outside the operator's namespace, which the manager does not see.
- CSVs with several Deployments or containers, packages with several webhooks: the
  loops over them repeat the modelled step. CSVs and webhooks that are removed, and
  match expressions of a selector with keys of others.
