----------------------------- MODULE CsvInjector -----------------------------
(***************************************************************************)
(* The second controller, CSVReconcile: for every NamespaceScope with      *)
(* csvInjector enabled it looks for the packages that ClusterServiceVersions*)
(* ask for by annotation, points WATCH_NAMESPACE of their operators at the *)
(* scope's ConfigMap, adds the restartLabels, and narrows the namespace    *)
(* selector of their webhooks to the validated members.  It has a worker   *)
(* and a queue of its own, meets Reconcile, OLM and administrators only in *)
(* the API server, and reads everything from informers that may be behind. *)
(*                                                                         *)
(* A CSV is one Deployment with one container; a hooked one has one        *)
(* webhook configuration (mutating or validating, the code is the same)    *)
(* with one selector, of namespace names.  CSVs and webhooks are written   *)
(* anew in place, never removed.  Restart labels of different scopes have  *)
(* different keys.                                                         *)
(***************************************************************************)
EXTENDS FiniteSets, Naturals

CONSTANTS
    Scope, ConfigMap,       \* NamespaceScopes and what they may name
    Ns,                     \* namespaces
    Package, Csv, PackageOf,\* ClusterServiceVersions by package
    Hooked,                 \* those with the annotation for webhooks
    Bare,                   \* those whose pod template has no labels at all
    Absent, Plain,          \* WATCH_NAMESPACE: not there, a plain value
    StartEnabled,           \* the scopes that may have the injector enabled at first
    StartCm,                \* spec.configmapName of each scope at first
    StartMarks,             \* the packages that are asked for at first
    StartEnv,               \* what WATCH_NAMESPACE of each CSV may be at first
    StartHook,              \* the namespaces each webhook selects at first
    StartValidated,         \* status.validatedMembers of each scope at first
    Touched,                \* the scopes that users and Reconcile change
    MaxOthers,              \* bound on steps of others
    MaxFaults               \* bound on failing calls and crashes

ASSUME InjectorOK ==
    /\ StartEnabled \subseteq SUBSET Scope /\ Touched \subseteq Scope
    /\ StartCm \in [Scope -> ConfigMap] /\ PackageOf \in [Csv -> Package]
    /\ Hooked \subseteq Csv /\ Bare \subseteq Csv
    /\ StartMarks \subseteq Package
    /\ StartEnv \subseteq [Csv -> ConfigMap \cup {Absent, Plain}]
    /\ {Absent, Plain} \cap ConfigMap = {} /\ StartHook \in [Csv -> SUBSET Ns]
    /\ StartValidated \in [Scope -> SUBSET Ns] /\ MaxOthers \in Nat /\ MaxFaults \in Nat

VARIABLES
    scope,      \* each NamespaceScope: spec, deletion, members, lists of the status
    marks,      \* packages some CSV asks for
    csv,        \* each CSV's Deployment: WATCH_NAMESPACE, labels, the rest
    hook,       \* the namespaces each webhook selects, {} for all of them
    seen,       \* the scopes in the informer's copy
    csvSeen, marksSeen, \* the CSVs in the informer's copy
    behind,     \* the webhooks whose copy is not current
    queue,      \* keys to reconcile, now or in 180 seconds: time is not modelled
    hasOLMAPI,  \* OLM was there when the operator started
    pc, cur,    \* place in CSVReconcile, the key in hand
    configmapName, known, \* spec.configmapName and the lists of the status, as read
    nsList, todo,  \* validatedMembers it has read; packages still to do
    batch,      \* the CSVs of the package in hand, as they were listed
    hooking,    \* the CSV whose webhook is done and whose Deployment is next
    lists,      \* the lists it builds
    calm,       \* what it has read still holds: see Take, ListCsvs and Reinstalls
    spent, faults  \* steps used of those bounds

objectVars == <<csv, hook>>
cacheVars == <<seen, csvSeen, marksSeen, behind>>
workerVars == <<pc, cur, configmapName, known, nsList, todo, batch, hooking, lists, calm>>
vars == <<scope, marks, objectVars, cacheVars, queue, hasOLMAPI, workerVars, spent, faults>>

-----------------------------------------------------------------------------
(* Helpers                                                                 *)

Spend == spent < MaxOthers /\ spent' = spent + 1 /\ UNCHANGED faults

\* The webhooks it manages and those it has patched: they differ only when a
\* call fails, and then neither list is written.
NoLists == [managed |-> {}, patched |-> {}, hooks |-> {}]

\* getAllValidatedNamespaceMembers, over stored scopes or a copy of them.
MembersOf(m, scopes) ==
    UNION {scopes[s].validated : s \in {x \in Scope : scopes[x].phase = "live" /\ scopes[x].cm = m}}

\* csvtoRequest and its twins for webhooks: every scope there is, in the copy.
AllKeys == {s \in Scope : seen[s].phase # "gone"}

\* The predicate of the watch compares the copy with its successor by
\* DeepDerivative, which does not see what is only added.
CsvEvent(c) ==
    \/ csvSeen[c].env \notin {Absent, csv[c].env} \/ csv[c].rest # csvSeen[c].rest
    \/ ~(csvSeen[c].labels \subseteq csv[c].labels)

\* GenerationChangedPredicate: the spec or the deletion.
ScopeEvent(s) == [scope[s] EXCEPT !.validated = {}, !.status = NoLists]
                   # [seen[s] EXCEPT !.validated = {}, !.status = NoLists]

\* Variant of Requeue: nothing is asked for after a success.
RequeueNever == UNCHANGED queue

\* RequeueAfter: 180 * time.Second
Requeue == queue' = queue \cup {cur}

\* What a call knew is gone when it returns.
Forget ==
    /\ pc' = "idle" /\ known' = NoLists /\ nsList' = {} /\ todo' = {} /\ lists' = NoLists
    /\ calm' = FALSE /\ UNCHANGED <<cur, configmapName>>

\* Variant of Rest: the package in hand is kept.
RestForgetting == Forget /\ hooking' = {} /\ UNCHANGED batch

Rest == Forget /\ hooking' = {} /\ batch' = [c \in {} |-> csvSeen[c]]

\* Any error ends the reconcile; the key comes back after a backoff.
Fail == Rest /\ queue' = queue \cup {cur} /\ UNCHANGED cacheVars

\* The process dies; a new one reads everything anew and has every scope in its
\* queue.
Restart ==
    /\ Rest
    /\ seen' = scope /\ csvSeen' = csv /\ marksSeen' = marks /\ behind' = {}
    /\ queue' = {s \in Scope : scope[s].phase # "gone"}

-----------------------------------------------------------------------------
(* CSVReconcile                                                            *)

\* Get, from the informer's copy.
Take(s) ==
    /\ pc = "idle" /\ s \in queue
    /\ LET there == seen[s].phase # "gone" /\ seen[s].enabled
       IN  \/ ~there /\ queue' = queue \ {s} /\ UNCHANGED workerVars
           \/ there /\ ~hasOLMAPI /\ UNCHANGED <<queue, workerVars>>
           \/ /\ there /\ hasOLMAPI /\ queue' = queue \ {s} /\ pc' = "reading" /\ cur' = s
              /\ configmapName' = seen[s].cm /\ known' = seen[s].status
              /\ calm' = (seen[s].status = scope[s].status)
              /\ UNCHANGED <<nsList, todo, batch, hooking, lists>>
    /\ UNCHANGED <<scope, marks, objectVars, cacheVars, hasOLMAPI, spent, faults>>

\* The packages CSVs ask for, and the members of the scopes with this ConfigMap.
Read ==
    /\ pc = "reading" /\ pc' = "package"
    /\ todo' = marksSeen /\ nsList' = MembersOf(configmapName, seen)
    /\ UNCHANGED <<scope, marks, objectVars, cacheVars, queue, hasOLMAPI, cur, configmapName,
                   known, batch, hooking, lists, calm, spent, faults>>

\* The next package: its CSVs are listed by label, and it counts as patched as
\* soon as there is one.  A copy may still show WATCH_NAMESPACE as it was injected
\* before somebody wrote the CSV anew.
ListCsvs(p) ==
    /\ pc = "package" /\ DOMAIN batch = {} /\ p \in todo /\ todo' = todo \ {p}
    /\ LET found == {c \in Csv : PackageOf[c] = p}
       IN  /\ batch' = [c \in found |-> csvSeen[c]]
           /\ lists' = [lists EXCEPT !.managed = @ \cup {p},
                                     !.patched = IF found = {} THEN @ ELSE @ \cup {p}]
           /\ calm' = (calm /\ \A c \in found :
                                 csvSeen[c].env = configmapName => csv[c].env = configmapName)
    /\ UNCHANGED <<scope, marks, objectVars, cacheVars, queue, hasOLMAPI, pc,
                   cur, configmapName, known, nsList, hooking, spent, faults>>

\* patchWebhook, before the CSV itself.  The API server refuses a selector
\* without values, and the update of a copy that is not current.
PatchHook(c) ==
    /\ pc = "package" /\ c \in DOMAIN batch \cap Hooked /\ hooking = {}
    /\ \/ (nsList = {} \/ c \in behind) /\ Fail /\ UNCHANGED hook
       \/ /\ nsList # {} /\ c \notin behind
          /\ hook' = [hook EXCEPT ![c] = nsList] /\ hooking' = {c}
          /\ behind' = IF hook' = hook THEN behind ELSE behind \cup {c}
          /\ lists' = [lists EXCEPT !.hooks = @ \cup {c}]
          /\ UNCHANGED <<seen, csvSeen, marksSeen, queue, pc, cur, configmapName, known, nsList,
                         todo, batch, calm>>
    /\ UNCHANGED <<scope, marks, csv, hasOLMAPI, spent, faults>>

\* Variant of Inserted: an existing variable is left alone.
InsertedIfAbsent(c) ==
    [batch[c] EXCEPT !.env = IF @ = Absent THEN configmapName ELSE @,
                     !.labels = @ \cup (IF c \in Bare THEN {} ELSE {cur})]

\* Variant of Inserted: the labels of other scopes are not kept.
InsertedOwnLabels(c) ==
    [batch[c] EXCEPT !.env = configmapName, !.labels = IF c \in Bare THEN {} ELSE {cur}]

\* What the loop over deploymentSpecs makes of a listed CSV; into a template
\* without labels they are written in vain.
Inserted(c) ==
    [batch[c] EXCEPT !.env = configmapName,
                     !.labels = @ \cup (IF c \in Bare THEN {} ELSE {cur})]

\* The Deployments of one CSV: a merge patch replaces them all by what was
\* listed and changed since, unless nothing had to change in what was listed; a
\* plain WATCH_NAMESPACE has no ValueFrom, and the process panics.
PatchCsv(c) ==
    /\ pc = "package" /\ c \in DOMAIN batch
    /\ IF c \in Hooked THEN hooking = {c} ELSE hooking = {}
    /\ \/ batch[c].env = Plain /\ Restart /\ UNCHANGED csv
       \/ /\ batch[c].env # Plain /\ hooking' = {}
          /\ batch' = [d \in DOMAIN batch \ {c} |-> batch[d]]
          /\ csv' = IF Inserted(c) = batch[c] THEN csv ELSE [csv EXCEPT ![c] = Inserted(c)]
          /\ UNCHANGED <<cacheVars, queue, pc, cur, configmapName, known, nsList, todo,
                         lists, calm>>
    /\ UNCHANGED <<scope, marks, hook, hasOLMAPI, spent, faults>>

\* CheckListDifference: a merge patch of the lists that differ from those it had
\* read, if any does; the object may be gone by then.
WriteStatus ==
    /\ pc = "package" /\ todo = {} /\ DOMAIN batch = {}
    /\ \/ lists = known /\ Requeue /\ Rest /\ UNCHANGED <<scope, cacheVars>>
       \/ lists # known /\ scope[cur].phase = "gone" /\ Fail /\ UNCHANGED scope
       \/ /\ lists # known /\ scope[cur].phase # "gone"
          /\ scope' = [scope EXCEPT ![cur].status =
                          [k \in DOMAIN lists |-> IF lists[k] = known[k] THEN @[k] ELSE lists[k]]]
          /\ Requeue /\ Rest /\ UNCHANGED cacheVars
    /\ UNCHANGED <<marks, objectVars, hasOLMAPI, spent, faults>>

\* Any call to the API server fails, or the process dies.
CallFails ==
    /\ pc # "idle" /\ faults < MaxFaults /\ faults' = faults + 1
    /\ Fail \/ Restart
    /\ UNCHANGED <<scope, marks, objectVars, hasOLMAPI, spent>>

Work ==
    \/ Read \/ WriteStatus
    \/ \E p \in Package : ListCsvs(p)
    \/ \E c \in Csv : PatchHook(c) \/ PatchCsv(c)

-----------------------------------------------------------------------------
(* The informers                                                           *)

HearOfScopes ==
    /\ seen # scope /\ seen' = scope /\ queue' = queue \cup {s \in Scope : ScopeEvent(s)}
    /\ UNCHANGED <<scope, marks, objectVars, csvSeen, marksSeen, behind, hasOLMAPI,
                   workerVars, spent, faults>>

HearOfCsvs ==
    /\ <<csvSeen, marksSeen>> # <<csv, marks>> /\ csvSeen' = csv /\ marksSeen' = marks
    /\ queue' = IF \E c \in Csv : CsvEvent(c) THEN queue \cup AllKeys ELSE queue
    /\ UNCHANGED <<scope, marks, objectVars, seen, behind, hasOLMAPI, workerVars, spent, faults>>

\* Whether DeepDerivative sees a change of the selector depends on what it was and
\* on the order of its values, which is that of a map.
HearOfHooks ==
    /\ behind # {} /\ behind' = {}
    /\ queue' \in {queue, queue \cup AllKeys}
    /\ UNCHANGED <<scope, marks, objectVars, seen, csvSeen, marksSeen, hasOLMAPI,
                   workerVars, spent, faults>>

-----------------------------------------------------------------------------
(* Others                                                                  *)

Alive(s) == s \in Touched /\ scope[s].phase = "live"
Other == Spend /\ UNCHANGED <<cacheVars, queue, hasOLMAPI>>

\* Reconcile writes the status.
Validates(s) ==
    /\ Other /\ Alive(s)
    /\ \E ns \in (SUBSET Ns) \ {scope[s].validated} :
          scope' = [scope EXCEPT ![s].validated = ns]
    /\ UNCHANGED <<marks, objectVars, workerVars>>

\* A user switches the injector, names another ConfigMap or deletes the scope.
Switches(s) ==
    /\ Other /\ Alive(s) /\ scope' = [scope EXCEPT ![s].enabled = ~@]
    /\ UNCHANGED <<marks, objectVars, workerVars>>

Renames(s) ==
    /\ Other /\ Alive(s)
    /\ \E m \in ConfigMap \ {scope[s].cm} : scope' = [scope EXCEPT ![s].cm = m]
    /\ UNCHANGED <<marks, objectVars, workerVars>>

Deletes(s) ==
    /\ \/ Alive(s) /\ Spend /\ scope' = [scope EXCEPT ![s].phase = "deleting"]
       \/ /\ scope[s].phase = "deleting" /\ scope' = [scope EXCEPT ![s].phase = "gone"]
          /\ UNCHANGED <<spent, faults>>
    /\ UNCHANGED <<marks, objectVars, cacheVars, queue, hasOLMAPI, workerVars>>

\* An annotation comes or goes.
Marks(p) ==
    /\ Other /\ marks' = (marks \ {p}) \cup ({p} \ marks)
    /\ UNCHANGED <<scope, objectVars, workerVars>>

\* OLM or an administrator writes the CSV and its webhook anew: nothing of ours is
\* left in them.
Reinstalls(c) ==
    /\ Other /\ calm' = FALSE
    /\ csv' = [csv EXCEPT ![c] = [env |-> Absent, labels |-> {}, rest |-> @.rest + 1]]
    /\ hook' = [hook EXCEPT ![c] = {}] /\ behind' = behind \cup ({c} \cap Hooked)
    /\ UNCHANGED <<scope, marks, pc, cur, configmapName, known, nsList, todo, batch, hooking, lists>>

\* Somebody changes something else in the Deployment.
Edits(c) ==
    /\ Other /\ csv' = [csv EXCEPT ![c].rest = @ + 1]
    /\ UNCHANGED <<scope, marks, hook, workerVars>>

Init ==
    /\ \E on \in StartEnabled :
          scope = [s \in Scope |-> [enabled |-> s \in on, cm |-> StartCm[s], phase |-> "live",
                                    validated |-> StartValidated[s], status |-> NoLists]]
    /\ marks = StartMarks /\ hook = StartHook
    /\ \E env \in StartEnv : csv = [c \in Csv |-> [env |-> env[c], labels |-> {}, rest |-> 0]]
    /\ seen = scope /\ csvSeen = csv /\ marksSeen = marks /\ behind = {}
    /\ queue = Scope /\ hasOLMAPI \in BOOLEAN
    /\ pc = "idle" /\ cur \in Scope /\ configmapName = StartCm[cur] /\ known = NoLists
    /\ nsList = {} /\ todo = {} /\ batch = [c \in {} |-> csvSeen[c]] /\ hooking = {}
    /\ lists = NoLists /\ calm = FALSE
    /\ spent = 0 /\ faults = 0

Next ==
    \/ Work \/ CallFails \/ HearOfScopes \/ HearOfCsvs \/ HearOfHooks
    \/ \E s \in Scope : \/ Take(s) \/ Validates(s) \/ Switches(s)
                        \/ Renames(s) \/ Deletes(s)
    \/ \E p \in Package : Marks(p)
    \/ \E c \in Csv : Reinstalls(c) \/ Edits(c)

Spec == Init /\ [][Next]_vars

\* One worker over a first-in first-out queue; watches that deliver.
FairSpec ==
    /\ Spec /\ WF_vars(Work)
    /\ WF_vars(HearOfScopes) /\ WF_vars(HearOfCsvs) /\ WF_vars(HearOfHooks)
    /\ \A s \in Scope : SF_vars(Take(s))

-----------------------------------------------------------------------------
(* Properties                                                              *)

Deployment == [env: ConfigMap \cup {Absent, Plain}, labels: SUBSET Scope, rest: 0..MaxOthers]
Lists == [managed: SUBSET Package, patched: SUBSET Package, hooks: SUBSET Csv]
Instance == [enabled: BOOLEAN, cm: ConfigMap, phase: {"live", "deleting", "gone"},
             validated: SUBSET Ns, status: Lists]

\* Every variable holds what the code can put there; a CSV between its webhook
\* and its Deployment is one of the package in hand.
TypeOK ==
    /\ scope \in [Scope -> Instance] /\ seen \in [Scope -> Instance]
    /\ marks \subseteq Package /\ marksSeen \subseteq Package
    /\ csv \in [Csv -> Deployment] /\ csvSeen \in [Csv -> Deployment]
    /\ hook \in [Csv -> SUBSET Ns] /\ behind \subseteq Hooked
    /\ queue \subseteq Scope /\ cur \in Scope
    /\ configmapName \in ConfigMap /\ known \in Lists /\ lists \in Lists
    /\ pc \in {"idle", "reading", "package"} /\ nsList \subseteq Ns /\ todo \subseteq Package
    /\ DOMAIN batch \subseteq Csv /\ \A c \in DOMAIN batch : batch[c] \in Deployment
    /\ hooking \subseteq DOMAIN batch \cap Hooked
    /\ (pc = "idle" => DOMAIN batch = {} /\ todo = {})

\* What patchedCSVList says is so: every CSV of a package it names watches the
\* ConfigMap, and its webhooks are narrowed to the members read in the same
\* reconcile, however old the copies were that it worked with; provided that it
\* had read its own status as it is, that no CSV was written anew since it was
\* listed, and that none was listed with a WATCH_NAMESPACE that pointed at the
\* ConfigMap but does so no more (then the patch is skipped, and the package
\* counts as patched all the same).
PatchedMeansInjected ==
    [][WriteStatus /\ scope[cur].phase # "gone" /\ calm =>
        \A c \in Csv : PackageOf[c] \in scope'[cur].status.patched =>
            csv[c].env = configmapName /\ (c \in Hooked => hook[c] = nsList)]_vars

Asked == {c \in Csv : PackageOf[c] \in marks}
Serving == {s \in Scope : scope[s].enabled /\ scope[s].phase # "gone" /\ hasOLMAPI}
Agreed == \A s, t \in Serving : scope[s].cm = scope[t].cm
Members(s) == MembersOf(scope[s].cm, scope)

\* Once the others rest, with the enabled scopes agreed on a ConfigMap that has
\* members, every CSV that asks for it watches that ConfigMap and every webhook
\* selects exactly these members, although the status that holds them gives no
\* event, patches are skipped or written from old copies, and the name may have
\* changed while a reconcile worked with the old one; unless one of these CSVs has
\* a plain WATCH_NAMESPACE, at which the operator panics each time.
Injected ==
    <>[](Agreed /\ (\A c \in Asked : csv[c].env # Plain) =>
            \A s \in Serving : Members(s) # {} => \A c \in Asked :
                csv[c].env = scope[s].cm /\ (c \in Hooked => hook[c] = Members(s)))

\* Scopes that agree on a ConfigMap leave the CSVs alone in the end, though each
\* patch wakes all of them.
Settles == <>[]Agreed => <>[][csv' = csv]_csv
=============================================================================
