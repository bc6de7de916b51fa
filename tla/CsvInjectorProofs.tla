------------------------- MODULE CsvInjectorProofs -------------------------
(***************************************************************************)
(* What CSVReconcile writes into patchedCSVList is so: for any number of   *)
(* scopes, ConfigMaps, packages, ClusterServiceVersions and namespaces,    *)
(* and for informers as late as they like.                                 *)
(***************************************************************************)
EXTENDS CsvInjector, TLAPS

\* What others changed in a Deployment was counted.
CountInv ==
    /\ spent \in 0..MaxOthers
    /\ \A c \in Csv : csv[c].rest <= spent /\ csvSeen[c].rest <= spent
    /\ \A c \in DOMAIN batch : batch[c].rest <= spent

\* Only a reconcile at work on a package has CSVs in hand, and lists.
WorkInv == pc # "package" => DOMAIN batch = {} /\ todo = {} /\ lists = NoLists

\* While what was read holds, the status still has the lists it was read with.
KnownInv == pc # "idle" /\ calm => scope[cur].status = known

\* While what was read holds, a CSV in hand that was listed as injected is, and
\* one whose webhook is done selects the members.
HandInv ==
    pc = "package" /\ calm =>
        /\ \A c \in DOMAIN batch : batch[c].env = configmapName => csv[c].env = configmapName
        /\ \A c \in hooking : hook[c] = nsList

\* The package counts as patched from the start; its CSVs are when they have
\* left the batch.
PatchedInv ==
    pc = "package" /\ calm =>
        \A c \in Csv \ DOMAIN batch : PackageOf[c] \in lists.patched =>
            csv[c].env = configmapName /\ (c \in Hooked => hook[c] = nsList)

IInv == TypeOK /\ CountInv /\ WorkInv /\ KnownInv /\ HandInv /\ PatchedInv

-----------------------------------------------------------------------------
(* Types                                                                   *)

USE DEF objectVars, cacheVars, workerVars

LEMMA NoListsOK == NoLists \in Lists
BY DEF NoLists, Lists

LEMMA InitInv == Init => IInv
<1> SUFFICES ASSUME Init PROVE IInv
  OBVIOUS
<1>1. PICK env \in [Csv -> ConfigMap \cup {Absent, Plain}] :
          csv = [c \in Csv |-> [env |-> env[c], labels |-> {}, rest |-> 0]]
  BY InjectorOK DEF Init
<1>2. csv \in [Csv -> Deployment] /\ \A c \in Csv : csv[c].rest = 0
  BY <1>1, InjectorOK DEF Deployment
<1>3. PICK on \in SUBSET Scope :
          scope = [s \in Scope |-> [enabled |-> s \in on, cm |-> StartCm[s], phase |-> "live",
                                    validated |-> StartValidated[s], status |-> NoLists]]
  BY InjectorOK DEF Init
<1>4. scope \in [Scope -> Instance]
  BY <1>3, InjectorOK, NoListsOK DEF Instance
<1>5. TypeOK
  BY <1>2, <1>4, InjectorOK, NoListsOK DEF Init, TypeOK
<1>6. CountInv
  BY <1>2, InjectorOK DEF Init, CountInv
<1>7. WorkInv /\ KnownInv /\ HandInv /\ PatchedInv
  BY DEF Init, WorkInv, KnownInv, HandInv, PatchedInv
<1> QED BY <1>5, <1>6, <1>7 DEF IInv

\* The patch: its variable and labels, and the rest as it was listed.
LEMMA InsertedIs ==
    ASSUME TypeOK, NEW c \in DOMAIN batch
    PROVE  /\ Inserted(c) \in Deployment /\ Inserted(c).env = configmapName
           /\ Inserted(c).rest = batch[c].rest
<1>1. batch[c] \in Deployment /\ configmapName \in ConfigMap /\ cur \in Scope
  BY DEF TypeOK
<1> QED BY <1>1 DEF Inserted, Deployment

\* What a step does to Deployments: nothing, the patch, or a change by others.
LEMMA DeploymentSteps ==
    ASSUME [Next]_vars
    PROVE  \/ UNCHANGED csv /\ (UNCHANGED spent \/ Spend)
           \/ \E c \in Csv : PatchCsv(c) /\ UNCHANGED spent
           \/ \E c \in Csv : Reinstalls(c) \/ Edits(c)
BY DEF Next, Work, Take, Read, WriteStatus, ListCsvs, PatchHook, PatchCsv, CallFails, HearOfScopes,
       HearOfCsvs, HearOfHooks, Validates, Switches, Renames, Deletes, Marks, Other, vars

\* The CSVs in hand are as they were listed, and the informer's are as stored at
\* some time.
LEMMA CopySteps ==
    ASSUME TypeOK, [Next]_vars
    PROVE  /\ csvSeen' \in {csvSeen, csv}
           /\ \A c \in DOMAIN batch' : \/ c \in DOMAIN batch /\ batch'[c] = batch[c]
                                       \/ c \in Csv /\ batch'[c] = csvSeen[c]
<1>1. csvSeen' \in {csvSeen, csv}
  BY DEF Next, Work, Take, Read, WriteStatus, ListCsvs, PatchHook, PatchCsv, CallFails, HearOfScopes,
         HearOfCsvs, HearOfHooks, Validates, Switches, Renames, Deletes, Marks, Reinstalls, Edits,
         Other, Fail, Restart, vars
<1>2. \/ UNCHANGED batch \/ Rest
      \/ \E p \in Package : ListCsvs(p)
      \/ \E c \in Csv : batch' = [d \in DOMAIN batch \ {c} |-> batch[d]]
  BY DEF Next, Work, Take, Read, WriteStatus, PatchHook, PatchCsv, CallFails, HearOfScopes,
         HearOfCsvs, HearOfHooks, Validates, Switches, Renames, Deletes, Marks, Reinstalls, Edits,
         Other, Fail, Restart, vars
<1>3. ASSUME Rest PROVE DOMAIN batch' = {}
  BY <1>3 DEF Rest
<1>4. ASSUME NEW p \in Package, ListCsvs(p)
      PROVE  \A c \in DOMAIN batch' : c \in Csv /\ batch'[c] = csvSeen[c]
  BY <1>4 DEF ListCsvs
<1> QED BY <1>1, <1>2, <1>3, <1>4

LEMMA CountNext == TypeOK /\ CountInv /\ [Next]_vars => CountInv'
<1> SUFFICES ASSUME TypeOK, CountInv, [Next]_vars PROVE CountInv'
  OBVIOUS
<1> USE DEF CountInv
<1>0. MaxOthers \in Nat /\ \A c \in Csv : csv[c].rest \in Nat /\ csvSeen[c].rest \in Nat
  BY InjectorOK DEF TypeOK, Deployment
<1>1. \A c \in DOMAIN batch : batch[c].rest \in Nat
  BY InjectorOK DEF TypeOK, Deployment
<1>2. spent' \in {spent, spent + 1} /\ spent' <= MaxOthers
  <2>1. UNCHANGED spent \/ Spend
    BY Zenon, DeploymentSteps DEF Reinstalls, Edits, Other
  <2> QED BY <1>0, <2>1 DEF Spend
<1>3. \A c \in Csv : csv'[c].rest <= spent'
  <2>1. CASE UNCHANGED csv
    BY <1>0, <1>2, <2>1
  <2>2. ASSUME NEW c \in Csv, PatchCsv(c), UNCHANGED spent PROVE \A d \in Csv : csv'[d].rest <= spent'
    <3>1. c \in DOMAIN batch /\ csv' \in {csv, [csv EXCEPT ![c] = Inserted(c)]}
      BY <2>2 DEF PatchCsv
    <3>2. \A d \in Csv : csv'[d] \in {csv[d], Inserted(c)}
      BY <3>1 DEF TypeOK
    <3> QED BY <2>2, <3>1, <3>2, InsertedIs
  <2>3. ASSUME NEW c \in Csv, Reinstalls(c) \/ Edits(c) PROVE \A d \in Csv : csv'[d].rest <= spent'
    <3>1. spent' = spent + 1
      BY <2>3 DEF Reinstalls, Edits, Other, Spend
    <3>2. \A d \in Csv : csv[d] \in Deployment
      BY DEF TypeOK
    <3>3. \A d \in Csv : csv'[d].rest \in {csv[d].rest, csv[d].rest + 1}
      BY <2>3, <3>2 DEF Reinstalls, Edits, TypeOK, Deployment
    <3> QED BY <1>0, <3>1, <3>3
  <2> QED BY <2>1, <2>2, <2>3, DeploymentSteps
<1>4. \A c \in Csv : csvSeen'[c].rest <= spent'
  BY <1>0, <1>2, CopySteps
<1>5. \A c \in DOMAIN batch' : batch'[c].rest <= spent'
  BY <1>0, <1>1, <1>2, CopySteps
<1> QED BY <1>0, <1>2, <1>3, <1>4, <1>5

\* The rest of a Deployment cannot have changed more often than was counted.
DeploymentsOK ==
    /\ csv \in [Csv -> Deployment] /\ csvSeen \in [Csv -> Deployment]
    /\ \A c \in DOMAIN batch : batch[c] \in Deployment

LEMMA DeploymentsNext == TypeOK /\ CountInv /\ [Next]_vars => DeploymentsOK'
<1> SUFFICES ASSUME TypeOK, CountInv, [Next]_vars PROVE DeploymentsOK'
  OBVIOUS
<1>0. DeploymentsOK
  BY DEF TypeOK, DeploymentsOK
<1>1. csv' \in [Csv -> Deployment]
  <2>1. ASSUME NEW c \in Csv, PatchCsv(c) PROVE csv' \in [Csv -> Deployment]
    <3>1. c \in DOMAIN batch /\ csv' \in {csv, [csv EXCEPT ![c] = Inserted(c)]}
      BY <2>1 DEF PatchCsv
    <3> QED BY <1>0, <3>1, InsertedIs DEF DeploymentsOK
  <2>2. ASSUME NEW c \in Csv, Reinstalls(c) \/ Edits(c) PROVE csv' \in [Csv -> Deployment]
    <3>1. csv[c].rest + 1 \in 0..MaxOthers /\ csv[c] \in Deployment
      BY <1>0, <2>2, InjectorOK DEF Reinstalls, Edits, Other, Spend, CountInv, Deployment, DeploymentsOK
    <3>2. /\ [env |-> Absent, labels |-> {}, rest |-> csv[c].rest + 1] \in Deployment
          /\ [csv[c] EXCEPT !.rest = @ + 1] \in Deployment
      BY <3>1 DEF Deployment
    <3>3. \/ csv' = [csv EXCEPT ![c] = [env |-> Absent, labels |-> {}, rest |-> csv[c].rest + 1]]
          \/ csv' = [csv EXCEPT ![c] = [csv[c] EXCEPT !.rest = @ + 1]]
      BY <1>0, <2>2 DEF Reinstalls, Edits, DeploymentsOK
    <3> QED BY <1>0, <3>2, <3>3 DEF DeploymentsOK
  <2> QED BY <1>0, <2>1, <2>2, DeploymentSteps DEF DeploymentsOK
<1> QED BY <1>0, <1>1, CopySteps DEF DeploymentsOK

\* The parts of TypeOK that are not about Deployments: what scopes and others
\* write, and what the worker holds.
ScopesOK ==
    /\ scope \in [Scope -> Instance] /\ seen \in [Scope -> Instance]
    /\ marks \subseteq Package /\ marksSeen \subseteq Package
    /\ hook \in [Csv -> SUBSET Ns] /\ behind \subseteq Hooked /\ queue \subseteq Scope

WorkerOK ==
    /\ configmapName \in ConfigMap /\ known \in Lists /\ lists \in Lists /\ cur \in Scope
    /\ pc \in {"idle", "reading", "package"} /\ nsList \subseteq Ns /\ todo \subseteq Package
    /\ DOMAIN batch \subseteq Csv /\ hooking \subseteq DOMAIN batch \cap Hooked
    /\ pc # "package" => DOMAIN batch = {} /\ todo = {} /\ lists = NoLists

LEMMA Parts ==
    /\ TypeOK /\ WorkInv => ScopesOK /\ WorkerOK
    /\ ScopesOK /\ WorkerOK /\ DeploymentsOK => TypeOK /\ WorkInv
BY DEF TypeOK, WorkInv, ScopesOK, WorkerOK, DeploymentsOK

\* A scope is changed one field at a time.
LEMMA InstanceKept ==
    ASSUME NEW f \in [Scope -> Instance], NEW s \in Scope
    PROVE  /\ \A ls \in Lists : [f EXCEPT ![s].status = ls] \in [Scope -> Instance]
           /\ \A ns \in SUBSET Ns : [f EXCEPT ![s].validated = ns] \in [Scope -> Instance]
           /\ \A m \in ConfigMap : [f EXCEPT ![s].cm = m] \in [Scope -> Instance]
           /\ [f EXCEPT ![s].enabled = ~@] \in [Scope -> Instance]
           /\ \A p \in {"live", "deleting", "gone"} : [f EXCEPT ![s].phase = p] \in [Scope -> Instance]
BY DEF Instance

\* A merge patch of some of the lists gives lists.
LEMMA MergedOK ==
    ASSUME NEW a \in Lists, NEW b \in Lists, NEW k \in Lists
    PROVE  [f \in DOMAIN a |-> IF a[f] = k[f] THEN b[f] ELSE a[f]] \in Lists
BY DEF Lists

LEMMA ScopesNext == ScopesOK /\ WorkerOK /\ [Next]_vars => ScopesOK'
<1> SUFFICES ASSUME ScopesOK, WorkerOK, [Next]_vars PROVE ScopesOK'
  OBVIOUS
<1> USE DEF ScopesOK
<1>0. AllKeys \subseteq Scope
  BY DEF AllKeys
<1>1. ASSUME Fail \/ Restart, UNCHANGED <<scope, marks, hook>> PROVE ScopesOK'
  BY <1>1 DEF Fail, Restart, WorkerOK
<1>2. ASSUME NEW c \in Csv, PatchHook(c) PROVE ScopesOK'
  <2>1. CASE Fail /\ UNCHANGED hook
    <3>1. UNCHANGED <<scope, marks, hook>>
      BY <1>2, <2>1 DEF PatchHook
    <3> QED BY <1>1, <2>1, <3>1
  <2>2. CASE hook' = [hook EXCEPT ![c] = nsList] /\ UNCHANGED <<seen, marksSeen, queue>>
    <3>1. hook' \in [Csv -> SUBSET Ns] /\ behind' \subseteq Hooked
      BY <1>2, <2>2 DEF WorkerOK, PatchHook, Fail
    <3> QED BY <1>2, <2>2, <3>1 DEF PatchHook
  <2> QED BY <1>2, <2>1, <2>2 DEF PatchHook
<1>3. ASSUME NEW c \in Csv, PatchCsv(c) PROVE ScopesOK'
  BY <1>1, <1>3 DEF PatchCsv
<1>4. ASSUME CallFails PROVE ScopesOK'
  BY <1>1, <1>4 DEF CallFails
<1>5. ASSUME WriteStatus PROVE ScopesOK'
  <2>1. CASE Fail /\ UNCHANGED scope
    BY <1>1, <1>5, <2>1 DEF WriteStatus
  <2>2. CASE Requeue /\ Rest /\ UNCHANGED cacheVars
    <3>1. scope[cur].status \in Lists
      BY DEF WorkerOK, Instance
    <3>2. scope' \in [Scope -> Instance]
      <4>1. CASE UNCHANGED scope
        BY <4>1
      <4>2. CASE scope' = [scope EXCEPT ![cur].status =
                             [k \in DOMAIN lists |-> IF lists[k] = known[k] THEN @[k] ELSE lists[k]]]
        <5> DEFINE merged == [k \in DOMAIN lists |-> IF lists[k] = known[k] THEN scope[cur].status[k]
                                                                         ELSE lists[k]]
        <5>1. merged \in Lists
          BY <3>1, MergedOK DEF WorkerOK
        <5>2. scope' = [scope EXCEPT ![cur].status = merged]
          BY <4>2
        <5> HIDE DEF merged
        <5> QED BY <5>1, <5>2, InstanceKept DEF WorkerOK
      <4> QED BY <1>5, <4>1, <4>2 DEF WriteStatus
    <3> QED BY <1>5, <2>2, <3>2 DEF WriteStatus, Requeue, WorkerOK
  <2> QED BY <1>5, <2>1, <2>2 DEF WriteStatus
<1>6. ASSUME NEW s \in Scope, Take(s) PROVE ScopesOK'
  BY <1>6 DEF Take
<1>7. ASSUME NEW s \in Scope, Validates(s) \/ Switches(s) \/ Renames(s) \/ Deletes(s) PROVE ScopesOK'
  <2>1. \/ \E ns \in SUBSET Ns : scope' = [scope EXCEPT ![s].validated = ns]
        \/ scope' = [scope EXCEPT ![s].enabled = ~@]
        \/ \E m \in ConfigMap : scope' = [scope EXCEPT ![s].cm = m]
        \/ \E p \in {"live", "deleting", "gone"} : scope' = [scope EXCEPT ![s].phase = p]
    BY <1>7 DEF Validates, Switches, Renames, Deletes
  <2>2. scope' \in [Scope -> Instance]
    <3>1. /\ \A ns \in SUBSET Ns : [scope EXCEPT ![s].validated = ns] \in [Scope -> Instance]
          /\ \A m \in ConfigMap : [scope EXCEPT ![s].cm = m] \in [Scope -> Instance]
          /\ [scope EXCEPT ![s].enabled = ~@] \in [Scope -> Instance]
          /\ \A p \in {"live", "deleting", "gone"} : [scope EXCEPT ![s].phase = p] \in [Scope -> Instance]
      BY InstanceKept
    <3>2. ASSUME NEW ns \in SUBSET Ns, scope' = [scope EXCEPT ![s].validated = ns]
          PROVE scope' \in [Scope -> Instance]
      BY ZenonT(60), <3>1, <3>2
    <3>3. ASSUME NEW m \in ConfigMap, scope' = [scope EXCEPT ![s].cm = m]
          PROVE scope' \in [Scope -> Instance]
      BY ZenonT(60), <3>1, <3>3
    <3>4. CASE scope' = [scope EXCEPT ![s].enabled = ~@]
      BY ZenonT(60), <3>1, <3>4
    <3>5. ASSUME NEW p \in {"live", "deleting", "gone"}, scope' = [scope EXCEPT ![s].phase = p]
          PROVE scope' \in [Scope -> Instance]
      BY ZenonT(60), <3>1, <3>5
    <3> QED BY ZenonT(60), <2>1, <3>2, <3>3, <3>4, <3>5
  <2> QED BY <1>7, <2>2 DEF Validates, Switches, Renames, Deletes, Other
<1>8. ASSUME NEW p \in Package, Marks(p) \/ ListCsvs(p) PROVE ScopesOK'
  BY <1>8 DEF Marks, Other, ListCsvs
<1>9. ASSUME NEW c \in Csv, Reinstalls(c) \/ Edits(c) PROVE ScopesOK'
  BY <1>9 DEF Reinstalls, Edits, Other
<1>10. ASSUME HearOfScopes \/ HearOfCsvs \/ HearOfHooks PROVE ScopesOK'
  BY <1>0, <1>10 DEF HearOfScopes, HearOfCsvs, HearOfHooks
<1>11. CASE Read \/ UNCHANGED vars
  BY <1>11 DEF Read, vars
<1> QED
  BY <1>2, <1>3, <1>4, <1>5, <1>6, <1>7, <1>8, <1>9, <1>10, <1>11 DEF Next, Work

\* Either the worker goes back to rest, with nothing in hand, or it moves on.
LEMMA WorkerNext == ScopesOK /\ WorkerOK /\ [Next]_vars => WorkerOK'
<1> SUFFICES ASSUME ScopesOK, WorkerOK, [Next]_vars PROVE WorkerOK'
  OBVIOUS
<1> USE DEF WorkerOK
<1>1. ASSUME Rest PROVE WorkerOK'
  BY <1>1, NoListsOK DEF Rest, Forget
<1>2. ASSUME Fail \/ Restart PROVE WorkerOK'
  BY <1>1, <1>2 DEF Fail, Restart
<1>3. ASSUME NEW s \in Scope, Take(s) PROVE WorkerOK'
  BY <1>3 DEF Take, ScopesOK, Instance
<1>4. ASSUME Read PROVE WorkerOK'
  <2>1. MembersOf(configmapName, seen) \subseteq Ns
    BY DEF MembersOf, ScopesOK, Instance
  <2> QED BY <1>4, <2>1 DEF Read, ScopesOK
<1>5. ASSUME NEW p \in Package, ListCsvs(p) PROVE WorkerOK'
  <2>1. lists' \in Lists
    BY <1>5 DEF ListCsvs, Lists
  <2> QED BY <1>5, <2>1 DEF ListCsvs
<1>6. ASSUME NEW c \in Csv, PatchHook(c) PROVE WorkerOK'
  <2>1. CASE hooking' = {c} /\ lists' = [lists EXCEPT !.hooks = @ \cup {c}]
             /\ UNCHANGED <<pc, cur, configmapName, known, nsList, todo, batch>>
    <3>1. lists' \in Lists
      BY <2>1 DEF Lists
    <3> QED BY <1>6, <2>1, <3>1 DEF PatchHook
  <2> QED BY <1>2, <1>6, <2>1 DEF PatchHook
<1>7. ASSUME NEW c \in Csv, PatchCsv(c) PROVE WorkerOK'
  BY <1>2, <1>7 DEF PatchCsv
<1>8. ASSUME WriteStatus \/ CallFails PROVE WorkerOK'
  BY <1>1, <1>2, <1>8 DEF WriteStatus, CallFails
<1>9. ASSUME \/ HearOfScopes \/ HearOfCsvs \/ HearOfHooks
             \/ \E s \in Scope : Validates(s) \/ Switches(s) \/ Renames(s) \/ Deletes(s)
             \/ \E p \in Package : Marks(p)
             \/ \E c \in Csv : Reinstalls(c) \/ Edits(c)
             \/ UNCHANGED vars
      PROVE  UNCHANGED <<pc, cur, configmapName, known, nsList, todo, batch, hooking, lists>>
  BY <1>9 DEF HearOfScopes, HearOfCsvs, HearOfHooks, Validates, Switches, Renames, Deletes, Marks,
              Reinstalls, Edits, vars
<1> QED
  BY <1>3, <1>4, <1>5, <1>6, <1>7, <1>8, <1>9 DEF Next, Work

-----------------------------------------------------------------------------
(* What is in hand, and what is patched                                    *)

\* The steps that disturb nothing while what was read holds: the worker stands
\* still, and no CSV stops watching the ConfigMap.
Still ==
    /\ UNCHANGED workerVars /\ UNCHANGED hook
    /\ \A c \in Csv : csv'[c].env = csv[c].env
    /\ \A s \in Scope : scope'[s].status = scope[s].status

\* A user, an annotation, somebody's edit and news from an informer leave that alone.
LEMMA OthersStill ==
    ASSUME TypeOK,
           \/ HearOfScopes \/ HearOfCsvs \/ HearOfHooks
           \/ \E s \in Scope : Validates(s) \/ Switches(s) \/ Renames(s) \/ Deletes(s)
           \/ \E p \in Package : Marks(p)
           \/ \E c \in Csv : Edits(c)
           \/ UNCHANGED vars
    PROVE  Still
<1>1. ASSUME NEW s \in Scope, Validates(s) \/ Switches(s) \/ Renames(s) \/ Deletes(s) PROVE Still
  <2>1. \A t \in Scope : scope'[t].status = scope[t].status
    BY <1>1 DEF Validates, Switches, Renames, Deletes, TypeOK, Instance
  <2> QED BY <1>1, <2>1 DEF Validates, Switches, Renames, Deletes, Still
<1>2. ASSUME NEW c \in Csv, Edits(c) PROVE Still
  <2>1. \A d \in Csv : csv'[d].env = csv[d].env
    BY <1>2 DEF Edits, TypeOK, Deployment
  <2> QED BY <1>2, <2>1 DEF Edits, Still
<1> QED
  BY <1>1, <1>2 DEF HearOfScopes, HearOfCsvs, HearOfHooks, Marks, vars, Still

\* The steps of a reconcile that goes on while what it read holds.
LEMMA Undisturbed ==
    ASSUME TypeOK, [Next]_vars, pc' # "idle", calm'
    PROVE  \/ \E s \in Scope : Take(s) /\ pc' = "reading"
           \/ Read
           \/ \E p \in Package : ListCsvs(p)
           \/ \E c \in Csv : PatchHook(c) \/ PatchCsv(c)
           \/ Still
<1>1. ASSUME NEW s \in Scope, Take(s), pc' # "idle" PROVE pc' = "reading"
  BY <1>1 DEF Take
<1>2. ~WriteStatus /\ ~CallFails
  BY DEF WriteStatus, CallFails, Fail, Restart, Rest, Forget
<1>3. \A c \in Csv : ~Reinstalls(c)
  BY DEF Reinstalls
<1> QED
  BY <1>1, <1>2, <1>3, OthersStill DEF Next, Work

LEMMA KnownNext == TypeOK /\ KnownInv /\ [Next]_vars => KnownInv'
<1> SUFFICES ASSUME TypeOK, KnownInv, [Next]_vars, pc' # "idle", calm'
             PROVE  scope'[cur'].status = known'
  BY DEF KnownInv
<1>1. ASSUME NEW s \in Scope, Take(s), pc' = "reading" PROVE scope'[cur'].status = known'
  BY <1>1 DEF Take
<1>2. ASSUME Read \/ \E p \in Package : ListCsvs(p) PROVE scope'[cur'].status = known'
  BY <1>2 DEF Read, ListCsvs, KnownInv
<1>3. ASSUME NEW c \in Csv, PatchHook(c) \/ PatchCsv(c) PROVE scope'[cur'].status = known'
  BY <1>3 DEF PatchHook, PatchCsv, Fail, Restart, Rest, Forget, KnownInv
<1>4. ASSUME Still PROVE scope'[cur'].status = known'
  BY <1>4 DEF Still, KnownInv, TypeOK
<1> QED BY <1>1, <1>2, <1>3, <1>4, Undisturbed

\* One package more: its CSVs are in hand, as the informer shows them.
LEMMA ListKeeps ==
    ASSUME TypeOK, HandInv, PatchedInv, NEW p \in Package, ListCsvs(p)
    PROVE  HandInv' /\ PatchedInv'
<1>1. /\ DOMAIN batch = {} /\ batch' = [c \in {d \in Csv : PackageOf[d] = p} |-> csvSeen[c]]
      /\ lists'.patched \subseteq lists.patched \cup {p}
      /\ UNCHANGED <<csv, hook, pc, hooking, configmapName, nsList>> /\ (calm' => calm)
      /\ calm' => \A c \in DOMAIN batch' :
                      csvSeen[c].env = configmapName => csv[c].env = configmapName
  BY DEF ListCsvs, TypeOK, Lists
<1>2. HandInv'
  BY <1>1 DEF HandInv
<1>3. PatchedInv'
  <2> SUFFICES ASSUME pc = "package", calm, NEW c \in Csv, c \notin DOMAIN batch',
                      PackageOf[c] \in lists'.patched
               PROVE  csv[c].env = configmapName /\ (c \in Hooked => hook[c] = nsList)
    BY <1>1 DEF PatchedInv
  <2>1. PackageOf[c] \in lists.patched
    BY <1>1
  <2> QED BY <1>1, <2>1 DEF PatchedInv
<1> QED BY <1>2, <1>3

\* The webhook of a CSV in hand.
LEMMA HookKeeps ==
    ASSUME TypeOK, HandInv, PatchedInv, NEW c \in Csv, PatchHook(c), pc' # "idle"
    PROVE  HandInv' /\ PatchedInv'
<1>1. /\ c \in DOMAIN batch /\ hook' = [hook EXCEPT ![c] = nsList] /\ hooking' = {c}
      /\ lists'.patched = lists.patched
      /\ UNCHANGED <<csv, batch, pc, calm, configmapName, nsList>>
  BY DEF PatchHook, Fail, Rest, Forget, TypeOK, Lists
<1>2. hook'[c] = nsList /\ \A d \in Csv \ {c} : hook'[d] = hook[d]
  BY <1>1 DEF TypeOK
<1>3. HandInv'
  BY <1>1, <1>2 DEF HandInv
<1>4. PatchedInv'
  BY <1>1, <1>2 DEF PatchedInv
<1> QED BY <1>3, <1>4

\* The CSV itself, after its webhook if it has one: either it is patched, or what
\* was listed watched the ConfigMap, and then so does what is stored.
LEMMA CsvKeeps ==
    ASSUME TypeOK, HandInv, PatchedInv, NEW c \in Csv, PatchCsv(c), pc' # "idle"
    PROVE  HandInv' /\ PatchedInv'
<1>1. /\ c \in DOMAIN batch /\ batch' = [d \in DOMAIN batch \ {c} |-> batch[d]] /\ hooking' = {}
      /\ c \in Hooked => c \in hooking
      /\ csv' = IF Inserted(c) = batch[c] THEN csv ELSE [csv EXCEPT ![c] = Inserted(c)]
      /\ UNCHANGED <<hook, lists, calm, configmapName, nsList, pc>> /\ pc = "package"
  BY DEF PatchCsv, Restart, Rest, Forget
<1>2. \A d \in Csv \ {c} : csv'[d] = csv[d]
  BY <1>1 DEF TypeOK
<1>3. ASSUME calm PROVE csv'[c].env = configmapName
  <2>1. Inserted(c).env = configmapName
    BY <1>1, InsertedIs
  <2>2. CASE Inserted(c) = batch[c]
    BY <1>1, <1>3, <2>1, <2>2 DEF HandInv
  <2>3. CASE Inserted(c) # batch[c]
    BY <1>1, <2>1, <2>3 DEF TypeOK
  <2> QED BY <2>2, <2>3
<1>4. DOMAIN batch' = DOMAIN batch \ {c} /\ \A d \in DOMAIN batch' : batch'[d] = batch[d] /\ d \in Csv
  BY <1>1 DEF TypeOK
<1>5. HandInv'
  BY <1>1, <1>2, <1>4 DEF HandInv
<1>6. PatchedInv'
  BY <1>1, <1>2, <1>3, <1>4 DEF PatchedInv, HandInv
<1> QED BY <1>5, <1>6

LEMMA PatchedNext ==
    TypeOK /\ WorkInv /\ HandInv /\ PatchedInv /\ [Next]_vars => HandInv' /\ PatchedInv'
<1> SUFFICES ASSUME TypeOK, WorkInv, HandInv, PatchedInv, [Next]_vars, pc' = "package", calm'
             PROVE  HandInv' /\ PatchedInv'
  BY DEF HandInv, PatchedInv
<1>1. ASSUME Read PROVE HandInv' /\ PatchedInv'
  <2>1. pc = "reading" /\ UNCHANGED <<batch, hooking, lists>>
    BY <1>1 DEF Read
  <2>2. DOMAIN batch = {} /\ hooking = {} /\ lists.patched = {}
    BY <2>1 DEF WorkInv, TypeOK, NoLists
  <2> QED BY <2>1, <2>2 DEF HandInv, PatchedInv
<1>2. ASSUME Still PROVE HandInv' /\ PatchedInv'
  BY <1>2 DEF Still, HandInv, PatchedInv, TypeOK
<1> QED BY <1>1, <1>2, Undisturbed, ListKeeps, HookKeeps, CsvKeeps

-----------------------------------------------------------------------------
(* The theorems                                                            *)

LEMMA InvNext == IInv /\ [Next]_vars => IInv'
<1> SUFFICES ASSUME IInv, [Next]_vars PROVE IInv'
  OBVIOUS
<1>1. TypeOK /\ CountInv /\ WorkInv /\ KnownInv /\ HandInv /\ PatchedInv /\ ScopesOK /\ WorkerOK
  BY Parts DEF IInv
<1>2. ScopesOK' /\ WorkerOK' /\ DeploymentsOK'
  BY <1>1, ScopesNext, WorkerNext, DeploymentsNext
<1>3. TypeOK' /\ WorkInv'
  BY <1>2 DEF TypeOK, WorkInv, ScopesOK, WorkerOK, DeploymentsOK
<1> QED BY <1>1, <1>3, CountNext, KnownNext, PatchedNext DEF IInv

LEMMA Invariant == Spec => []IInv
BY InitInv, InvNext, PTL DEF Spec

\* Every variable holds what the code can put there, no Deployment has changed
\* more often than somebody changed it, and a CSV whose webhook is done is one of
\* the package in hand.
THEOREM TypeCorrect == Spec => []TypeOK
<1>1. IInv => TypeOK
  BY DEF IInv
<1> QED BY <1>1, Invariant, PTL

\* What CSVReconcile writes into patchedCSVList is so, whatever the Deployments and
\* webhooks looked like before and however late the informers are: every CSV of a
\* package it names watches the ConfigMap of the scope, and its webhooks select the
\* members that were read in the same reconcile.  The premise is calm: the reconcile
\* read the lists of its own status as they are, no CSV was written anew since it
\* was listed, and none was listed as watching the ConfigMap when it did no more.
\* Without it the claim is false: CSVReconcile then skips the patch or the status.
THEOREM PatchedIsInjected == Spec => PatchedMeansInjected
<1> DEFINE Claim == WriteStatus /\ scope[cur].phase # "gone" /\ calm =>
                      \A c \in Csv : PackageOf[c] \in scope'[cur].status.patched =>
                          csv[c].env = configmapName /\ (c \in Hooked => hook[c] = nsList)
<1>1. IInv => [Claim]_vars
  <2> SUFFICES ASSUME IInv, WriteStatus, scope[cur].phase # "gone", calm, NEW c \in Csv,
                      PackageOf[c] \in scope'[cur].status.patched
               PROVE  csv[c].env = configmapName /\ (c \in Hooked => hook[c] = nsList)
    OBVIOUS
  <2>1. pc = "package" /\ DOMAIN batch = {} /\ scope[cur].status = known
    BY DEF WriteStatus, IInv, KnownInv
  <2>2. scope'[cur].status.patched = lists.patched
    <3>1. known \in Lists /\ lists \in Lists /\ scope \in [Scope -> Instance] /\ cur \in Scope
      BY DEF IInv, TypeOK
    <3>2. CASE lists = known
      BY <2>1, <3>2 DEF WriteStatus
    <3>3. CASE lists # known
      <4>1. scope' = [scope EXCEPT ![cur].status =
                        [k \in DOMAIN lists |-> IF lists[k] = known[k] THEN @[k] ELSE lists[k]]]
        BY <3>3 DEF WriteStatus
      <4>2. scope'[cur].status =
                [k \in DOMAIN lists |-> IF lists[k] = known[k] THEN known[k] ELSE lists[k]]
        BY <2>1, <3>1, <4>1 DEF Instance
      <4> QED BY <3>1, <4>2 DEF Lists
    <3> QED BY <3>2, <3>3
  <2> QED BY <2>1, <2>2 DEF IInv, PatchedInv
<1> QED BY <1>1, Invariant, PTL DEF PatchedMeansInjected
=============================================================================
