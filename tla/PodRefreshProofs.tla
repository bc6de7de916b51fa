-------------------------- MODULE PodRefreshProofs --------------------------
(***************************************************************************)
(* A RestartPods that succeeded leaves nothing behind, and missing rights  *)
(* on DaemonSets never make one fail, for any number of scopes, ConfigMaps *)
(* and workloads, any lists and any bounds.                                *)
(***************************************************************************)
EXTENDS PodRefresh, TLAPS

Annotation == List \cup {None}

\* The steps used are counted.
CountInv == spent \in [{"edit", "fault", "restart", "access"} -> Nat]

\* The workloads whose annotation says what their pods run with: one ConfigMap
\* decides on it, and none of its lists came twice.
Told(w, c) == Reads[w] = {c} /\ c \notin recurred

\* A value the annotation could not have if the list were a new one.
Known(w, c) ==
    /\ template[w] \in used[c] \cup {None}
    /\ seen[w] \in used[c] \cup {None} /\ from[w] \in used[c] \cup {None}

\* A template never carries a list that was not published, so whoever shows the
\* present one was written, or started, since it is.
AnnotationInv ==
    \A w \in Workload, c \in ConfigMap :
        /\ list[c] \in used[c]
        /\ Reads[w] = {c} => Known(w, c)
        /\ Told(w, c) => /\ from[w] = list[c] => runs[w][c] = list[c]
                         /\ seen[w] = list[c] => template[w] = list[c]

\* What RestartPods has done for a workload it can reach: the pod is new, or the
\* template is; a pod of some other owner is never dealt with.
Refreshed(w, c) ==
    /\ KindOf[w] = "Operator" => runs[w][c] = list[c]
    /\ KindOf[w] \in {"Deployment", "DaemonSet"} => template[w] = list[c]
    /\ KindOf[w] # "Foreign"

\* It has done so for all that it is through with, and for all once it succeeds.
WorkInv ==
    pc = "refreshing" =>
        \A w \in Workload : w \notin todo /\ Reached(w, cm) => Refreshed(w, cm)

DoneInv ==
    \A c \in ConfigMap, w \in Workload :
        result[c] = "ok" /\ Reached(w, c) => Refreshed(w, c)

IInv == TypeOK /\ CountInv /\ AnnotationInv /\ WorkInv /\ DoneInv

-----------------------------------------------------------------------------
(* Types                                                                   *)

LEMMA InitInv == Init => IInv
<1> SUFFICES ASSUME Init PROVE IInv
  OBVIOUS
<1> USE DEF Init
<1>1. TypeOK
  BY RefreshOK DEF TypeOK
<1>2. CountInv
  BY DEF CountInv
<1>3. AnnotationInv
  BY RefreshOK DEF AnnotationInv, Known, Told
<1>4. WorkInv /\ DoneInv
  BY DEF WorkInv, DoneInv
<1> QED BY <1>1, <1>2, <1>3, <1>4 DEF IInv

\* Work that is left is for workloads that exist and match.
LEMMA Left == ASSUME TypeOK PROVE todo \subseteq Workload /\ cm \in ConfigMap
BY RefreshOK DEF TypeOK, Matching, cm

LEMMA TypeNext == TypeOK /\ [Next]_vars => TypeOK'
<1> SUFFICES ASSUME TypeOK, [Next]_vars PROVE TypeOK'
  OBVIOUS
<1> USE DEF TypeOK, Matching, cm, listVars, objectVars, clusterVars, rightVars, callVars, vars
<1>0. todo \subseteq Workload /\ cm \in ConfigMap
  BY Left
<1>1. ASSUME NEW s \in Scope, Write(s) PROVE TypeOK'
  <2>1. PICK l \in List : list' = [list EXCEPT ![CmOf[s]] = l] /\ used' = [used EXCEPT ![CmOf[s]] = @ \cup {l}]
    BY <1>1, RefreshOK DEF Write
  <2>2. CmOf[s] \in ConfigMap
    BY RefreshOK
  <2>3. recurred' \subseteq ConfigMap /\ list' \in [ConfigMap -> List] /\ used' \in [ConfigMap -> SUBSET List]
    BY <1>1, <2>1, <2>2 DEF Write
  <2>4. result' \in [ConfigMap -> {"none", "ok", "failed", "panicked"}]
    BY <1>1, <2>2 DEF Write
  <2> QED BY <1>1, <2>3, <2>4 DEF Write
<1>2. ASSUME ListPods PROVE TypeOK'
  <2>1. Matching' = Matching /\ todo' \subseteq Matching /\ Matching \subseteq Workload
    BY <1>2, RefreshOK DEF ListPods
  <2>2. lost' \subseteq Workload /\ skipped' \subseteq Workload
    BY <1>2, <2>1 DEF ListPods
  <2> QED BY <1>2, <2>1, <2>2 DEF ListPods
<1>3. ASSUME ReviewAccess PROVE TypeOK'
  BY <1>0, <1>3 DEF ReviewAccess, SkipDaemonSets, DaemonSets, Done
<1>4. ASSUME Finish PROVE TypeOK'
  BY <1>0, <1>4 DEF Finish, End
<1>s. ASSUME NEW w \in Workload, Starts(w) PROVE runs' \in [Workload -> [ConfigMap -> List]]
  BY <1>s DEF Starts
<1>5. ASSUME NEW w \in Workload, DeletePod(w) PROVE TypeOK'
  <2>1. runs' \in [Workload -> [ConfigMap -> List]] /\ unseen' \subseteq Workload
    BY <1>5, <1>s DEF DeletePod, Replaced
  <2>2. CASE End("failed")
    BY <1>0, <1>5, <2>1, <2>2 DEF DeletePod, End
  <2>3. CASE Done({w}) /\ UNCHANGED <<pc, result, reviewed>>
    <3>1. lost' \subseteq Workload /\ skipped' \subseteq Workload
      BY <1>0, <1>5 DEF DeletePod, End
    <3>2. Matching' = Matching /\ UNCHANGED <<listVars, objectVars, from, rightVars, cur>>
      BY <1>5 DEF DeletePod
    <3>3. todo' \subseteq (IF pc' = "refreshing" THEN Matching' ELSE {})
      BY <2>3, <3>2 DEF Done
    <3> QED BY <2>1, <2>3, <3>1, <3>2, <3>3
  <2> QED BY <1>5, <2>2, <2>3 DEF DeletePod
<1>6. ASSUME NEW w \in Workload, Panic(w) PROVE TypeOK'
  BY <1>0, <1>6 DEF Panic, End, FreshCaches
<1>7. ASSUME NEW w \in Workload, AnnotateDeployment(w) PROVE TypeOK'
  <2>1. CASE End("failed") /\ UNCHANGED <<objectVars, skipped>>
    BY <1>0, <1>7, <2>1 DEF AnnotateDeployment, End
  <2>2. CASE Stamp(w) /\ Changes(w) /\ Done({w}) /\ UNCHANGED <<pc, lost, reviewed, result>>
    BY <1>0, <1>7, <2>2 DEF AnnotateDeployment, Turn, Stamp, Changes, Behind, Done
  <2> QED BY <1>7, <2>1, <2>2 DEF AnnotateDeployment
<1>8. ASSUME NEW w \in Workload, PatchDaemonSet(w) PROVE TypeOK'
  BY <1>0, <1>8 DEF PatchDaemonSet, Turn, SkipDaemonSets, DaemonSets, Stamp, Changes, Behind, Done
<1>9. ASSUME NEW w \in Workload, PatchStatefulSet(w) PROVE TypeOK'
  BY <1>9 DEF PatchStatefulSet, Turn, Done
<1>10. ASSUME CallFails PROVE TypeOK'
  BY <1>0, <1>10 DEF CallFails, End
<1>11. ASSUME ChangeAccess PROVE TypeOK'
  BY <1>11 DEF ChangeAccess
<1>12. ASSUME NEW w \in Workload, RollOut(w) PROVE TypeOK'
  BY <1>12, <1>s DEF RollOut, Replaced, Behind
<1>13. ASSUME NEW w \in Workload, PodRestarts(w) PROVE TypeOK'
  <2>1. runs' \in [Workload -> [ConfigMap -> List]]
    BY <1>13, <1>s DEF PodRestarts, Replaced
  <2>2. unseen' \subseteq Workload /\ lost' \subseteq Workload
    BY <1>13 DEF PodRestarts, Replaced
  <2> QED BY <1>13, <2>1, <2>2 DEF PodRestarts
<1>14. ASSUME NEW w \in Workload, CatchUp(w) PROVE TypeOK'
  BY <1>14 DEF CatchUp
<1>15. ASSUME UNCHANGED vars PROVE TypeOK'
  BY <1>15
<1>16. ASSUME SyncDaemonSets PROVE TypeOK'
  BY <1>16 DEF SyncDaemonSets
<1>17. ASSUME Crash PROVE TypeOK'
  <2>1. CASE End("failed")
    BY <1>0, <1>17, <2>1 DEF Crash, FreshCaches, End
  <2>2. CASE UNCHANGED <<pc, todo, lost, reviewed, result>>
    BY <1>17, <2>2 DEF Crash, FreshCaches
  <2> QED BY <1>17, <2>1, <2>2 DEF Crash
<1> HIDE DEF TypeOK
<1> QED BY <1>1, <1>2, <1>3, <1>4, <1>5, <1>6, <1>7, <1>8, <1>9, <1>10, <1>11,
           <1>12, <1>13, <1>14, <1>15, <1>16, <1>17 DEF Next, Call, vars

LEMMA CountNext == CountInv /\ [Next]_vars => CountInv'
<1> SUFFICES ASSUME CountInv, [Next]_vars PROVE CountInv'
  OBVIOUS
<1>1. UNCHANGED spent \/ \E k \in {"edit", "fault", "restart", "access"} : spent' = [spent EXCEPT ![k] = @ + 1]
  BY Zenon DEF Next, Call, Write, ListPods, ReviewAccess, Finish, DeletePod, Panic, AnnotateDeployment,
     PatchDaemonSet, PatchStatefulSet, SyncDaemonSets, CallFails, Crash, ChangeAccess, RollOut, PodRestarts,
     CatchUp, Spend, callVars, vars
<1> QED BY <1>1 DEF CountInv

-----------------------------------------------------------------------------
(* What the annotations tell                                               *)

\* One workload and one ConfigMap.
Annotated(w, c) ==
    /\ list[c] \in used[c]
    /\ Reads[w] = {c} => Known(w, c)
    /\ Told(w, c) => /\ from[w] = list[c] => runs[w][c] = list[c]
                     /\ seen[w] = list[c] => template[w] = list[c]

\* The list in hand is the one of the ConfigMap that alone decides on w.
LEMMA StampKeeps ==
    ASSUME TypeOK, NEW v \in Workload, NEW w \in Workload, NEW c \in ConfigMap, Annotated(w, c),
           Stamp(v), cm \in Reads[v], UNCHANGED <<listVars, seen, clusterVars>>
    PROVE  Annotated(w, c)'
BY DEF TypeOK, Annotated, Known, Told, Stamp, listVars, clusterVars

\* A pod that starts has the lists it reads.
LEMMA StartsNew ==
    ASSUME TypeOK, NEW v \in Workload, Starts(v), NEW w \in Workload, NEW c \in ConfigMap
    PROVE  /\ runs'[w][c] \in {runs[w][c], list[c]}
           /\ v = w /\ c \in Reads[w] => runs'[w][c] = list[c]
           /\ v # w => runs'[w] = runs[w]
BY DEF TypeOK, Starts

LEMMA WriteKeeps ==
    ASSUME TypeOK, NEW s \in Scope, Write(s), NEW w \in Workload, NEW c \in ConfigMap, Annotated(w, c)
    PROVE  Annotated(w, c)'
<1>1. PICK l \in List : /\ list' = [list EXCEPT ![CmOf[s]] = l]
                        /\ used' = [used EXCEPT ![CmOf[s]] = @ \cup {l}]
                        /\ recurred' = IF l \in used[CmOf[s]] THEN recurred \cup {CmOf[s]} ELSE recurred
  BY RefreshOK DEF Write, TypeOK
<1>2. UNCHANGED <<template, seen, from, runs>>
  BY DEF Write, objectVars, clusterVars
<1>3. CASE c # CmOf[s]
  <2>1. list'[c] = list[c] /\ used'[c] = used[c] /\ (c \in recurred' <=> c \in recurred)
    BY <1>1, <1>3 DEF TypeOK
  <2> QED BY <1>2, <2>1 DEF Annotated, Known, Told
<1>4. CASE c = CmOf[s]
  <2>1. list'[c] = l /\ used'[c] = used[c] \cup {l}
    BY <1>1, <1>4 DEF TypeOK
  <2>2. c \notin recurred' => c \notin recurred /\ l \notin used[c]
    BY <1>1, <1>4
  <2>3. l # None
    BY RefreshOK
  <2> QED BY <1>2, <2>1, <2>2, <2>3 DEF Annotated, Known, Told
<1> QED BY <1>3, <1>4

LEMMA AnnotationNext == TypeOK /\ AnnotationInv /\ [Next]_vars => AnnotationInv'
<1> SUFFICES ASSUME TypeOK, [Next]_vars, NEW w \in Workload, NEW c \in ConfigMap, Annotated(w, c)
             PROVE  Annotated(w, c)'
  BY DEF AnnotationInv, Annotated
<1> USE DEF listVars, clusterVars, objectVars, callVars, FreshCaches
<1>1. ASSUME NEW s \in Scope, Write(s) PROVE Annotated(w, c)'
  BY <1>1, WriteKeeps
<1>2. ASSUME UNCHANGED <<listVars, objectVars, clusterVars>> PROVE Annotated(w, c)'
  BY <1>2 DEF Annotated, Known, Told
<1>3. ASSUME NEW v \in Workload, DeletePod(v) \/ PodRestarts(v) PROVE Annotated(w, c)'
  <2>1. (UNCHANGED runs \/ Starts(v)) /\ UNCHANGED <<listVars, objectVars, from>>
    BY <1>3 DEF DeletePod, PodRestarts, Replaced
  <2>2. runs'[w][c] \in {runs[w][c], list[c]}
    BY <2>1, StartsNew
  <2> QED BY <2>1, <2>2 DEF Annotated, Known, Told
<1>4. ASSUME NEW v \in Workload, AnnotateDeployment(v) PROVE Annotated(w, c)'
  <2>1. CASE UNCHANGED objectVars
    BY <1>2, <1>4, <2>1 DEF AnnotateDeployment
  <2>2. CASE Stamp(v) /\ Changes(v)
    <3>1. cm \in Reads[v]
      BY <1>4 DEF AnnotateDeployment, Turn, TypeOK, Matching
    <3> QED BY <1>4, <2>2, <3>1, StampKeeps DEF AnnotateDeployment, Changes
  <2> QED BY <1>4, <2>1, <2>2 DEF AnnotateDeployment
<1>5. ASSUME NEW v \in Workload, PatchDaemonSet(v) PROVE Annotated(w, c)'
  <2>1. CASE UNCHANGED objectVars
    BY <1>2, <1>5, <2>1 DEF PatchDaemonSet
  <2>2. CASE Stamp(v) /\ Changes(v)
    <3>1. cm \in Reads[v]
      BY <1>5 DEF PatchDaemonSet, Turn, TypeOK, Matching
    <3> QED BY <1>5, <2>2, <3>1, StampKeeps DEF PatchDaemonSet, Changes
  <2> QED BY <1>5, <2>1, <2>2 DEF PatchDaemonSet
<1>6. ASSUME NEW v \in Workload, RollOut(v) PROVE Annotated(w, c)'
  <2>1. /\ from' = [from EXCEPT ![v] = template[v]] /\ Starts(v)
        /\ UNCHANGED <<listVars, template, seen>>
    BY <1>6 DEF RollOut, Replaced
  <2>2. CASE v = w
    <3>1. from'[w] = template[w] /\ (c \in Reads[w] => runs'[w][c] = list[c])
      BY <2>1, <2>2, StartsNew DEF TypeOK
    <3> QED BY <2>1, <3>1 DEF Annotated, Known, Told
  <2>3. CASE v # w
    <3>1. from'[w] = from[w] /\ runs'[w][c] = runs[w][c]
      BY <2>1, <2>3, StartsNew DEF TypeOK
    <3> QED BY <2>1, <3>1 DEF Annotated, Known, Told
  <2> QED BY <2>2, <2>3
<1>7. ASSUME SyncDaemonSets \/ \E v \in Workload : CatchUp(v) PROVE Annotated(w, c)'
  <2>1. seen'[w] \in {seen[w], template[w]} /\ UNCHANGED <<listVars, template, clusterVars>>
    BY <1>7 DEF CatchUp, SyncDaemonSets, TypeOK
  <2> QED BY <2>1 DEF Annotated, Known, Told
<1>8. ASSUME Crash \/ \E v \in Workload : Panic(v) PROVE Annotated(w, c)'
  BY <1>8 DEF Crash, Panic, Annotated, Known, Told
<1> QED
  BY <1>1, <1>2, <1>3, <1>4, <1>5, <1>6, <1>7, <1>8
  DEF Next, Call, vars, ListPods, ReviewAccess, Finish, PatchStatefulSet, CallFails, ChangeAccess

-----------------------------------------------------------------------------
(* What is refreshed                                                       *)

\* Whatever is done with an annotation is done for a ConfigMap the pod reads.
LEMMA InHand ==
    ASSUME TypeOK, NEW w \in todo
    PROVE  w \in Workload /\ cm \in Reads[w] /\ w \in Selects[cur] /\ pc = "refreshing"
BY RefreshOK DEF TypeOK, Matching

\* The steps of RestartPods that refresh a workload.
Refreshes(w) == DeletePod(w) \/ AnnotateDeployment(w) \/ PatchDaemonSet(w)

\* A workload comes within reach only when RestartPods refreshes it.
LEMMA ReachedBefore ==
    ASSUME TypeOK, [Next]_vars, NEW w \in Workload, NEW c \in ConfigMap, Reached(w, c)'
    PROVE  Reached(w, c) \/ Refreshes(w)
<1> USE DEF Reached, listVars, callVars
<1>1. ASSUME NEW s \in Scope, Write(s) PROVE recurred \subseteq recurred' /\ skipped' = skipped
  BY <1>1 DEF Write
<1>2. ASSUME ReviewAccess PROVE UNCHANGED recurred /\ skipped \subseteq skipped'
  BY <1>2 DEF ReviewAccess, SkipDaemonSets
<1>3. ASSUME NEW v \in Workload, Refreshes(v)
      PROVE  UNCHANGED recurred /\ skipped \ {v} \subseteq skipped'
  BY <1>3 DEF Refreshes, DeletePod, AnnotateDeployment, PatchDaemonSet, SkipDaemonSets
<1>4. \/ recurred \subseteq recurred' /\ skipped \subseteq skipped'
      \/ \E v \in Workload : Refreshes(v)
  BY <1>1, <1>2
  DEF Next, Call, vars, Refreshes, ListPods, SyncDaemonSets, Finish, Panic, PatchStatefulSet,
      CallFails, Crash, ChangeAccess, RollOut, PodRestarts, CatchUp
<1> QED BY <1>3, <1>4

\* A deleted pod comes back with what is published.
LEMMA DeleteRefreshes ==
    ASSUME TypeOK, NEW w \in Workload, NEW c \in ConfigMap, DeletePod(w), Reached(w, c)'
    PROVE  (End("failed") /\ UNCHANGED <<runs, skipped>>) \/ Refreshed(w, c)'
<1>1. KindOf[w] = "Operator" /\ c \in Reads[w] /\ UNCHANGED list
  BY DEF DeletePod, Turn, Reached, listVars
<1>2. CASE Replaced(w)
  BY <1>1, <1>2, StartsNew DEF Replaced, Refreshed
<1>3. CASE skipped' = skipped \cup {w}
  BY <1>3 DEF Reached
<1> QED BY <1>2, <1>3 DEF DeletePod

\* An annotated Deployment has the list of the ConfigMap in hand.
LEMMA AnnotateRefreshes ==
    ASSUME TypeOK, NEW w \in Workload, NEW c \in ConfigMap, AnnotateDeployment(w), Reached(w, c)'
    PROVE  (End("failed") /\ UNCHANGED <<objectVars, skipped>>) \/ Refreshed(w, c)'
<1>1. w \in todo /\ KindOf[w] = "Deployment" /\ UNCHANGED listVars
  BY DEF AnnotateDeployment, Turn
<1>2. cm = c
  BY <1>1, InHand DEF Reached
<1>3. CASE Stamp(w)
  BY <1>1, <1>2, <1>3 DEF Refreshed, Stamp, TypeOK, listVars
<1> QED BY <1>3 DEF AnnotateDeployment

\* A patched DaemonSet is refreshed, also when the copy said there was nothing to do.
LEMMA PatchRefreshes ==
    ASSUME TypeOK, AnnotationInv, NEW w \in Workload, NEW c \in ConfigMap,
           PatchDaemonSet(w), Reached(w, c)'
    PROVE  Refreshed(w, c)'
<1>1. w \in todo /\ KindOf[w] = "DaemonSet" /\ UNCHANGED listVars
  BY DEF PatchDaemonSet, Turn
<1>2. Reads[w] = {c} /\ c \notin recurred /\ w \notin skipped'
  BY <1>1 DEF Reached, listVars
<1>3. cm = c
  BY <1>1, <1>2, InHand
<1>4. w \in DaemonSets
  BY <1>1 DEF DaemonSets
<1>5. CASE seen[w] = list[cm] /\ UNCHANGED objectVars
  <2>1. template[w] = list[c]
    BY <1>2, <1>3, <1>5 DEF AnnotationInv, Told
  <2> QED BY <1>1, <1>5, <2>1 DEF Refreshed, listVars, objectVars
<1>6. CASE Stamp(w)
  BY <1>1, <1>3, <1>6 DEF Refreshed, Stamp, TypeOK, listVars
<1> QED BY <1>2, <1>4, <1>5, <1>6 DEF PatchDaemonSet, SkipDaemonSets

\* What is refreshed stays so until the next list: whatever RestartPods and the
\* cluster do to the workload in between.
LEMMA RefreshedKept ==
    ASSUME TypeOK, [Next]_vars, NEW w \in Workload, NEW c \in ConfigMap,
           Reached(w, c), Refreshed(w, c), list'[c] = list[c]
    PROVE  Refreshed(w, c)'
<1> USE DEF listVars, clusterVars, objectVars, callVars, FreshCaches
<1>1. ASSUME NEW v \in Workload, Stamp(v), v \in todo PROVE KindOf[w] # "Operator" => template'[w] \in {template[w], list[c]}
  <2>1. CASE v # w
    BY <1>1, <2>1 DEF Stamp, TypeOK
  <2>2. CASE v = w /\ KindOf[w] # "Operator"
    <3>1. cm = c
      BY <1>1, <2>2, InHand DEF Reached
    <3> QED BY <1>1, <2>2, <3>1 DEF Stamp, TypeOK
  <2> QED BY <2>1, <2>2
<1>2. ASSUME NEW v \in Workload, AnnotateDeployment(v) \/ PatchDaemonSet(v)
      PROVE  (Stamp(v) \/ UNCHANGED template) /\ v \in todo
  BY <1>2 DEF AnnotateDeployment, PatchDaemonSet, Turn
<1>3. KindOf[w] # "Operator" => template'[w] \in {template[w], list[c]}
  BY <1>1, <1>2
  DEF Next, Call, vars, Write, ListPods, ReviewAccess, SyncDaemonSets, Finish, DeletePod, Panic,
      PatchStatefulSet, CallFails, Crash, ChangeAccess, RollOut, PodRestarts, CatchUp
<1>4. ASSUME NEW v \in Workload, DeletePod(v) \/ RollOut(v) \/ PodRestarts(v)
      PROVE  UNCHANGED runs \/ Starts(v)
  BY <1>4 DEF DeletePod, RollOut, PodRestarts, Replaced
<1>5. UNCHANGED runs \/ \E v \in Workload : Starts(v)
  BY <1>4
  DEF Next, Call, vars, Write, ListPods, ReviewAccess, SyncDaemonSets, Finish, AnnotateDeployment,
      Panic, PatchDaemonSet, PatchStatefulSet, CallFails, Crash, ChangeAccess, CatchUp
<1>6. runs'[w][c] \in {runs[w][c], list[c]}
  BY <1>5, StartsNew
<1> QED BY <1>3, <1>6 DEF Refreshed

\* A call succeeds when it is through; a success outlives all but a new list.
LEMMA OkBefore ==
    ASSUME TypeOK, [Next]_vars, NEW c \in ConfigMap, result'[c] = "ok"
    PROVE  (Finish /\ c = cm) \/ (result[c] = "ok" /\ list'[c] = list[c])
<1> USE DEF listVars, callVars, TypeOK
<1>1. cm \in ConfigMap
  BY Left
<1>2. ASSUME NEW s \in Scope, Write(s) PROVE result[c] = "ok" /\ list'[c] = list[c]
  <2>1. CmOf[s] \in ConfigMap /\ \E l \in List : list' = [list EXCEPT ![CmOf[s]] = l]
    BY <1>2, RefreshOK DEF Write
  <2>2. result' = [result EXCEPT ![CmOf[s]] = "none"]
    BY <1>2 DEF Write
  <2> QED BY <2>1, <2>2
<1>3. ASSUME NEW how, how # "ok", End(how) PROVE result[c] = "ok"
  BY <1>1, <1>3 DEF End
<1>4. CASE Finish
  BY <1>1, <1>4 DEF Finish, End
<1>5. ASSUME NEW w \in Workload, Panic(w) \/ AnnotateDeployment(w) \/ DeletePod(w)
      PROVE  result[c] = "ok" /\ list'[c] = list[c]
  BY <1>3, <1>5 DEF Panic, AnnotateDeployment, DeletePod
<1>6. CASE CallFails \/ Crash
  BY <1>3, <1>6 DEF CallFails, Crash
<1> QED
  BY <1>2, <1>4, <1>5, <1>6
  DEF Next, Call, vars, ListPods, ReviewAccess, DeletePod, PatchDaemonSet, PatchStatefulSet,
      SyncDaemonSets, ChangeAccess, RollOut, PodRestarts, CatchUp

LEMMA DoneNext ==
    TypeOK /\ AnnotationInv /\ WorkInv /\ DoneInv /\ [Next]_vars => DoneInv'
<1> SUFFICES ASSUME TypeOK, AnnotationInv, WorkInv, DoneInv, [Next]_vars,
                    NEW c \in ConfigMap, NEW w \in Workload, result'[c] = "ok", Reached(w, c)'
             PROVE  Refreshed(w, c)'
  BY DEF DoneInv
<1>1. CASE Refreshes(w)
  <2>1. CASE Refreshed(w, c)'
    BY <2>1
  <2>2. CASE End("failed") /\ UNCHANGED skipped
    <3>1. UNCHANGED listVars /\ result[c] = "ok" /\ cm \in ConfigMap
      BY <1>1, <2>2, Left
         DEF Refreshes, DeletePod, AnnotateDeployment, PatchDaemonSet, End, TypeOK
    <3>2. Reached(w, c) /\ list'[c] = list[c]
      BY <2>2, <3>1 DEF Reached, listVars
    <3> QED BY <3>1, <3>2, RefreshedKept DEF DoneInv
  <2> QED
    BY <1>1, <2>1, <2>2, DeleteRefreshes, AnnotateRefreshes, PatchRefreshes DEF Refreshes
<1>2. CASE Reached(w, c) /\ Finish /\ c = cm
  <2>1. Refreshed(w, c)
    BY <1>2 DEF WorkInv, Finish
  <2> QED BY <1>2, <2>1 DEF Finish, Refreshed, listVars, objectVars, clusterVars
<1>3. CASE Reached(w, c) /\ result[c] = "ok" /\ list'[c] = list[c]
  BY <1>3, RefreshedKept DEF DoneInv
<1> QED BY <1>1, <1>2, <1>3, ReachedBefore, OkBefore

\* Nobody leaves the work of a call but by being refreshed, skipped or out of reach.
LEMMA WorkLeft ==
    ASSUME TypeOK, AnnotationInv, [Next]_vars, NEW w \in todo, w \notin todo',
           pc' = "refreshing", Reached(w, cm)'
    PROVE  Refreshed(w, cm)'
<1> USE DEF listVars, clusterVars, objectVars, callVars
<1>0. /\ w \in Workload /\ cm \in ConfigMap /\ cm \in Reads[w] /\ pc = "refreshing"
      /\ list \in [ConfigMap -> List] /\ template \in [Workload -> List \cup {None}]
      /\ runs \in [Workload -> [ConfigMap -> List]]
  BY InHand, Left DEF TypeOK
<1>r. ASSUME UNCHANGED cur, \A c \in ConfigMap : Reached(w, c)' => Refreshed(w, c)'
      PROVE  Refreshed(w, cm)'
  <2>1. cm' = cm
    BY <1>r DEF cm
  <2>2. PICK c \in ConfigMap : c = cm
    BY <1>0
  <2>3. Reached(w, c)'
    BY <2>1, <2>2 DEF Reached
  <2>4. Refreshed(w, c)'
    BY <1>r, <2>3
  <2> QED BY <2>1, <2>2, <2>4 DEF Refreshed
<1>1. ASSUME DeletePod(w) PROVE Refreshed(w, cm)'
  <2>1. UNCHANGED cur /\ ~End("failed")
    BY <1>1 DEF DeletePod, End
  <2> QED BY <1>0, <1>1, <1>r, <2>1, DeleteRefreshes
<1>2. ASSUME AnnotateDeployment(w) PROVE Refreshed(w, cm)'
  <2>1. UNCHANGED cur /\ ~End("failed")
    BY <1>2 DEF AnnotateDeployment, End
  <2> QED BY <1>0, <1>2, <1>r, <2>1, AnnotateRefreshes
<1>3. ASSUME PatchDaemonSet(w) PROVE Refreshed(w, cm)'
  <2>1. UNCHANGED cur
    BY <1>3 DEF PatchDaemonSet
  <2> QED BY <1>0, <1>3, <1>r, <2>1, PatchRefreshes
<1>4. KindOf[w] # "StatefulSet"
  BY DEF Reached
<1>5. ASSUME SkipDaemonSets PROVE w \notin DaemonSets
  BY <1>5 DEF SkipDaemonSets, Reached
<1>6. ~ReviewAccess
  BY <1>5 DEF ReviewAccess, SkipDaemonSets, Done
<1>7. ASSUME NEW v \in Workload, PatchDaemonSet(v) PROVE v = w
  BY <1>5, <1>7 DEF PatchDaemonSet, SkipDaemonSets, Done
<1>8. ASSUME NEW v \in Workload,
             DeletePod(v) \/ Panic(v) \/ AnnotateDeployment(v) \/ PatchStatefulSet(v)
      PROVE  v = w /\ (DeletePod(v) \/ AnnotateDeployment(v))
  BY <1>4, <1>8 DEF DeletePod, Panic, AnnotateDeployment, PatchStatefulSet, End, Done, Turn
<1>9. ~Finish /\ ~CallFails /\ ~Crash
  BY <1>0 DEF Finish, CallFails, Crash, End
<1>10. ~ListPods /\ \A s \in Scope : ~Write(s)
  BY <1>0 DEF ListPods, Write
<1>11. todo' # todo
  OBVIOUS
<1> QED
  BY <1>1, <1>2, <1>3, <1>6, <1>7, <1>8, <1>9, <1>10, <1>11
  DEF Next, Call, vars, SyncDaemonSets, ChangeAccess, RollOut, PodRestarts, CatchUp

LEMMA WorkNext == TypeOK /\ AnnotationInv /\ WorkInv /\ [Next]_vars => WorkInv'
<1> SUFFICES ASSUME TypeOK, AnnotationInv, WorkInv, [Next]_vars, pc' = "refreshing",
                    NEW w \in Workload, w \notin todo', Reached(w, cm)'
             PROVE  Refreshed(w, cm)'
  BY DEF WorkInv
<1> USE DEF listVars, callVars
<1>1. cm \in ConfigMap
  BY Left
<1>2. ASSUME ListPods PROVE FALSE
  <2>1. UNCHANGED <<cur, recurred>> /\ \E missed : todo' = Matching \ missed /\ missed \subseteq skipped'
    BY <1>2 DEF ListPods
  <2>2. cm' = cm /\ cur \in Scope
    BY <2>1 DEF cm, TypeOK
  <2>3. w \in Selects[cur] /\ cm \in Reads[w] /\ w \notin skipped'
    BY <2>2 DEF Reached, cm
  <2> QED BY <2>1, <2>3 DEF Matching
<1>3. ~ListPods => UNCHANGED <<cur, list>> /\ pc = "refreshing"
  BY DEF Next, Call, vars, Write, ReviewAccess, Finish, DeletePod, Replaced, Panic, AnnotateDeployment,
     PatchDaemonSet, PatchStatefulSet, SyncDaemonSets, CallFails, Crash, ChangeAccess, RollOut, PodRestarts, CatchUp, End, Turn
<1>4. cm' = cm
  BY <1>2, <1>3 DEF cm
<1>5. CASE w \in todo
  BY <1>5, WorkLeft
<1>6. CASE w \notin todo
  <2>1. PICK c \in ConfigMap : c = cm
    BY <1>1
  <2>2. Reached(w, c)'
    BY <1>4, <2>1 DEF Reached
  <2>3. ~Refreshes(w)
    BY <1>6 DEF Refreshes, DeletePod, AnnotateDeployment, PatchDaemonSet, Turn
  <2>4. Reached(w, c)
    BY <2>2, <2>3, ReachedBefore
  <2>5. Refreshed(w, c)
    BY <1>2, <1>3, <1>6, <2>1, <2>4 DEF WorkInv, Reached, Refreshed
  <2>6. list'[c] = list[c]
    BY <1>2, <1>3
  <2>7. Refreshed(w, c)'
    BY <2>4, <2>5, <2>6, RefreshedKept
  <2> QED BY <1>4, <2>1, <2>7 DEF Refreshed
<1> QED BY <1>5, <1>6

-----------------------------------------------------------------------------
(* The theorems                                                            *)

LEMMA InvNext == IInv /\ [Next]_vars => IInv'
BY TypeNext, CountNext, AnnotationNext, WorkNext, DoneNext DEF IInv

LEMMA Invariant == Spec => []IInv
BY InitInv, InvNext, PTL DEF Spec

\* Every variable holds what the code and the cluster can put there, and work is
\* left only while a call of RestartPods runs, for pods the call selects.
THEOREM TypeCorrect == Spec => []TypeOK
<1>1. IInv => TypeOK
  BY DEF IInv
<1> QED BY <1>1, Invariant, PTL

\* After a RestartPods that returned without an error every pod it can reach runs
\* with the published list or is due to be replaced, until UpdateConfigMap writes
\* the next one: the annotation of a template tells which list it stands for.
THEOREM SuccessIsRefreshed == Spec => []SuccessMeansRefreshed
<1>1. IInv => SuccessMeansRefreshed
  <2> SUFFICES ASSUME IInv, NEW c \in ConfigMap, NEW w \in Workload,
                      result[c] = "ok", Reached(w, c), from[w] = template[w]
               PROVE  runs[w][c] = list[c]
    BY DEF SuccessMeansRefreshed
  <2>1. Refreshed(w, c)
    BY DEF IInv, DoneInv
  <2>2. KindOf[w] \in {"Operator", "Deployment", "DaemonSet"}
    BY <2>1, RefreshOK DEF Refreshed, Reached, Kind
  <2>3. CASE KindOf[w] # "Operator"
    <3>1. Told(w, c) /\ from[w] = list[c]
      BY <2>1, <2>2, <2>3 DEF Told, Reached, Refreshed
    <3> QED BY <3>1 DEF IInv, AnnotationInv
  <2> QED BY <2>1, <2>2, <2>3 DEF Refreshed
<1> QED BY <1>1, Invariant, PTL

\* RestartPods fails only because a call to the API server fails, the operator
\* dies, the copy of a Deployment is old or a listed operator pod was replaced: not
\* for want of the right to get or patch DaemonSets, whether the access review says
\* so or the patch is refused after all.
THEOREM RightsNeverFailed == Spec => RightsNeverFail
<1> DEFINE Reasons == \A c \in ConfigMap : result[c] # "failed" /\ result'[c] = "failed" =>
                          \/ spent' # spent
                          \/ \E w \in old : Turn(w, "Deployment")
                          \/ \E w \in lost : Turn(w, "Operator")
<1>1. TypeOK /\ CountInv /\ [Next]_vars => [Reasons]_vars
  <2> SUFFICES ASSUME TypeOK, CountInv, [Next]_vars, NEW c \in ConfigMap,
                      result[c] # "failed", result'[c] = "failed", spent' = spent
               PROVE  (\E w \in old : Turn(w, "Deployment")) \/ \E w \in lost : Turn(w, "Operator")
    OBVIOUS
  <2> USE DEF callVars, TypeOK
  <2>0. cm \in ConfigMap
    BY Left
  <2>1. ASSUME NEW k \in {"edit", "fault", "restart", "access"}, NEW m, Spend(k, m) PROVE FALSE
    <3>1. spent[k] \in Nat /\ spent[k] = spent[k] + 1
      BY <2>1 DEF CountInv, Spend
    <3> QED BY <3>1
  <2>2. ~CallFails /\ ~Crash /\ \A s \in Scope : ~Write(s)
    BY <2>1 DEF CallFails, Crash, Write
  <2>3. ~Finish /\ \A w \in Workload : ~Panic(w)
    BY <2>0 DEF Finish, Panic, End
  <2>4. ASSUME NEW w \in Workload, AnnotateDeployment(w) PROVE w \in old /\ Turn(w, "Deployment")
    BY <2>4 DEF AnnotateDeployment
  <2>5. ASSUME NEW w \in Workload, DeletePod(w) PROVE w \in lost /\ Turn(w, "Operator")
    BY <2>5 DEF DeletePod
  <2> QED
    BY <2>2, <2>3, <2>4, <2>5
    DEF Next, Call, vars, ListPods, ReviewAccess, SyncDaemonSets, PatchDaemonSet, PatchStatefulSet,
        ChangeAccess, RollOut, PodRestarts, CatchUp
<1>2. IInv => TypeOK /\ CountInv
  BY DEF IInv
<1> QED BY <1>1, <1>2, Invariant, PTL DEF Spec, RightsNeverFail
=============================================================================
