----------------------------- MODULE KeptRecords -----------------------------
(***************************************************************************)
(* Why the records of the controller (the validated namespaces in a        *)
(* status, the list in a ConfigMap, the RBAC in the namespaces) agree with *)
(* each other when the informer caches catch up before each step of the    *)
(* worker: the strengthenings of CompletedMeansProjected,                  *)
(* CompletedMeansListed, SharedNamespaceKept and RbacAccounted that a      *)
(* single step preserves.  They are stated over the variables of           *)
(* NamespaceScope and add nothing to its behaviour.                        *)
(***************************************************************************)
EXTENDS NamespaceScope

-----------------------------------------------------------------------------
(* Whatever the caches hold                                                *)

\* The informer's copy of a ConfigMap outside cmLag is the stored one.
CmCopiesInv == \A m \in ConfigMapName : m \notin cmLag => cmCache[m] = cms[m]

\* Only the worker writes status.validatedMembers: its copy, while fresh, has
\* the stored ones.
FreshInv == fresh => api[cur].validated = inst.validated

\* A stored scope carries the last uid given to its name; a copy carries one
\* that was given.
UidInv ==
    /\ \A c \in CR : api[c] # None => 0 < made[c] /\ api[c].uid = made[c]
    /\ \A c \in CR : cache[c] # None => 0 < cache[c].uid /\ cache[c].uid <= made[c]
    /\ pc # "idle" => 0 < inst.uid /\ inst.uid <= made[cur]

RecordsInv == CmCopiesInv /\ FreshInv /\ UidInv

-----------------------------------------------------------------------------
(* What one reconcile achieves                                             *)

\* The Role and the RoleBinding of namespace n serve the scope in hand.
Projected(n) == role[n] = inst.cm /\ binding[n] # None

\* What follows a PushRbacToNamespace without error.
afterPush == {"unprojected", "deleteUnmanaged", "delete", "updateCm", "restart", "runtime",
              "recordCompleted"}

\* DeleteRbacFromUnmanagedNamespace goes through no validated member of the
\* scope in hand.
WithdrawInv ==
    pc = "delete" /\ ~inst.deleting /\ fresh => todo \cap inst.validated = {}

\* The goroutines that are done have left a Role and a RoleBinding unless one
\* reported an error, and nothing takes them away before the reconcile is over;
\* a namespace needs two steps to go, and takes its RBAC with it.
ProjectedInv ==
    /\ spent["ns"] = 0 => \A n \in Namespace : nsPhase[n] = "Active"
    /\ spent["ns"] < 2 /\ pc = "push" /\ ~pushErr =>
          \A n \in inst.validated \ ({OperatorNs} \cup todo) : Projected(n)
    /\ spent["ns"] < 2 /\ pc \in afterPush /\ ~inst.deleting /\ fresh /\ cur \notin SubsetCR =>
          \A n \in inst.validated \ {OperatorNs} : Projected(n)

\* From UpdateConfigMap on, the list holds what the scope has validated.
ListedInv ==
    pc \in {"restart", "runtime", "recordCompleted"} /\ ~inst.deleting /\ fresh =>
        /\ inst.cm \in ConfigMapName /\ cms[inst.cm] # None
        /\ inst.validated \subseteq cms[inst.cm].names
        /\ <<cur, inst.uid>> \in cms[inst.cm].owners

\* A goroutine runs for every validated member but the operator's namespace.
FanOutInv == pc = "push" => todo \subseteq inst.validated \ {OperatorNs}

ServedInv == WithdrawInv /\ ProjectedInv /\ ListedInv /\ FanOutInv

-----------------------------------------------------------------------------
(* What a withdrawal spares, and what leads back to every Role             *)

Claimed(n, m) == \E c \in CR : Claims(c, n, m)

\* Neither deletion loop visits a namespace that a live scope with the same
\* ConfigMap claims, for as long as nobody renames a ConfigMap.
SparedInv == pc = "delete" => \A n \in todo : ~Claimed(n, inst.cm)

\* No fault, no deletion, no change of a namespace so far.
Quiet == Undisturbed /\ spent["ns"] = 0

\* The worker's copy then differs from the stored scope in its members only.
HandInv ==
    /\ pushErr = FALSE /\ missed = {}
    /\ \A c \in CR : api[c] # None => api[c].unprojected = {}
    /\ pc # "idle" =>
         /\ ~inst.deleting /\ inst.unprojected = {}
         /\ api[cur] # None /\ inst.validated = api[cur].validated
         /\ setDefaults(inst).cm = setDefaults(api[cur]).cm

\* The garbage collector finds no ConfigMap without an owner.
OwnedInv ==
    \A m \in ConfigMapName : cms[m] # None =>
        \E r \in cms[m].owners : api[r[1]] # None /\ api[r[1]].uid = r[2]

\* The list of the ConfigMap, or the reconcile that is about to write it.
OnRecord(n, m) ==
    \/ cms[m] # None /\ n \in cms[m].names
    \/ /\ pc \in {"push", "unprojected", "deleteUnmanaged", "delete", "updateCm"}
       /\ inst.cm = m /\ n \in inst.validated

\* An object labelled m in namespace n is on record, and a list about to be
\* shortened loses no namespace that still has one.
Followed(n, m) ==
    /\ n # OperatorNs
    /\ OnRecord(n, m)
    /\ pc \in {"delete", "updateCm"} /\ m = inst.cm =>
          Claimed(n, m) \/ (pc = "delete" /\ n \in todo)

\* So is each of the Roles, or of the RoleBindings, f.
Traced(f) == \A n \in Namespace : f[n] # None => Followed(n, f[n])

QuietInv == Quiet => HandInv /\ OwnedInv /\ Traced(role) /\ Traced(binding)

KeptInv == SparedInv /\ QuietInv

\* All of it, for the caches that catch up and the names that stay.
RecordsKeptInv == IInv /\ RecordsInv /\ ServedInv /\ KeptInv
=============================================================================
