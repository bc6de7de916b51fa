--------------------------- MODULE ScopeLifecycle ---------------------------
(***************************************************************************)
(* What the finalizer of a NamespaceScope promises, without the worker,    *)
(* the caches or the order of the API calls: a scope is first open, then   *)
(* held by the finalizer, then leaving, then gone; the objects projected   *)
(* into other namespaces are written only while a scope is served that is  *)
(* held (or one of Helm's, which are exempt), and a scope that is leaving  *)
(* goes only when the namespaces it claims are clean, those it is excused  *)
(* from apart.                                                             *)
(***************************************************************************)
EXTENDS Naturals

CONSTANTS
    CR,         \* names of NamespaceScopes
    Namespace,  \* namespaces objects are projected into
    Label,      \* labels of projected objects
    None,       \* no object, no claim
    HelmCR      \* scopes that are never given a finalizer by the operator

VARIABLES
    life,       \* "absent", "open", "held" or "leaving"
    generation, \* how often the name has been used
    claim,      \* the namespaces and the label a scope asks for
    traces,     \* labels of the Role, RoleBinding and runtime Role
    excused,    \* namespaces the running clean-up need not clean
    serving     \* the scope the operator is at work for

lifeVars == <<life, generation, claim>>
vars == <<lifeVars, traces, excused, serving>>

Claim == [members: SUBSET Namespace, label: Label]
Trace == [role: Label \cup {None}, binding: Label \cup {None},
          runtime: Label \cup {None}]

Init ==
    /\ life = [c \in CR |-> "absent"]
    /\ generation = [c \in CR |-> 0]
    /\ claim = [c \in CR |-> None]
    /\ traces = [n \in Namespace |-> [role |-> None, binding |-> None, runtime |-> None]]
    /\ excused = {} /\ serving = None

Create(c) ==
    /\ life[c] = "absent"
    /\ life' = [life EXCEPT ![c] = "open"]
    /\ generation' = [generation EXCEPT ![c] = @ + 1]
    /\ \E k \in Claim : claim' = [claim EXCEPT ![c] = k]
    /\ UNCHANGED <<traces, excused, serving>>

\* The finalizer is added, to this very generation.
Hold(c) ==
    /\ serving = c /\ life[c] = "open"
    /\ life' = [life EXCEPT ![c] = "held"]
    /\ UNCHANGED <<generation, claim, traces, excused, serving>>

\* A user asks for something else, even of a scope that is leaving.
Edit(c) ==
    /\ life[c] # "absent"
    /\ \E k \in Claim : claim' = [claim EXCEPT ![c] = k]
    /\ UNCHANGED <<life, generation, traces, excused, serving>>

\* A deletion: without the finalizer the scope is gone at once.
Delete(c) ==
    /\ \/ /\ life[c] = "open"
          /\ life' = [life EXCEPT ![c] = "absent"]
          /\ claim' = [claim EXCEPT ![c] = None]
       \/ /\ life[c] = "held"
          /\ life' = [life EXCEPT ![c] = "leaving"]
          /\ UNCHANGED claim
    /\ UNCHANGED <<generation, traces, excused, serving>>

\* Objects are written for scope c, which cannot vanish meanwhile.
Project(c) ==
    /\ serving = c
    /\ life[c] \in {"held", "leaving"} \/ c \in HelmCR
    /\ traces' \in [Namespace -> Trace]
    /\ UNCHANGED <<lifeVars, excused, serving>>

\* Objects go, withdrawn by the operator or with their namespace, or the
\* operator turns to another scope.
Withdraw ==
    /\ \A n \in Namespace : /\ traces'[n].role \in {traces[n].role, None}
                            /\ traces'[n].binding \in {traces[n].binding, None}
                            /\ traces'[n].runtime \in {traces[n].runtime, None}
    /\ traces' \in [Namespace -> Trace]
    /\ excused' \in SUBSET Namespace /\ serving' \in CR \cup {None}
    /\ UNCHANGED lifeVars

Clean(c) ==
    \A n \in claim[c].members \ excused :
        traces[n].role # claim[c].label /\ traces[n].binding # claim[c].label

\* The finalizer is removed and the scope is gone.
Release(c) ==
    /\ serving = c /\ life[c] = "leaving" /\ Clean(c)
    /\ life' = [life EXCEPT ![c] = "absent"]
    /\ claim' = [claim EXCEPT ![c] = None]
    /\ excused' = {} /\ serving' = None
    /\ UNCHANGED <<generation, traces>>

Next ==
    \/ \E c \in CR : \/ Create(c) \/ Hold(c) \/ Edit(c) \/ Delete(c)
                     \/ Project(c) \/ Release(c)
    \/ Withdraw

Spec == Init /\ [][Next]_vars
=============================================================================
