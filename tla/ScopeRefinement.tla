-------------------------- MODULE ScopeRefinement --------------------------
(***************************************************************************)
(* NamespaceScope implements ScopeLifecycle.  What the API server stores   *)
(* decides in which phase of its life a scope is, whatever the informer    *)
(* and the worker believe; the worker's `spared` are the excuses.          *)
(***************************************************************************)
EXTENDS NamespaceScope

lifeOf(o) == IF o = None THEN "absent"
             ELSE IF ~o.fin THEN "open"
             ELSE IF o.deleting THEN "leaving" ELSE "held"

claimOf(o) == IF o = None THEN None
              ELSE [members |-> o.members \ {OperatorNs}, label |-> setDefaults(o).cm]

Lifecycle == INSTANCE ScopeLifecycle WITH
    Label      <- ConfigMapName,
    life       <- [c \in CR |-> lifeOf(api[c])],
    generation <- made,
    claim      <- [c \in CR |-> claimOf(api[c])],
    traces     <- [n \in Namespace |-> [role |-> role[n], binding |-> binding[n],
                                        runtime |-> runtime[n]]],
    excused    <- spared,
    serving    <- cur

\* Whatever fails, lags, crashes or is edited meanwhile, Reconcile takes every
\* scope through the life its finalizer promises (addFinalizer before any
\* projection, DeleteAllRbac before RemoveFinalizer, no way back).
ImplementsLifecycle == Lifecycle!Spec
=============================================================================
