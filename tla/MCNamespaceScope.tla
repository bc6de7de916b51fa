-------------------------- MODULE MCNamespaceScope --------------------------
(***************************************************************************)
(* Model-checking instances of NamespaceScope: an operator namespace and   *)
(* two target namespaces, one or two scopes, one or two ConfigMaps.        *)
(***************************************************************************)
EXTENDS ScopeRefinement, KeptRecords

CONSTANTS c1, c2, op, a, b, m1, m2

\* spec.namespaceMembers a user writes.
OneOrBoth == {{a}, {a, b}}
WithOwn == {{a}, {op, a}}
JustA == {{a}}
AllTargets == {{a}, {b}, {a, b}}
=============================================================================
