---------------------------- MODULE MCProjectRbac ----------------------------
(***************************************************************************)
(* Small instances of ProjectRbac: one namespace, two service accounts and *)
(* two Roles whose rules speak of two API groups, two resources, two       *)
(* supported verbs and one that is not, and two object names.              *)
(***************************************************************************)
EXTENDS ProjectedRoles

CONSTANTS n1, s1, s2, r1, r2,
          core, apps, pods, jobs, get, list_, escalate, o1, o2

ARule(group, resource, verb, name) ==
    [groups |-> group, resources |-> resource, verbs |-> verb, names |-> name]

\* Entries that are absent, explicit, wildcards or both; the last rule of each
\* Role has only a verb that is not supported.  r1 has something to copy in any
\* namespace, r2 only where the managed Role is.
TheirRules ==
    (r1 :> {ARule({core}, {pods}, {Wild}, {o1}),
            ARule({apps}, {Wild}, {get, escalate}, {}),
            ARule({apps, Wild}, {jobs, Wild}, {escalate}, {})})
    @@ (r2 :> {ARule({Wild}, {jobs, Wild}, {get}, {o1}),
               ARule({core}, {pods}, {escalate}, {})})
OwnRules ==
    {ARule({core}, {pods, jobs}, {get, list_}, {o2}),
     ARule({apps}, {jobs}, {Wild}, {o1, o2}),
     ARule({Wild}, {jobs}, {list_}, {})}

\* No two projected objects share a name.
OwnNames == [p \in RoleName \X Sa |-> p]
AllNames == RoleName \X Sa

\* The first Role bound to every account, the second to none or to the first.
OneOrTwo == {[s \in Sa |-> {r1}], [s \in Sa |-> IF s = s1 THEN {r1, r2} ELSE {r1}]}
FirstBound == {[s \in Sa |-> {r1}]}
=============================================================================
