----------------------------- MODULE RulesFilter -----------------------------
(***************************************************************************)
(* rulesFilter: which rules of a Role of the operator's namespace are      *)
(* copied into a target namespace.  A rule is a record of sets (the order  *)
(* of its lists and of the rules means nothing to the API server); an      *)
(* empty `names` means every name.  Entries of a list are atoms, except    *)
(* the wildcard: the code compares them as whole strings.                  *)
(*                                                                         *)
(* org is a source Role, managed the Role that says what the operator      *)
(* itself may do in the target namespace: each the set of its rules, none  *)
(* when the Role is missing.                                               *)
(***************************************************************************)
CONSTANTS
    Group, Resource, Name,  \* what a request may name; Name has NoName in it
    Verb,                   \* every verb
    supportedVerbs,         \* the verbs the operator copies
    Wild,                   \* the entry "*"
    NoName                  \* a request that names no object (list, create)

Rule == [groups: SUBSET (Group \cup {Wild}), resources: SUBSET (Resource \cup {Wild}),
         verbs: SUBSET (Verb \cup {Wild}), names: SUBSET (Name \ {NoName})]

ASSUME RulesOK ==
    /\ Wild \notin Group \cup Resource \cup Verb
    /\ NoName \in Name
    /\ Group # {} /\ Resource # {} /\ supportedVerbs \subseteq Verb

-----------------------------------------------------------------------------
(* The filter                                                              *)

\* normalizeVerbs
normalizeVerbs(verbs) ==
    IF Wild \in verbs THEN supportedVerbs ELSE verbs \cap supportedVerbs

\* splitWildcard: the explicit entries.
explicit(entries) == entries \ {Wild}

\* intersectWithWildcard, the wildcard of s still in it
intersectWithWildcard(s, t) ==
    IF Wild \in s
    THEN IF Wild \in t THEN {Wild} ELSE explicit(t)
    ELSE IF Wild \in t THEN explicit(s) ELSE s \cap t

\* intersectResourceNames: an empty list stands for every name.
intersectResourceNames(s, t) ==
    IF s = {} THEN t ELSE IF t = {} THEN s ELSE s \cap t

\* Variant of namesMeet: two lists with nothing in common meet.
namesAlwaysMeet(s, t) == TRUE

\* the bool of intersectResourceNames
namesMeet(s, t) == s = {} \/ t = {} \/ s \cap t # {}

\* Variant of Considered: the verbs are not looked at.
ConsideredWithoutVerbs(src) == src.groups # {} /\ src.resources # {}

\* A rule rulesFilter looks at at all.
Considered(src) ==
    src.groups # {} /\ src.resources # {} /\ normalizeVerbs(src.verbs) # {}

\* "The part of the rule without wildcard is copied as is."
CopiedPart(src) ==
    [groups |-> explicit(src.groups), resources |-> explicit(src.resources),
     verbs |-> normalizeVerbs(src.verbs), names |-> src.names]

\* The wildcard part, limited by one managed rule.
WildPart(src, m) ==
    [groups |-> intersectWithWildcard(src.groups, m.groups),
     resources |-> intersectWithWildcard(src.resources, m.resources),
     verbs |-> normalizeVerbs(src.verbs) \cap normalizeVerbs(m.verbs),
     names |-> intersectResourceNames(src.names, m.names)]

\* What the managed rule leaves of a source rule with a wildcard.
Limits(src, m) ==
    LET part == WildPart(src, m)
    IN  /\ Wild \in src.groups \cup src.resources
        /\ part.verbs # {} /\ part.groups # {} /\ part.resources # {}
        /\ namesMeet(src.names, m.names)

rulesFilter(orgRule, nssManagedRule) ==
    {CopiedPart(src) : src \in {s \in orgRule :
        Considered(s) /\ explicit(s.groups) # {} /\ explicit(s.resources) # {}}}
    \cup
    UNION {{WildPart(src, m) : m \in {r \in nssManagedRule : Limits(src, r)}} :
               src \in {s \in orgRule : Considered(s)}}

-----------------------------------------------------------------------------
(* What rules mean                                                         *)

Request == [group: Group, resource: Resource, verb: supportedVerbs, name: Name]

\* How the API server reads a rule.
Grants(r, q) ==
    /\ q.group \in r.groups \/ Wild \in r.groups
    /\ q.resource \in r.resources \/ Wild \in r.resources
    /\ q.verb \in r.verbs \/ Wild \in r.verbs
    /\ r.names = {} \/ q.name \in r.names

granted(rules) == {q \in Request : \E r \in rules : Grants(r, q)}

\* What the copy of a Role should grant, said without its construction: what a
\* source rule grants that either spells group and resource out or reaches them
\* by a wildcard which the operator's own permissions cover.
meant(org, managed) ==
    {q \in Request : \E src \in org :
        /\ Grants(src, q)
        /\ \/ q.group \in src.groups /\ q.resource \in src.resources
           \/ \E m \in managed : Grants(m, q)}
=============================================================================
