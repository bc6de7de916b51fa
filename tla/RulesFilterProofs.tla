-------------------------- MODULE RulesFilterProofs --------------------------
(***************************************************************************)
(* What rulesFilter grants, for every set of rules: first what each of the *)
(* two parts it makes of a source rule grants, then the whole copy.        *)
(***************************************************************************)
EXTENDS RulesFilter, TLAPS

\* A verb that may be requested is in a normalized list exactly when the list
\* grants it.
LEMMA NormalizedVerbs ==
    ASSUME NEW verbs \in SUBSET (Verb \cup {Wild}), NEW v \in supportedVerbs
    PROVE  /\ v \in normalizeVerbs(verbs) <=> v \in verbs \/ Wild \in verbs
           /\ Wild \notin normalizeVerbs(verbs)
BY RulesOK DEF normalizeVerbs

\* What both lists match, and nothing else, is matched by their intersection.
LEMMA WildcardIntersection ==
    ASSUME NEW s, NEW t, NEW x, x # Wild
    PROVE  (x \in intersectWithWildcard(s, t) \/ Wild \in intersectWithWildcard(s, t))
              <=> (x \in s \/ Wild \in s) /\ (x \in t \/ Wild \in t)
BY DEF intersectWithWildcard, explicit

\* The same of the names, as long as the lists meet.
LEMMA NamesIntersection ==
    ASSUME NEW s, NEW t, NEW x, namesMeet(s, t)
    PROVE  (intersectResourceNames(s, t) = {} \/ x \in intersectResourceNames(s, t))
              <=> (s = {} \/ x \in s) /\ (t = {} \/ x \in t)
BY DEF intersectResourceNames, namesMeet

\* The part copied as is grants what the rule grants to spelled-out entries.
LEMMA CopiedPartGrants ==
    ASSUME NEW src \in Rule, NEW q \in Request
    PROVE  Grants(CopiedPart(src), q)
              <=> /\ Grants(src, q)
                  /\ q.group \in src.groups /\ q.resource \in src.resources
<1>1. /\ q.group # Wild /\ q.resource # Wild /\ q.verb \in supportedVerbs
      /\ src.verbs \in SUBSET (Verb \cup {Wild})
  BY RulesOK DEF Request, Rule
<1>2. /\ q.verb \in normalizeVerbs(src.verbs) <=> q.verb \in src.verbs \/ Wild \in src.verbs
      /\ Wild \notin normalizeVerbs(src.verbs)
  BY <1>1, NormalizedVerbs
<1> QED BY <1>1, <1>2 DEF Grants, CopiedPart, explicit

\* The wildcard part grants what both rules grant.
LEMMA WildPartGrants ==
    ASSUME NEW src \in Rule, NEW m \in Rule, NEW q \in Request,
           namesMeet(src.names, m.names)
    PROVE  Grants(WildPart(src, m), q) <=> Grants(src, q) /\ Grants(m, q)
<1>1. /\ q.group # Wild /\ q.resource # Wild /\ q.verb \in supportedVerbs
      /\ src.verbs \in SUBSET (Verb \cup {Wild}) /\ m.verbs \in SUBSET (Verb \cup {Wild})
  BY RulesOK DEF Request, Rule
<1> DEFINE part == WildPart(src, m)
<1>2. (q.group \in part.groups \/ Wild \in part.groups)
         <=> /\ q.group \in src.groups \/ Wild \in src.groups
             /\ q.group \in m.groups \/ Wild \in m.groups
  BY <1>1, WildcardIntersection DEF WildPart
<1>3. (q.resource \in part.resources \/ Wild \in part.resources)
         <=> /\ q.resource \in src.resources \/ Wild \in src.resources
             /\ q.resource \in m.resources \/ Wild \in m.resources
  BY <1>1, WildcardIntersection DEF WildPart
<1>4. (q.verb \in part.verbs \/ Wild \in part.verbs)
         <=> /\ q.verb \in src.verbs \/ Wild \in src.verbs
             /\ q.verb \in m.verbs \/ Wild \in m.verbs
  BY <1>1, NormalizedVerbs DEF WildPart
<1>5. (part.names = {} \/ q.name \in part.names)
         <=> /\ src.names = {} \/ q.name \in src.names
             /\ m.names = {} \/ q.name \in m.names
  BY NamesIntersection DEF WildPart
<1> QED BY <1>2, <1>3, <1>4, <1>5 DEF Grants

\* A source rule and a managed rule that grant the same request, one that the
\* source rule reaches by a wildcard, leave something of each other.
LEMMA GrantedIsLimited ==
    ASSUME NEW src \in Rule, NEW m \in Rule, NEW q \in Request,
           Grants(src, q), Grants(m, q), Wild \in src.groups \cup src.resources
    PROVE  Considered(src) /\ Limits(src, m)
<1>1. /\ q.group # Wild /\ q.resource # Wild /\ q.verb \in supportedVerbs
      /\ src.verbs \in SUBSET (Verb \cup {Wild}) /\ m.verbs \in SUBSET (Verb \cup {Wild})
  BY RulesOK DEF Request, Rule
<1>2. /\ WildPart(src, m).groups # {} /\ WildPart(src, m).resources # {}
  <2>1. \/ q.group \in intersectWithWildcard(src.groups, m.groups)
        \/ Wild \in intersectWithWildcard(src.groups, m.groups)
    BY <1>1, WildcardIntersection DEF Grants
  <2>2. \/ q.resource \in intersectWithWildcard(src.resources, m.resources)
        \/ Wild \in intersectWithWildcard(src.resources, m.resources)
    BY <1>1, WildcardIntersection DEF Grants
  <2> QED BY <2>1, <2>2 DEF WildPart
<1>3. q.verb \in normalizeVerbs(src.verbs) /\ q.verb \in normalizeVerbs(m.verbs)
  BY <1>1, NormalizedVerbs DEF Grants
<1>4. namesMeet(src.names, m.names)
  BY DEF Grants, namesMeet
<1>5. WildPart(src, m).verbs # {}
  BY <1>3 DEF WildPart
<1>6. Considered(src)
  BY <1>3 DEF Considered, Grants
<1> QED BY <1>2, <1>4, <1>5, <1>6 DEF Limits

\* A member of the copy is one of the two parts of some source rule.
LEMMA FilterMembers ==
    ASSUME NEW org, NEW managed, NEW r
    PROVE  r \in rulesFilter(org, managed)
              <=> \E src \in org :
                     /\ Considered(src)
                     /\ \/ /\ explicit(src.groups) # {} /\ explicit(src.resources) # {}
                           /\ r = CopiedPart(src)
                        \/ \E m \in managed : Limits(src, m) /\ r = WildPart(src, m)
BY DEF rulesFilter

\* rulesFilter returns rules.
LEMMA FilterType ==
    ASSUME NEW org \in SUBSET Rule, NEW managed \in SUBSET Rule
    PROVE  rulesFilter(org, managed) \in SUBSET Rule
<1> SUFFICES ASSUME NEW r \in rulesFilter(org, managed) PROVE r \in Rule
  OBVIOUS
<1>1. PICK src \in org : \/ r = CopiedPart(src)
                         \/ \E m \in managed : Limits(src, m) /\ r = WildPart(src, m)
  BY FilterMembers
<1>2. \A v \in SUBSET (Verb \cup {Wild}) : normalizeVerbs(v) \in SUBSET (Verb \cup {Wild})
  BY RulesOK DEF normalizeVerbs
<1>3. CASE r = CopiedPart(src)
  BY <1>2, <1>3 DEF CopiedPart, Rule, explicit
<1>4. ASSUME NEW m \in managed, r = WildPart(src, m) PROVE r \in Rule
  <2>1. src \in Rule /\ m \in Rule
    OBVIOUS
  <2>2. \A A : \A s, t \in SUBSET (A \cup {Wild}) :
           intersectWithWildcard(s, t) \in SUBSET (A \cup {Wild})
    BY DEF intersectWithWildcard, explicit
  <2>3. intersectResourceNames(src.names, m.names) \in SUBSET (Name \ {NoName})
    BY <2>1 DEF intersectResourceNames, Rule
  <2> QED BY <1>2, <1>4, <2>1, <2>2, <2>3 DEF WildPart, Rule
<1> QED BY <1>1, <1>3, <1>4

\* However the administrators write the two Roles, the copy rulesFilter makes
\* grants exactly what the source Role grants by name or, by wildcard, within the
\* managed Role: nothing is lost and nothing added, in particular not by an
\* intersection that came out empty ("every name") or by a wildcard that survived.
THEOREM FilterGrantsExactly ==
    ASSUME NEW org \in SUBSET Rule, NEW managed \in SUBSET Rule
    PROVE  granted(rulesFilter(org, managed)) = meant(org, managed)
<1> SUFFICES ASSUME NEW q \in Request
             PROVE  (\E r \in rulesFilter(org, managed) : Grants(r, q))
                       <=> q \in meant(org, managed)
  BY DEF granted, meant
<1>1. ASSUME NEW r \in rulesFilter(org, managed), Grants(r, q)
      PROVE  q \in meant(org, managed)
  <2>1. PICK src \in org :
           \/ r = CopiedPart(src)
           \/ \E m \in managed : Limits(src, m) /\ r = WildPart(src, m)
    BY FilterMembers
  <2>2. src \in Rule
    OBVIOUS
  <2>3. CASE r = CopiedPart(src)
    BY <1>1, <2>2, <2>3, CopiedPartGrants DEF meant
  <2>4. ASSUME NEW m \in managed, Limits(src, m), r = WildPart(src, m)
        PROVE  q \in meant(org, managed)
    <3>1. m \in Rule /\ namesMeet(src.names, m.names)
      BY <2>4 DEF Limits
    <3>2. Grants(src, q) /\ Grants(m, q)
      BY <1>1, <2>2, <2>4, <3>1, WildPartGrants
    <3> QED BY <3>2 DEF meant
  <2> QED BY <2>1, <2>3, <2>4
<1>2. ASSUME NEW src \in org, Grants(src, q),
             q.group \in src.groups, q.resource \in src.resources
      PROVE  \E r \in rulesFilter(org, managed) : Grants(r, q)
  <2>1. src \in Rule /\ q.group # Wild /\ q.resource # Wild /\ q.verb \in supportedVerbs
    BY RulesOK DEF Request
  <2>2. Grants(CopiedPart(src), q)
    BY <1>2, <2>1, CopiedPartGrants
  <2>3. Considered(src) /\ explicit(src.groups) # {} /\ explicit(src.resources) # {}
    <3>1. q.verb \in normalizeVerbs(src.verbs)
      BY <1>2, <2>1, NormalizedVerbs DEF Grants, Rule
    <3> QED BY <1>2, <2>1, <3>1 DEF Considered, explicit
  <2>4. CopiedPart(src) \in rulesFilter(org, managed)
    BY <2>3, FilterMembers
  <2> QED BY <2>2, <2>4
<1>3. ASSUME NEW src \in org, NEW m \in managed, Grants(src, q), Grants(m, q),
             ~(q.group \in src.groups /\ q.resource \in src.resources)
      PROVE  \E r \in rulesFilter(org, managed) : Grants(r, q)
  <2>1. src \in Rule /\ m \in Rule
    OBVIOUS
  <2>2. Wild \in src.groups \cup src.resources
    BY <1>3 DEF Grants
  <2>3. Considered(src) /\ Limits(src, m)
    BY <1>3, <2>1, <2>2, GrantedIsLimited
  <2>4. Grants(WildPart(src, m), q)
    BY <1>3, <2>1, <2>3, WildPartGrants DEF Limits
  <2>5. WildPart(src, m) \in rulesFilter(org, managed)
    BY <2>3, FilterMembers
  <2> QED BY <2>4, <2>5
<1> QED BY <1>1, <1>2, <1>3 DEF meant

\* canProject: a Role is skipped (or the reconcile fails) exactly when its copy
\* would grant nothing; rulesFilter returns no empty shell.
THEOREM ProjectedGrants ==
    ASSUME NEW org \in SUBSET Rule, NEW managed \in SUBSET Rule
    PROVE  rulesFilter(org, managed) # {} <=> granted(rulesFilter(org, managed)) # {}
<1> SUFFICES ASSUME NEW r \in rulesFilter(org, managed)
             PROVE  \E q \in Request : Grants(r, q)
  BY DEF granted
<1>1. PICK src \in org :
         /\ Considered(src)
         /\ \/ /\ explicit(src.groups) # {} /\ explicit(src.resources) # {}
               /\ r = CopiedPart(src)
            \/ \E m \in managed : Limits(src, m) /\ r = WildPart(src, m)
  BY FilterMembers
<1>2. /\ r.groups # {} /\ r.groups \subseteq Group \cup {Wild}
      /\ r.resources # {} /\ r.resources \subseteq Resource \cup {Wild}
      /\ r.verbs # {} /\ r.verbs \subseteq supportedVerbs
      /\ r.names \subseteq Name
  <2>1. src \in Rule /\ normalizeVerbs(src.verbs) \subseteq supportedVerbs
    BY DEF normalizeVerbs
  <2>2. CASE /\ explicit(src.groups) # {} /\ explicit(src.resources) # {}
             /\ r = CopiedPart(src)
    BY <1>1, <2>1, <2>2 DEF CopiedPart, Considered, explicit, Rule
  <2>3. ASSUME NEW m \in managed, Limits(src, m), r = WildPart(src, m)
        PROVE  <1>2!:
    <3>1. m \in Rule
      OBVIOUS
    <3>2. /\ intersectWithWildcard(src.groups, m.groups) \subseteq Group \cup {Wild}
          /\ intersectWithWildcard(src.resources, m.resources) \subseteq Resource \cup {Wild}
          /\ intersectResourceNames(src.names, m.names) \subseteq Name
      BY <2>1, <3>1 DEF intersectWithWildcard, intersectResourceNames, explicit, Rule
    <3> QED BY <2>1, <2>3, <3>1, <3>2 DEF Limits, WildPart
  <2> QED BY <1>1, <2>2, <2>3
<1>3. \E g \in Group : g \in r.groups \/ Wild \in r.groups
  BY <1>2, RulesOK
<1>4. \E s \in Resource : s \in r.resources \/ Wild \in r.resources
  BY <1>2, RulesOK
<1>5. \E v \in supportedVerbs : v \in r.verbs
  BY <1>2
<1>6. \E n \in Name : r.names = {} \/ n \in r.names
  BY <1>2, RulesOK
<1>7. PICK g \in Group, s \in Resource, v \in supportedVerbs, n \in Name :
         /\ g \in r.groups \/ Wild \in r.groups
         /\ s \in r.resources \/ Wild \in r.resources
         /\ v \in r.verbs /\ (r.names = {} \/ n \in r.names)
  BY <1>3, <1>4, <1>5, <1>6
<1> DEFINE q == [group |-> g, resource |-> s, verb |-> v, name |-> n]
<1>8. q \in Request /\ Grants(r, q)
  BY <1>7 DEF Request, Grants
<1> QED BY <1>8
=============================================================================
