-------------------------- MODULE ProjectRbacProofs --------------------------
(***************************************************************************)
(* PushRbacToNamespace, for any number of namespaces, service accounts and *)
(* Roles: no goroutine is ever stuck at a channel, and what is projected   *)
(* grants what it should.                                                  *)
(***************************************************************************)
EXTENDS ProjectedRoles, RulesFilterProofs, FiniteSetTheorems, SequenceTheorems

Place == {"list", "managed", "role", "report", "binding", "bound", "error", "done"}

USE DEF adminVars, objectVars, innerVars, channelVars, outerVars, callVars

-----------------------------------------------------------------------------
(* The channels                                                            *)

\* The accounts whose goroutine in namespace n has returned, and those whose
\* goroutine is past the send of its unprojected Roles.
Left(n) == {s \in accounts : at[<<n, s>>] = "done"}
Reporting(n) == {s \in accounts : at[<<n, s>>] \notin {"list", "managed", "role", "report"}}

Collected == {n \in Ns : outer[n] = "done"}

PlacesInv ==
    /\ accounts \subseteq Sa
    /\ at \in [Worker -> Place] /\ outer \in [Ns -> {"waiting", "done"}]
    /\ \A w \in Worker : at[w] # "done" => SaOf(w) \in accounts

\* A channel holds no more than the goroutines that are past it.
ChannelsInv ==
    /\ errs \in [Ns -> Nat] /\ notes \in [Ns -> Nat]
    /\ outErrs \in Nat /\ outNotes \in Nat
    /\ \A n \in Ns : /\ errs[n] <= Cardinality(Left(n))
                     /\ notes[n] <= Cardinality(Reporting(n))
    /\ outErrs <= Cardinality(Collected) /\ outNotes <= Cardinality(Collected)

LEMMA FiniteSets ==
    \A S : S \in SUBSET Sa \/ S \in SUBSET Ns => IsFiniteSet(S) /\ Cardinality(S) \in Nat
BY ProjectOK, FS_Subset, FS_CardinalityType

\* A part with something missing is smaller by one at least.
LEMMA RoomForOne ==
    ASSUME NEW S, NEW T \in SUBSET S, NEW x \in S \ T, IsFiniteSet(S), NEW k \in Nat,
           k <= Cardinality(T)
    PROVE  k < Cardinality(S)
<1>1. IsFiniteSet(T) /\ Cardinality(T \cup {x}) = Cardinality(T) + 1
  BY FS_Subset, FS_AddElement
<1>2. Cardinality(T \cup {x}) <= Cardinality(S)
  BY FS_Subset
<1> QED BY <1>1, <1>2, FS_CardinalityType

\* The two invariants leave room for whoever is about to send.
LEMMA RoomInv == PlacesInv /\ ChannelsInv => NobodyBlocks
<1> SUFFICES ASSUME PlacesInv, ChannelsInv PROVE NobodyBlocks
  OBVIOUS
<1>1. ASSUME NEW w \in Worker, at[w] = "error" PROVE errs[NsOf(w)] < innerCap
  <2>1. /\ NsOf(w) \in Ns /\ w = <<NsOf(w), SaOf(w)>> /\ SaOf(w) \in accounts
        /\ SaOf(w) \notin Left(NsOf(w))
    BY <1>1 DEF PlacesInv, Worker, NsOf, SaOf, Left
  <2>2. Left(NsOf(w)) \in SUBSET accounts /\ IsFiniteSet(accounts)
    BY FiniteSets DEF Left, PlacesInv
  <2> QED BY <2>1, <2>2, RoomForOne DEF ChannelsInv, innerCap
<1>2. ASSUME NEW w \in Worker, at[w] = "report" PROVE notes[NsOf(w)] < innerCap
  <2>1. /\ NsOf(w) \in Ns /\ w = <<NsOf(w), SaOf(w)>> /\ SaOf(w) \in accounts
        /\ SaOf(w) \notin Reporting(NsOf(w))
    BY <1>2 DEF PlacesInv, Worker, NsOf, SaOf, Reporting
  <2>2. Reporting(NsOf(w)) \in SUBSET accounts /\ IsFiniteSet(accounts)
    BY FiniteSets DEF Reporting, PlacesInv
  <2> QED BY <2>1, <2>2, RoomForOne DEF ChannelsInv, innerCap
<1>3. ASSUME NEW n \in Ns, outer[n] = "waiting"
      PROVE  outErrs < outerCap /\ outNotes < outerCap
  <2>1. Collected \in SUBSET Ns /\ n \in Ns \ Collected
    BY <1>3 DEF Collected
  <2> QED BY <2>1, FiniteSets, RoomForOne DEF ChannelsInv, outerCap
<1> QED BY <1>1, <1>2, <1>3 DEF NobodyBlocks

\* Where a step takes one inner goroutine, and what it sends.
LEMMA InnerMoves ==
    ASSUME PlacesInv, NEW w \in Worker, Inner(w)
    PROVE  /\ at[w] # "done" /\ at' \in [Worker -> Place]
           /\ \A v \in Worker \ {w} : at'[v] = at[v]
           /\ at[w] \notin {"list", "managed", "role", "report"} =>
                 at'[w] \notin {"list", "managed", "role", "report"}
           /\ \/ UNCHANGED <<errs, notes>>
              \/ /\ errs' = [errs EXCEPT ![NsOf(w)] = @ + 1] /\ UNCHANGED notes
                 /\ at'[w] = "done"
              \/ /\ notes' = [notes EXCEPT ![NsOf(w)] = @ + 1] /\ UNCHANGED errs
                 /\ at[w] = "report" /\ at'[w] = "binding"
           /\ UNCHANGED <<accounts, outer, outErrs, outNotes>>
<1> USE DEF PlacesInv, Place
<1>0. UNCHANGED <<accounts, outer, outErrs, outNotes>>
  BY DEF Inner
<1>1. CASE ListRoles(w) /\ UNCHANGED channelVars
  BY <1>0, <1>1 DEF ListRoles, Errs, GoTo
<1>2. CASE ReadManaged(w) /\ UNCHANGED channelVars
  <2>1. at[w] = "managed" /\ \E x \in {"bound", "role", "done", "error"} : GoTo(w, x)
    BY <1>2 DEF ReadManaged, Errs
  <2> QED BY <1>0, <1>2, <2>1 DEF GoTo
<1>3. CASE CopyRole(w) /\ UNCHANGED channelVars
  <2>1. /\ at[w] = "role"
        /\ UNCHANGED at \/ \E x \in {"report", "done", "error"} : GoTo(w, x)
    BY <1>3 DEF CopyRole, Errs, Note, Advance
  <2> QED BY <1>0, <1>3, <2>1 DEF GoTo
<1>4. CASE BindRole(w) /\ UNCHANGED channelVars
  <2>1. /\ at[w] = "binding"
        /\ UNCHANGED at \/ \E x \in {"bound", "done", "error"} : GoTo(w, x)
    BY <1>4 DEF BindRole, Errs, Advance
  <2> QED BY <1>0, <1>4, <2>1 DEF GoTo
<1>5. CASE Report(w)
  BY <1>0, <1>5 DEF Report, GoTo
<1>6. CASE Leave(w)
  BY <1>0, <1>6 DEF Leave, GoTo
<1> QED BY <1>1, <1>2, <1>3, <1>4, <1>5, <1>6 DEF Inner

\* A goroutine that moves on keeps the bounds of both channels it sends to.
LEMMA InnerKeeps ==
    ASSUME PlacesInv, ChannelsInv, NEW w \in Worker, Inner(w)
    PROVE  PlacesInv' /\ ChannelsInv'
<1>1. PlacesInv'
  BY InnerMoves DEF PlacesInv
<1> DEFINE n == NsOf(w)
           s == SaOf(w)
<1>2. n \in Ns /\ s \in accounts /\ w = <<n, s>>
  BY InnerMoves DEF PlacesInv, Worker, NsOf, SaOf
<1>3. \A m \in Ns : Left(m) \in SUBSET Left(m)' /\ Reporting(m) \in SUBSET Reporting(m)'
  BY InnerMoves DEF Left, Reporting, PlacesInv, Worker
<1>4. \A m \in Ns : /\ Cardinality(Left(m)) <= Cardinality(Left(m)')
                    /\ Cardinality(Reporting(m)) <= Cardinality(Reporting(m)')
                    /\ Cardinality(Left(m)) \in Nat /\ Cardinality(Left(m)') \in Nat
                    /\ Cardinality(Reporting(m)) \in Nat
                    /\ Cardinality(Reporting(m)') \in Nat
  <2>1. \A m \in Ns : /\ Left(m) \in SUBSET Sa /\ Left(m)' \in SUBSET Sa
                      /\ Reporting(m) \in SUBSET Sa /\ Reporting(m)' \in SUBSET Sa
    BY <1>1 DEF PlacesInv, Left, Reporting
  <2> QED BY <1>3, <2>1, FiniteSets, FS_Subset
<1>5. /\ outErrs' \in Nat /\ outNotes' \in Nat
      /\ outErrs' <= Cardinality(Collected') /\ outNotes' <= Cardinality(Collected')
  BY InnerMoves DEF Collected, ChannelsInv
<1>6. CASE UNCHANGED <<errs, notes>>
  <2>1. \A m \in Ns : /\ errs'[m] <= Cardinality(Left(m)')
                      /\ notes'[m] <= Cardinality(Reporting(m)')
    BY <1>4, <1>6 DEF ChannelsInv
  <2> QED BY <1>1, <1>5, <1>6, <2>1 DEF ChannelsInv
<1>7. CASE /\ errs' = [errs EXCEPT ![n] = @ + 1] /\ UNCHANGED notes
           /\ at'[w] = "done"
  <2>1. s \in Left(n)' \ Left(n)
    BY <1>2, <1>7, InnerMoves DEF Left
  <2>2. IsFiniteSet(Left(n)')
    BY <1>1, FiniteSets DEF PlacesInv, Left
  <2>3. errs[n] < Cardinality(Left(n)')
    BY <1>2, <1>3, <2>1, <2>2, RoomForOne DEF ChannelsInv
  <2>4. \A m \in Ns : /\ errs'[m] <= Cardinality(Left(m)') /\ errs'[m] \in Nat
                      /\ notes'[m] <= Cardinality(Reporting(m)')
    BY <1>2, <1>4, <1>7, <2>3 DEF ChannelsInv
  <2>5. errs' \in [Ns -> Nat] /\ notes' \in [Ns -> Nat]
    BY <1>7, <1>2 DEF ChannelsInv
  <2> QED BY <1>1, <1>5, <2>4, <2>5 DEF ChannelsInv
<1>8. CASE /\ notes' = [notes EXCEPT ![n] = @ + 1] /\ UNCHANGED errs
           /\ at[w] = "report" /\ at'[w] = "binding"
  <2>1. s \in Reporting(n)' \ Reporting(n)
    BY <1>2, <1>8, InnerMoves DEF Reporting
  <2>2. IsFiniteSet(Reporting(n)')
    BY <1>1, FiniteSets DEF PlacesInv, Reporting
  <2>3. notes[n] < Cardinality(Reporting(n)')
    BY <1>2, <1>3, <2>1, <2>2, RoomForOne DEF ChannelsInv
  <2>4. \A m \in Ns : /\ notes'[m] <= Cardinality(Reporting(m)') /\ notes'[m] \in Nat
                      /\ errs'[m] <= Cardinality(Left(m)')
    BY <1>2, <1>4, <1>8, <2>3 DEF ChannelsInv
  <2>5. errs' \in [Ns -> Nat] /\ notes' \in [Ns -> Nat]
    BY <1>8, <1>2 DEF ChannelsInv
  <2> QED BY <1>1, <1>5, <2>4, <2>5 DEF ChannelsInv
<1> QED BY <1>1, <1>6, <1>7, <1>8, InnerMoves

\* The same of the outer goroutines.
LEMMA CollectKeeps ==
    ASSUME PlacesInv, ChannelsInv, NEW n \in Ns, Collect(n)
    PROVE  PlacesInv' /\ ChannelsInv'
<1>1. /\ outer[n] = "waiting" /\ outer' = [outer EXCEPT ![n] = "done"]
      /\ UNCHANGED <<accounts, at, errs, notes>>
  BY DEF Collect
<1>2. PlacesInv'
  BY <1>1 DEF PlacesInv
<1>3. Collected' = Collected \cup {n} /\ n \notin Collected
  BY <1>1 DEF Collected, PlacesInv
<1>4. /\ Cardinality(Collected') = Cardinality(Collected) + 1
      /\ Cardinality(Collected) \in Nat
  BY <1>3, FiniteSets, FS_AddElement DEF Collected
<1>5. /\ outErrs' \in {outErrs, outErrs + 1} /\ outNotes' \in {outNotes, outNotes + 1}
  BY DEF Collect
<1>6. \A m \in Ns : Left(m)' = Left(m) /\ Reporting(m)' = Reporting(m)
  BY <1>1 DEF Left, Reporting
<1> QED BY <1>1, <1>2, <1>4, <1>5, <1>6 DEF ChannelsInv

\* Begin makes the channels anew; nobody has sent anything yet.
LEMMA BeginKeeps ==
    ASSUME Begin PROVE PlacesInv' /\ ChannelsInv'
<1>1. PlacesInv'
  BY DEF Begin, PlacesInv, Place, Worker, SaOf
<1>2. /\ errs' = [n \in Ns |-> 0] /\ notes' = [n \in Ns |-> 0]
      /\ outErrs' = 0 /\ outNotes' = 0
  BY DEF Begin, MakeChannels
<1>3. /\ \A n \in Ns : /\ Cardinality(Left(n)') \in Nat
                       /\ Cardinality(Reporting(n)') \in Nat
      /\ Cardinality(Collected') \in Nat
  BY <1>1, FiniteSets DEF PlacesInv, Left, Reporting, Collected
<1> QED BY <1>1, <1>2, <1>3 DEF ChannelsInv

LEMMA ChannelsNext == PlacesInv /\ ChannelsInv /\ [Next]_vars => PlacesInv' /\ ChannelsInv'
<1> SUFFICES ASSUME PlacesInv, ChannelsInv, [Next]_vars PROVE PlacesInv' /\ ChannelsInv'
  OBVIOUS
<1>1. CASE \/ UNCHANGED vars \/ Return
           \/ \E s \in Sa, r \in RoleName : Rebind(s, r)
           \/ \E r \in RoleName : ChangeRole(r)
           \/ \E n \in Ns : ChangeAccess(n) \/ Emptied(n)
  <2>1. UNCHANGED <<accounts, at, errs, notes, outer, outErrs, outNotes>>
    BY <1>1 DEF vars, Return, Rebind, ChangeRole, ChangeAccess, Emptied, Interferes
  <2> QED BY <2>1 DEF PlacesInv, ChannelsInv, Left, Reporting, Collected
<1> QED BY <1>1, InnerKeeps, CollectKeeps, BeginKeeps DEF Next, Call

LEMMA ChannelsInit == Init => PlacesInv /\ ChannelsInv
<1> SUFFICES ASSUME Init PROVE PlacesInv /\ ChannelsInv
  OBVIOUS
<1>1. PlacesInv
  BY DEF Init, PlacesInv, Place
<1>2. /\ \A n \in Ns : Cardinality(Left(n)) \in Nat /\ Cardinality(Reporting(n)) \in Nat
      /\ Cardinality(Collected) \in Nat
  BY <1>1, FiniteSets DEF PlacesInv, Left, Reporting, Collected
<1> QED BY <1>1, <1>2 DEF Init, ChannelsInv

\* However many service accounts and namespaces there are and whatever fails, no
\* goroutine of PushRbacToNamespace meets a full channel.
THEOREM PushNeverBlocks == Spec => []NobodyBlocks
BY ChannelsInit, ChannelsNext, RoomInv, PTL DEF Spec

-----------------------------------------------------------------------------
(* The copies                                                              *)

LEMMA CopyIs ==
    ASSUME NEW r \in RoleName, NEW m \in BOOLEAN
    PROVE  Copy[<<r, m>>] = rulesFilter(RulesOf[r], IF m THEN ManagedRules ELSE {})
BY DEF Copy

LEMMA CopyType ==
    ASSUME NEW r \in RoleName, NEW m \in BOOLEAN PROVE Copy[<<r, m>>] \in SUBSET Rule
<1>1. RulesOf[r] \in SUBSET Rule /\ (IF m THEN ManagedRules ELSE {}) \in SUBSET Rule
  BY ProjectOK
<1> QED BY <1>1, CopyIs, FilterType

\* FilterGrantsExactly and ProjectedGrants of one copy.
LEMMA CopyGrants ==
    ASSUME NEW r \in RoleName, NEW m \in BOOLEAN
    PROVE  /\ granted(Copy[<<r, m>>]) = Meant[<<r, m>>]
           /\ Copy[<<r, m>>] # {} => granted(Copy[<<r, m>>]) # {}
<1>1. RulesOf[r] \in SUBSET Rule /\ (IF m THEN ManagedRules ELSE {}) \in SUBSET Rule
  BY ProjectOK
<1>2. Meant[<<r, m>>] = meant(RulesOf[r], IF m THEN ManagedRules ELSE {})
  BY DEF Meant
<1> QED BY <1>1, <1>2, CopyIs, FilterGrantsExactly, ProjectedGrants

Copied == {x \in RoleName \X Sa \X SUBSET Rule :
              x[3] = Copy[<<x[1], TRUE>>] \/ x[3] = Copy[<<x[1], FALSE>>]}

\* Every projected Role is the copy of a Role there is, and not empty.
CopiesInv ==
    /\ source \subseteq RoleName /\ capped \in [Worker -> BOOLEAN]
    /\ roles \in [Ns -> [ObjectName -> Copied \cup {None}]]
    /\ \A n \in Ns, o \in ObjectName : roles[n][o] # None => roles[n][o][3] # {}

LEMMA CopiesInit == Init => CopiesInv
BY DEF Init, CopiesInv

\* CopyRole writes such a copy, or nothing.
LEMMA CopyRoleKeeps ==
    ASSUME CopiesInv, NEW w \in Worker, CopyRole(w)
    PROVE  /\ roles' \in [Ns -> [ObjectName -> Copied \cup {None}]]
           /\ \A n \in Ns, o \in ObjectName : roles'[n][o] # None => roles'[n][o][3] # {}
<1>1. CASE UNCHANGED roles
  BY <1>1 DEF CopiesInv
<1>2. CASE ~ UNCHANGED roles
  <2> DEFINE r == Here(w)[1]
             n == NsOf(w)
             o == NameOf[Here(w)]
             copy == <<r, SaOf(w), Copy[<<r, capped[w]>>]>>
  <2>1. /\ r \in source /\ Copy[<<r, capped[w]>>] # {}
        /\ roles' = [roles EXCEPT ![n][o] = copy]
    BY <1>2 DEF CopyRole, Note, Errs
  <2>2. n \in Ns /\ SaOf(w) \in Sa /\ r \in RoleName /\ capped[w] \in BOOLEAN
    BY <2>1 DEF CopiesInv, Worker, NsOf, SaOf
  <2>3. Here(w) \in RoleName \X Sa
    BY <2>2 DEF Here
  <2>4. o \in ObjectName /\ copy \in Copied
    <3>1. o \in ObjectName /\ copy \in RoleName \X Sa \X SUBSET Rule
      BY <2>2, <2>3, ProjectOK, CopyType
    <3>2. copy[3] = Copy[<<copy[1], TRUE>>] \/ copy[3] = Copy[<<copy[1], FALSE>>]
      BY <2>2
    <3> QED BY <3>1, <3>2 DEF Copied
  <2>5. roles' \in [Ns -> [ObjectName -> Copied \cup {None}]]
    BY <2>1, <2>2, <2>4 DEF CopiesInv
  <2>6. ASSUME NEW k \in Ns, NEW p \in ObjectName, roles'[k][p] # None
        PROVE  roles'[k][p][3] # {}
    <3>1. roles'[k][p] = copy \/ roles'[k][p] = roles[k][p]
      BY <2>1, <2>2, <2>4 DEF CopiesInv
    <3>2. copy[3] # {}
      BY <2>1
    <3> QED BY <2>6, <3>1, <3>2 DEF CopiesInv
  <2> QED BY <2>5, <2>6
<1> QED BY <1>1, <1>2

LEMMA CopiesNext == CopiesInv /\ [Next]_vars => CopiesInv'
<1> SUFFICES ASSUME CopiesInv, [Next]_vars PROVE CopiesInv'
  OBVIOUS
<1>1. CASE UNCHANGED vars \/ Return \/ \E n \in Ns : Collect(n)
  BY <1>1 DEF vars, Return, Collect, CopiesInv
<1>2. CASE Begin
  BY <1>2 DEF Begin, CopiesInv
<1>3. ASSUME NEW w \in Worker, Inner(w) PROVE CopiesInv'
  <2>1. source' = source /\ capped' \in [Worker -> BOOLEAN]
    BY <1>3 DEF Inner, ListRoles, ReadManaged, CopyRole, BindRole, Report, Leave, CopiesInv
  <2>2. CopyRole(w) \/ UNCHANGED roles
    BY <1>3 DEF Inner
  <2> QED BY <2>1, <2>2, CopyRoleKeeps DEF CopiesInv
<1>4. CASE \/ \E s \in Sa, r \in RoleName : Rebind(s, r)
           \/ \E r \in RoleName : ChangeRole(r)
           \/ \E n \in Ns : ChangeAccess(n)
  BY <1>4 DEF Rebind, ChangeRole, ChangeAccess, Interferes, CopiesInv
<1>5. ASSUME NEW n \in Ns, Emptied(n) PROVE CopiesInv'
  BY <1>5 DEF Emptied, Interferes, CopiesInv
<1> QED BY <1>1, <1>2, <1>3, <1>4, <1>5 DEF Next, Call

\* What the invariant says of the copies.
LEMMA CopiesInvGrants == CopiesInv => CopiesGrantExactly /\ CopiesGrantSomething
<1> SUFFICES ASSUME CopiesInv, NEW n \in Ns, NEW o \in ObjectName, roles[n][o] # None
             PROVE  /\ granted(roles[n][o][3]) \in {Meant[<<roles[n][o][1], TRUE>>],
                                                    Meant[<<roles[n][o][1], FALSE>>]}
                    /\ granted(roles[n][o][3]) # {}
  BY DEF CopiesGrantExactly, CopiesGrantSomething
<1> DEFINE r == roles[n][o][1]
<1>1. /\ r \in RoleName /\ roles[n][o][3] # {}
      /\ roles[n][o][3] = Copy[<<r, TRUE>>] \/ roles[n][o][3] = Copy[<<r, FALSE>>]
  <2>1. roles[n][o] \in Copied
    BY DEF CopiesInv
  <2> QED BY <2>1 DEF Copied, CopiesInv
<1> QED BY <1>1, CopyGrants

\* Whatever the goroutines, the administrators and failing calls do, a projected
\* Role grants exactly what it should.
THEOREM CopiesAreExact == Spec => []CopiesGrantExactly
BY CopiesInit, CopiesNext, CopiesInvGrants, PTL DEF Spec

\* ... and something.
THEOREM CopiesAreNotEmpty == Spec => []CopiesGrantSomething
BY CopiesInit, CopiesNext, CopiesInvGrants, PTL DEF Spec

-----------------------------------------------------------------------------
(* The steps of a goroutine, one by one                                    *)

Access == {"open", "unmanaged", "terminating", "closed"}

TypesInv ==
    /\ bound \in [Sa -> SUBSET RoleName] /\ access \in [Ns -> Access]
    /\ bindings \in [Ns -> SUBSET ObjectName]
    /\ list \in [Worker -> Seq(RoleName)] /\ i \in [Worker -> Nat \ {0}]
    /\ found \in [Worker -> SUBSET RoleName] /\ reported \in [Ns -> SUBSET RoleName]
    /\ lost \subseteq Worker /\ allowSubset \in BOOLEAN /\ calm \in BOOLEAN
    /\ phase \in {"resting", "pushing"} /\ spent \in [{"push", "edit", "fault"} -> Nat]

Typed == PlacesInv /\ ChannelsInv /\ CopiesInv /\ TypesInv /\ ListsInv

\* A Role list has every Role that is bound, once.
LEMMA EnumeratesAll ==
    ASSUME NEW S \in SUBSET RoleName, NEW l \in SetToSeqs(S)
    PROVE  /\ l \in Seq(RoleName) /\ {l[j] : j \in 1..Len(l)} = S
           /\ \A j, k \in 1..Len(l) : l[j] = l[k] => j = k
<1>1. IsFiniteSet(S) /\ Cardinality(S) \in Nat
  BY ProjectOK, FS_Subset, FS_CardinalityType
<1> DEFINE D == 1..Cardinality(S)
<1>2. l \in [D -> S] /\ \A j, k \in D : j # k => l[j] # l[k]
  BY DEF SetToSeqs
<1>3. l \in Seq(S) /\ Len(l) = Cardinality(S)
  BY <1>1, <1>2, SeqDef, LenProperties
<1>4. l \in Injection(D, S)
  BY <1>2 DEF Injection, IsInjective
<1>5. IsFiniteSet(D) /\ Cardinality(D) = Cardinality(S)
  BY <1>1, FS_Interval
<1>6. l \in Surjection(D, S)
  BY <1>1, <1>4, <1>5, FS_Injection
<1>7. {l[j] : j \in 1..Len(l)} = S
  BY <1>2, <1>3, <1>6 DEF Surjection
<1>8. l \in Seq(RoleName)
  BY <1>3, SeqMonotonic
<1> QED BY <1>2, <1>3, <1>7, <1>8

\* The Role a goroutine is at, and what it would copy of it.
Now(w) == list[w][i[w]]
Rules(w) == Copy[<<Now(w), capped[w]>>]
NameNow(w) == NameOf[<<Now(w), SaOf(w)>>]

\* A fault is counted.
Faulty == spent'["fault"] > 0

\* What a step of goroutine w leaves alone, and what it may only add to.
Frame(w) ==
    /\ \A v \in Worker \ {w} :
          /\ at'[v] = at[v] /\ list'[v] = list[v] /\ i'[v] = i[v]
          /\ capped'[v] = capped[v] /\ found'[v] = found[v]
    /\ UNCHANGED <<adminVars, outerVars, callVars, calm>>
    /\ spent' \in [{"push", "edit", "fault"} -> Nat] /\ spent'["fault"] >= spent["fault"]
    /\ at' \in [Worker -> Place] /\ list' \in [Worker -> Seq(RoleName)]
    /\ i' \in [Worker -> Nat \ {0}] /\ capped' \in [Worker -> BOOLEAN]
    /\ found' \in [Worker -> SUBSET RoleName]

Same(w) == list'[w] = list[w] /\ i'[w] = i[w] /\ capped'[w] = capped[w] /\ found'[w] = found[w]
Silent == UNCHANGED <<roles, bindings, errs, notes, reported>>

\* To the next Role, or out of the loop.
Onward(w, after) ==
    /\ list'[w] = list[w] /\ capped'[w] = capped[w]
    /\ \/ i[w] < Len(list[w]) /\ i'[w] = i[w] + 1 /\ at'[w] = at[w]
       \/ i[w] = Len(list[w]) /\ i'[w] = 1 /\ at'[w] = after

GotList(w) ==
    /\ at[w] = "list" /\ at'[w] = "managed" /\ list'[w] \in SetToSeqs(bound[SaOf(w)])
    /\ i'[w] = i[w] /\ found'[w] = found[w] /\ Silent /\ UNCHANGED lost

GotManaged(w) ==
    /\ at[w] = "managed" /\ at'[w] = (IF list[w] = <<>> THEN "bound" ELSE "role")
    /\ Readable(NsOf(w)) /\ capped'[w] = (access[NsOf(w)] # "unmanaged")
    /\ list'[w] = list[w] /\ i'[w] = i[w] /\ found'[w] = found[w] /\ Silent /\ UNCHANGED lost

Erred(w) ==
    /\ at'[w] = "error" /\ Same(w) /\ Silent /\ UNCHANGED lost
    /\ \/ at[w] = "list" /\ Faulty
       \/ at[w] = "managed" /\ (Faulty \/ (~allowSubset /\ ~Readable(NsOf(w))))
       \/ /\ at[w] = "role" /\ ~allowSubset
          /\ Faulty \/ Rules(w) = {} \/ ~Writable(NsOf(w))
       \/ at[w] = "binding" /\ (Faulty \/ (~allowSubset /\ ~Writable(NsOf(w))))

Dropped(w) ==
    /\ at'[w] = "done" /\ Same(w) /\ Silent /\ allowSubset /\ lost' = lost \cup {w}
    /\ \/ at[w] = "managed" /\ ~Readable(NsOf(w))
       \/ at[w] = "binding" /\ ~Writable(NsOf(w))

PassedOver(w) ==
    /\ at[w] = "role" /\ ~allowSubset /\ Now(w) \notin source /\ Onward(w, "report")
    /\ found'[w] = found[w] /\ Silent /\ UNCHANGED lost

Noted(w) ==
    /\ at[w] = "role" /\ allowSubset /\ Onward(w, "report")
    /\ found'[w] = found[w] \cup {Now(w)} /\ Silent /\ UNCHANGED lost
    /\ Now(w) \notin source \/ Rules(w) = {} \/ ~Writable(NsOf(w)) \/ Faulty

Wrote(w) ==
    /\ at[w] = "role" /\ Now(w) \in source /\ Rules(w) # {} /\ Writable(NsOf(w))
    /\ roles' = [roles EXCEPT ![NsOf(w)][NameNow(w)] = <<Now(w), SaOf(w), Rules(w)>>]
    /\ Onward(w, "report") /\ found'[w] = found[w]
    /\ UNCHANGED <<bindings, errs, notes, reported, lost>>

Sent(w) ==
    /\ at[w] = "report" /\ at'[w] = "binding" /\ Same(w)
    /\ reported' = [reported EXCEPT ![NsOf(w)] = @ \cup found[w]]
    /\ \/ found[w] = {} /\ UNCHANGED notes
       \/ found[w] # {} /\ notes' = [notes EXCEPT ![NsOf(w)] = @ + 1]
    /\ UNCHANGED <<roles, bindings, errs, lost>>

Known(w) ==
    /\ at[w] = "binding" /\ at'[w] = "bound" /\ NameNow(w) \in bindings[NsOf(w)]
    /\ Writable(NsOf(w)) /\ Same(w) /\ Silent /\ UNCHANGED lost

Attached(w) ==
    /\ at[w] = "binding" /\ Writable(NsOf(w)) /\ NameNow(w) \notin bindings[NsOf(w)]
    /\ bindings' = [bindings EXCEPT ![NsOf(w)] = @ \cup {NameNow(w)}]
    /\ Onward(w, "bound") /\ found'[w] = found[w]
    /\ UNCHANGED <<roles, errs, notes, reported, lost>>

Returned(w) ==
    /\ at[w] = "bound" /\ at'[w] = "done" /\ Same(w) /\ Silent /\ UNCHANGED lost

Failed(w) ==
    /\ at[w] = "error" /\ at'[w] = "done" /\ Same(w)
    /\ errs' = [errs EXCEPT ![NsOf(w)] = @ + 1]
    /\ UNCHANGED <<roles, bindings, notes, reported, lost>>

\* Counting a fault, or not.
LEMMA Counts ==
    ASSUME TypesInv
    PROVE  /\ Fault => /\ spent' \in [{"push", "edit", "fault"} -> Nat] /\ Faulty
                       /\ spent'["fault"] >= spent["fault"]
           /\ UNCHANGED spent => /\ spent' \in [{"push", "edit", "fault"} -> Nat]
                                 /\ spent'["fault"] >= spent["fault"]
BY DEF TypesInv, Fault, Spend, Faulty

LEMMA GoesTo ==
    ASSUME PlacesInv, NEW w \in Worker, NEW x \in Place, GoTo(w, x)
    PROVE  at'[w] = x /\ at' \in [Worker -> Place] /\ \A v \in Worker \ {w} : at'[v] = at[v]
BY DEF PlacesInv, GoTo

LEMMA Advances ==
    ASSUME Typed, NEW w \in Worker, NEW x \in Place, Advance(w, x), UNCHANGED <<list, capped>>,
           i[w] \in 1..Len(list[w])
    PROVE  /\ Onward(w, x) /\ at' \in [Worker -> Place] /\ i' \in [Worker -> Nat \ {0}]
           /\ \A v \in Worker \ {w} : at'[v] = at[v] /\ i'[v] = i[v]
<1>1. i \in [Worker -> Nat \ {0}] /\ Len(list[w]) \in Nat /\ at \in [Worker -> Place]
  BY LenProperties DEF Typed, TypesInv, PlacesInv
<1>2. CASE i[w] < Len(list[w])
  BY <1>1, <1>2 DEF Advance, Onward
<1>3. CASE ~(i[w] < Len(list[w]))
  <2>1. i' = [i EXCEPT ![w] = 1] /\ GoTo(w, x) /\ i[w] = Len(list[w])
    BY <1>1, <1>3 DEF Advance
  <2>2. i'[w] = 1 /\ i' \in [Worker -> Nat \ {0}] /\ \A v \in Worker \ {w} : i'[v] = i[v]
    BY <1>1, <2>1
  <2> QED BY <2>1, <2>2, GoesTo DEF Onward, Typed
<1> QED BY <1>2, <1>3

\* What is not given up is.
LEMMA Errors ==
    ASSUME Typed, NEW w \in Worker, NEW f \in BOOLEAN, Errs(w, f)
    PROVE  /\ at' \in [Worker -> Place] /\ \A v \in Worker \ {w} : at'[v] = at[v]
           /\ \/ at'[w] = "error" /\ UNCHANGED lost /\ ~(f /\ allowSubset)
              \/ at'[w] = "done" /\ lost' = lost \cup {w} /\ f /\ allowSubset
<1>1. CASE f /\ allowSubset
  BY <1>1, GoesTo DEF Errs, Typed, Place
<1>2. CASE ~(f /\ allowSubset)
  BY <1>2, GoesTo DEF Errs, Typed, Place
<1> QED BY <1>1, <1>2

\* Where the lists, the places in them and the rest of a goroutine stay.
LEMMA Stays ==
    ASSUME Typed
    PROVE  /\ list \in [Worker -> Seq(RoleName)] /\ i \in [Worker -> Nat \ {0}]
           /\ capped \in [Worker -> BOOLEAN] /\ found \in [Worker -> SUBSET RoleName]
BY DEF Typed, TypesInv, CopiesInv

LEMMA ListForms ==
    ASSUME Typed, NEW w \in Worker, Inner(w), ListRoles(w), UNCHANGED channelVars, UNCHANGED objectVars
    PROVE  Frame(w) /\ (GotList(w) \/ Erred(w))
<1>1. at[w] = "list" /\ UNCHANGED <<i, capped, found>>
  BY DEF ListRoles
<1>2. UNCHANGED <<adminVars, outerVars, callVars, calm>>
  BY DEF Inner
<1>3. SaOf(w) \in Sa
  BY DEF Worker, SaOf
<1>4. ASSUME NEW l \in SetToSeqs(bound[SaOf(w)]), list' = [list EXCEPT ![w] = l], GoTo(w, "managed"),
             UNCHANGED <<lost, spent>>
      PROVE  Frame(w) /\ GotList(w)
  <2>1. l \in Seq(RoleName)
    BY <1>3, EnumeratesAll DEF Typed, TypesInv
  <2>2. /\ list'[w] = l /\ list' \in [Worker -> Seq(RoleName)]
        /\ \A v \in Worker \ {w} : list'[v] = list[v]
    BY <1>4, <2>1, Stays
  <2>3. /\ at'[w] = "managed" /\ at' \in [Worker -> Place]
        /\ \A v \in Worker \ {w} : at'[v] = at[v]
    BY <1>4, GoesTo DEF Typed, Place
  <2> QED BY <1>1, <1>2, <1>4, <2>2, <2>3, Stays, Counts DEF Frame, GotList, Silent, Typed
<1>5. ASSUME Fault, Errs(w, FALSE), UNCHANGED list PROVE Frame(w) /\ Erred(w)
  <2>1. Faulty
    BY <1>5, Counts DEF Typed
  <2>2. /\ at'[w] = "error" /\ UNCHANGED lost /\ at' \in [Worker -> Place]
        /\ \A v \in Worker \ {w} : at'[v] = at[v]
    BY <1>5, Errors
  <2> QED BY <1>1, <1>2, <1>5, <2>1, <2>2, Stays, Counts DEF Frame, Erred, Same, Silent, Typed
<1> QED BY <1>4, <1>5 DEF ListRoles

LEMMA ManagedForms ==
    ASSUME Typed, NEW w \in Worker, Inner(w), ReadManaged(w), UNCHANGED channelVars, UNCHANGED objectVars
    PROVE  Frame(w) /\ (GotManaged(w) \/ Erred(w) \/ Dropped(w))
<1>1. at[w] = "managed" /\ UNCHANGED <<list, i, found>>
  BY DEF ReadManaged
<1>2. UNCHANGED <<adminVars, outerVars, callVars, calm>>
  BY DEF Inner
<1>3. ASSUME Readable(NsOf(w)), capped' = [capped EXCEPT ![w] = access[NsOf(w)] # "unmanaged"],
             GoTo(w, IF list[w] = <<>> THEN "bound" ELSE "role"), UNCHANGED <<lost, spent>>
      PROVE  Frame(w) /\ GotManaged(w)
  <2>1. /\ capped'[w] = (access[NsOf(w)] # "unmanaged") /\ capped' \in [Worker -> BOOLEAN]
        /\ \A v \in Worker \ {w} : capped'[v] = capped[v]
    BY <1>3, Stays
  <2>2. /\ at'[w] = (IF list[w] = <<>> THEN "bound" ELSE "role") /\ at' \in [Worker -> Place]
        /\ \A v \in Worker \ {w} : at'[v] = at[v]
    BY <1>3, GoesTo DEF Typed, Place
  <2> QED BY <1>1, <1>2, <1>3, <2>1, <2>2, Stays, Counts DEF Frame, GotManaged, Silent, Typed
<1>4. ASSUME NEW f \in BOOLEAN, Errs(w, f), UNCHANGED capped,
             \/ f /\ ~Readable(NsOf(w)) /\ UNCHANGED spent
             \/ ~f /\ Fault
      PROVE  Frame(w) /\ (Erred(w) \/ Dropped(w))
  <2>1. ~f => Faulty
    BY <1>4, Counts DEF Typed
  <2>2. Frame(w) /\ Same(w) /\ Silent
    BY <1>1, <1>2, <1>4, Stays, Counts, Errors DEF Frame, Same, Silent, Typed
  <2>3. CASE at'[w] = "error" /\ UNCHANGED lost /\ ~(f /\ allowSubset)
    BY <1>1, <1>4, <2>1, <2>2, <2>3 DEF Erred
  <2>4. CASE at'[w] = "done" /\ lost' = lost \cup {w} /\ f /\ allowSubset
    BY <1>1, <1>4, <2>2, <2>4 DEF Dropped
  <2> QED BY <1>4, <2>3, <2>4, Errors
<1> QED BY <1>3, <1>4 DEF ReadManaged

\* The Role in hand is one, and so is the name made of it.
LEMMA InHand ==
    ASSUME Typed, NEW w \in Worker, at[w] \in {"role", "report", "binding"}
    PROVE  /\ Here(w)[1] = Now(w) /\ NameOf[Here(w)] = NameNow(w)
           /\ Now(w) \in RoleName /\ NameNow(w) \in ObjectName /\ i[w] \in 1..Len(list[w])
           /\ Now(w) \in Listed(w) /\ NsOf(w) \in Ns /\ SaOf(w) \in Sa
<1>1. i[w] \in 1..Len(list[w]) /\ NsOf(w) \in Ns /\ SaOf(w) \in Sa
  BY DEF Typed, ListsInv, Worker, NsOf, SaOf
<1>2. list[w] \in Seq(RoleName)
  BY Stays
<1>3. Now(w) \in RoleName
  BY <1>1, <1>2, ElementOfSeq DEF Now
<1>4. <<Now(w), SaOf(w)>> \in RoleName \X Sa
  BY <1>1, <1>3
<1>5. Here(w) = <<Now(w), SaOf(w)>>
  BY DEF Here, Now
<1>6. NameOf[<<Now(w), SaOf(w)>>] \in ObjectName
  BY <1>4, ProjectOK
<1>7. Now(w) \in Listed(w)
  BY <1>1 DEF Now, Listed
<1> QED BY <1>1, <1>3, <1>5, <1>6, <1>7 DEF NameNow

LEMMA CopyForms ==
    ASSUME Typed, NEW w \in Worker, Inner(w), CopyRole(w), UNCHANGED channelVars, UNCHANGED bindings
    PROVE  Frame(w) /\ (Erred(w) \/ PassedOver(w) \/ Noted(w) \/ Wrote(w))
<1>1. at[w] = "role" /\ UNCHANGED <<list, capped>>
  BY DEF CopyRole
<1>2. UNCHANGED <<adminVars, outerVars, callVars, calm>>
  BY DEF Inner
<1>3. Here(w)[1] = Now(w) /\ NameOf[Here(w)] = NameNow(w) /\ Now(w) \in RoleName
  BY <1>1, InHand
<1>4. i[w] \in 1..Len(list[w]) /\ "report" \in Place
  BY <1>1, InHand DEF Place
<1>5. ASSUME Advance(w, "report"), UNCHANGED found, Fault \/ UNCHANGED spent
      PROVE  Frame(w) /\ Onward(w, "report") /\ found'[w] = found[w]
  BY <1>1, <1>2, <1>4, <1>5, Advances, Stays, Counts DEF Frame, Typed
<1>6. ASSUME Note(w), allowSubset, Fault \/ UNCHANGED spent,
             Now(w) \notin source \/ Rules(w) = {} \/ ~Writable(NsOf(w)) \/ Fault
      PROVE  Frame(w) /\ Noted(w)
  <2>1. found' = [found EXCEPT ![w] = @ \cup {Now(w)}]
    BY <1>3, <1>6 DEF Note
  <2>2. /\ found'[w] = found[w] \cup {Now(w)} /\ found' \in [Worker -> SUBSET RoleName]
        /\ \A v \in Worker \ {w} : found'[v] = found[v]
    BY <1>3, <2>1, Stays
  <2>3. Advance(w, "report") /\ UNCHANGED <<lost, roles>>
    BY <1>6 DEF Note
  <2>4. Frame(w) /\ Onward(w, "report")
    BY <1>1, <1>2, <1>4, <1>6, <2>2, <2>3, Advances, Stays, Counts DEF Frame, Typed
  <2>5. Now(w) \notin source \/ Rules(w) = {} \/ ~Writable(NsOf(w)) \/ Faulty
    BY <1>6, Counts DEF Typed
  <2> QED BY <1>1, <1>6, <2>2, <2>3, <2>4, <2>5 DEF Noted, Silent
<1>7. ASSUME Errs(w, FALSE), UNCHANGED <<i, found, roles>>, Fault \/ UNCHANGED spent, ~allowSubset,
             Rules(w) = {} \/ ~Writable(NsOf(w)) \/ Fault
      PROVE  Frame(w) /\ Erred(w)
  <2>1. /\ at'[w] = "error" /\ UNCHANGED lost /\ at' \in [Worker -> Place]
        /\ \A v \in Worker \ {w} : at'[v] = at[v]
    BY <1>7, Errors
  <2>2. Frame(w)
    BY <1>1, <1>2, <1>7, <2>1, Stays, Counts DEF Frame, Typed
  <2>3. Rules(w) = {} \/ ~Writable(NsOf(w)) \/ Faulty
    BY <1>7, Counts DEF Typed
  <2> QED BY <1>1, <1>7, <2>1, <2>2, <2>3 DEF Erred, Same, Silent
<1>8. CASE Now(w) \notin source /\ UNCHANGED spent /\ (IF allowSubset THEN Note(w) ELSE Advance(w, "report") /\ UNCHANGED <<found, lost, roles>>)
  <2>1. CASE allowSubset
    BY <1>6, <1>8, <2>1
  <2>2. CASE ~allowSubset
    BY <1>1, <1>5, <1>8, <2>2 DEF PassedOver, Silent
  <2> QED BY <2>1, <2>2
<1>9. CASE /\ (Rules(w) = {} \/ ~Writable(NsOf(w))) /\ UNCHANGED spent
           /\ (IF allowSubset THEN Note(w) ELSE Errs(w, FALSE) /\ UNCHANGED <<i, found, roles>>)
  BY <1>6, <1>7, <1>9
<1>10. CASE /\ Fault
            /\ (IF allowSubset THEN Note(w) ELSE Errs(w, FALSE) /\ UNCHANGED <<i, found, roles>>)
  BY <1>6, <1>7, <1>10
<1>11. CASE /\ Now(w) \in source /\ Rules(w) # {} /\ Writable(NsOf(w))
            /\ roles' = [roles EXCEPT ![NsOf(w)][NameNow(w)] = <<Now(w), SaOf(w), Rules(w)>>]
            /\ Advance(w, "report") /\ UNCHANGED <<found, lost, spent>>
  BY <1>1, <1>5, <1>11 DEF Wrote
<1>12. Copy[<<Here(w)[1], capped[w]>>] = Rules(w)
  BY <1>3 DEF Rules
<1> QED BY <1>3, <1>8, <1>9, <1>10, <1>11, <1>12 DEF CopyRole

LEMMA BindForms ==
    ASSUME Typed, NEW w \in Worker, Inner(w), BindRole(w), UNCHANGED channelVars, UNCHANGED roles
    PROVE  Frame(w) /\ (Erred(w) \/ Dropped(w) \/ Known(w) \/ Attached(w))
<1>1. at[w] = "binding" /\ UNCHANGED <<list, capped, found>>
  BY DEF BindRole
<1>2. UNCHANGED <<adminVars, outerVars, callVars, calm>>
  BY DEF Inner
<1>3. NameOf[Here(w)] = NameNow(w) /\ i[w] \in 1..Len(list[w]) /\ "bound" \in Place
  BY <1>1, InHand DEF Place
<1>4. CASE /\ Writable(NsOf(w)) /\ NameNow(w) \in bindings[NsOf(w)]
           /\ GoTo(w, "bound") /\ UNCHANGED <<i, lost, bindings, spent>>
  <2>1. /\ at'[w] = "bound" /\ at' \in [Worker -> Place]
        /\ \A v \in Worker \ {w} : at'[v] = at[v]
    BY <1>3, <1>4, GoesTo DEF Typed
  <2> QED BY <1>1, <1>2, <1>4, <2>1, Stays, Counts DEF Frame, Known, Same, Silent, Typed
<1>5. CASE /\ Writable(NsOf(w)) /\ NameNow(w) \notin bindings[NsOf(w)]
           /\ bindings' = [bindings EXCEPT ![NsOf(w)] = @ \cup {NameNow(w)}]
           /\ Advance(w, "bound") /\ UNCHANGED <<lost, spent>>
  <2>1. Frame(w) /\ Onward(w, "bound")
    BY <1>1, <1>2, <1>3, <1>5, Advances, Stays, Counts DEF Frame, Typed
  <2> QED BY <1>1, <1>5, <2>1 DEF Attached
<1>6. ASSUME NEW f \in BOOLEAN, Errs(w, f), UNCHANGED <<i, bindings>>,
             \/ f /\ ~Writable(NsOf(w)) /\ UNCHANGED spent
             \/ ~f /\ Fault
      PROVE  Frame(w) /\ (Erred(w) \/ Dropped(w))
  <2>1. ~f => Faulty
    BY <1>6, Counts DEF Typed
  <2>2. Frame(w) /\ Same(w) /\ Silent
    BY <1>1, <1>2, <1>6, Stays, Counts, Errors DEF Frame, Same, Silent, Typed
  <2>3. CASE at'[w] = "error" /\ UNCHANGED lost /\ ~(f /\ allowSubset)
    BY <1>1, <1>6, <2>1, <2>2, <2>3 DEF Erred
  <2>4. CASE at'[w] = "done" /\ lost' = lost \cup {w} /\ f /\ allowSubset
    BY <1>1, <1>6, <2>2, <2>4 DEF Dropped
  <2> QED BY <1>6, <2>3, <2>4, Errors
<1> QED BY <1>3, <1>4, <1>5, <1>6 DEF BindRole

LEMMA ChannelForms ==
    ASSUME Typed, NEW w \in Worker, Inner(w), Report(w) \/ Leave(w), UNCHANGED objectVars, UNCHANGED spent
    PROVE  Frame(w) /\ (Sent(w) \/ Returned(w) \/ Failed(w))
<1>1. UNCHANGED <<list, i, capped, found, lost>>
  BY DEF Report, Leave
<1>2. UNCHANGED <<adminVars, outerVars, callVars, calm>>
  BY DEF Inner
<1>3. NsOf(w) \in Ns /\ reported \in [Ns -> SUBSET RoleName] /\ {"binding", "done"} \subseteq Place
  BY DEF Typed, TypesInv, Worker, NsOf, Place
<1>4. ASSUME NEW x \in Place, GoTo(w, x) PROVE Frame(w) /\ Same(w) /\ at'[w] = x
  BY <1>1, <1>2, <1>4, GoesTo, Stays, Counts DEF Frame, Same, Typed
<1>5. CASE Report(w)
  <2>1. at[w] = "report" /\ Frame(w) /\ Same(w) /\ at'[w] = "binding"
    BY <1>3, <1>4, <1>5 DEF Report
  <2>2. CASE found[w] = {}
    <3>1. [reported EXCEPT ![NsOf(w)] = @ \cup found[w]] = reported
      BY <1>3, <2>2
    <3> QED BY <1>1, <1>5, <2>1, <2>2, <3>1 DEF Report, Sent
  <2>3. CASE found[w] # {}
    BY <1>1, <1>5, <2>1, <2>3 DEF Report, Sent
  <2> QED BY <2>2, <2>3
<1>6. CASE Leave(w)
  <2>1. Frame(w) /\ Same(w) /\ at'[w] = "done" /\ UNCHANGED <<notes, reported, lost>>
    BY <1>3, <1>4, <1>6 DEF Leave
  <2> QED BY <1>6, <2>1 DEF Leave, Returned, Failed, Silent
<1> QED BY <1>5, <1>6

\* Every step of a goroutine is one of twelve.
Step(w) ==
    \/ GotList(w) \/ GotManaged(w) \/ Erred(w) \/ Dropped(w) \/ PassedOver(w) \/ Noted(w)
    \/ Wrote(w) \/ Sent(w) \/ Known(w) \/ Attached(w) \/ Returned(w) \/ Failed(w)

LEMMA StepForms ==
    ASSUME Typed, NEW w \in Worker, Inner(w) PROVE Frame(w) /\ Step(w)
<1>1. CASE ListRoles(w) /\ UNCHANGED objectVars /\ UNCHANGED channelVars
  BY <1>1, ListForms DEF Step
<1>2. CASE ReadManaged(w) /\ UNCHANGED objectVars /\ UNCHANGED channelVars
  BY <1>2, ManagedForms DEF Step
<1>3. CASE CopyRole(w) /\ UNCHANGED bindings /\ UNCHANGED channelVars
  BY <1>3, CopyForms DEF Step
<1>4. CASE BindRole(w) /\ UNCHANGED roles /\ UNCHANGED channelVars
  BY <1>4, BindForms DEF Step
<1>5. CASE (Report(w) \/ Leave(w)) /\ UNCHANGED objectVars /\ UNCHANGED spent
  BY <1>5, ChannelForms DEF Step
<1> QED BY <1>1, <1>2, <1>3, <1>4, <1>5 DEF Inner

-----------------------------------------------------------------------------
(* Types and lists                                                         *)

\* ListsInv of one goroutine.
Looping(w) ==
    /\ list[w] \in Seq(RoleName) /\ i[w] \in Nat \ {0}
    /\ \A j, k \in 1..Len(list[w]) : list[w][j] = list[w][k] => j = k
    /\ at[w] \in {"role", "report", "binding"} => i[w] \in 1..Len(list[w])
    /\ at[w] \in {"list", "managed", "report"} => i[w] = 1
    /\ calm /\ at[w] \in {"managed", "role", "report", "binding"} => Listed(w) = bound[SaOf(w)]

\* The goroutine that moves.
LEMMA StepLoops ==
    ASSUME Typed, NEW w \in Worker, Frame(w), Step(w) PROVE Looping(w)'
<1>1. Looping(w) /\ Len(list[w]) \in Nat
  BY LenProperties DEF Typed, ListsInv, Looping
<1>2. UNCHANGED <<bound, calm>> /\ SaOf(w) \in Sa
  BY DEF Frame, Worker, SaOf
<1>3. CASE GotList(w)
  <2>1. bound[SaOf(w)] \in SUBSET RoleName
    BY <1>2 DEF Typed, TypesInv
  <2>2. PICK l \in SetToSeqs(bound[SaOf(w)]) : l = list'[w]
    BY <1>3 DEF GotList
  <2>3. /\ l \in Seq(RoleName) /\ {l[j] : j \in 1..Len(l)} = bound[SaOf(w)]
        /\ \A j, k \in 1..Len(l) : l[j] = l[k] => j = k
    BY <2>1, EnumeratesAll
  <2>4. Listed(w)' = bound[SaOf(w)]
    BY <2>2, <2>3 DEF Listed
  <2> QED BY <1>1, <1>2, <1>3, <2>2, <2>3, <2>4 DEF GotList, Looping
<1>4. list'[w] = list[w] => Listed(w)' = Listed(w)
  BY DEF Listed
<1>5. CASE GotManaged(w)
  <2>1. list[w] # <<>> => Len(list[w]) \in Nat \ {0}
    BY <1>1, EmptySeq DEF Looping
  <2> QED BY <1>1, <1>2, <1>4, <1>5, <2>1 DEF GotManaged, Looping
<1>6. CASE Erred(w) \/ Dropped(w) \/ Sent(w) \/ Known(w) \/ Returned(w) \/ Failed(w)
  BY <1>1, <1>2, <1>4, <1>6 DEF Erred, Dropped, Sent, Known, Returned, Failed, Same, Looping
<1>7. ASSUME NEW x \in {"report", "bound"}, Onward(w, x), at[w] \in {"role", "binding"}
      PROVE  Looping(w)'
  BY <1>1, <1>2, <1>4, <1>7 DEF Onward, Looping
<1>8. CASE PassedOver(w) \/ Noted(w) \/ Wrote(w) \/ Attached(w)
  BY <1>7, <1>8 DEF PassedOver, Noted, Wrote, Attached
<1> QED BY <1>3, <1>5, <1>6, <1>8 DEF Step

\* What a step sends, binds and loses.
LEMMA StepTypes ==
    ASSUME Typed, NEW w \in Worker, Frame(w), Step(w) PROVE TypesInv'
<1>1. NsOf(w) \in Ns /\ SaOf(w) \in Sa
  BY DEF Worker, NsOf, SaOf
<1>2. bindings' \in [Ns -> SUBSET ObjectName]
  <2>1. CASE Attached(w)
    <3>1. NameNow(w) \in ObjectName
      BY <2>1, InHand DEF Attached
    <3> QED BY <1>1, <2>1, <3>1 DEF Attached, Typed, TypesInv
  <2>2. CASE ~Attached(w)
    <3>1. UNCHANGED bindings
      BY <2>2 DEF Step, GotList, GotManaged, Erred, Dropped, PassedOver, Noted, Wrote, Sent, Known,
                  Returned, Failed, Silent
    <3> QED BY <3>1 DEF Typed, TypesInv
  <2> QED BY <2>1, <2>2
<1>3. reported' \in [Ns -> SUBSET RoleName]
  <2>1. UNCHANGED reported \/ reported' = [reported EXCEPT ![NsOf(w)] = @ \cup found[w]]
    BY DEF Step, GotList, GotManaged, Erred, Dropped, PassedOver, Noted, Wrote, Sent, Known,
           Attached, Returned, Failed, Silent
  <2> QED BY <1>1, <2>1 DEF Typed, TypesInv
<1>4. lost' \subseteq Worker
  <2>1. lost' \in {lost, lost \cup {w}}
    BY DEF Step, GotList, GotManaged, Erred, Dropped, PassedOver, Noted, Wrote, Sent, Known,
           Attached, Returned, Failed
  <2> QED BY <2>1 DEF Typed, TypesInv
<1> QED BY <1>2, <1>3, <1>4 DEF Frame, Typed, TypesInv

LEMMA TypedNext == Typed /\ [Next]_vars => Typed'
<1> SUFFICES ASSUME Typed, [Next]_vars PROVE TypesInv' /\ ListsInv'
  BY ChannelsNext, CopiesNext DEF Typed
<1>1. ASSUME NEW w \in Worker, Inner(w) PROVE TypesInv' /\ ListsInv'
  <2>1. Frame(w) /\ Step(w)
    BY <1>1, StepForms
  <2>2. ASSUME NEW v \in Worker \ {w} PROVE Looping(v)'
    <3>1. Looping(v)
      BY DEF Typed, ListsInv, Looping
    <3>2. /\ at'[v] = at[v] /\ list'[v] = list[v] /\ i'[v] = i[v] /\ UNCHANGED <<calm, bound>>
      BY <2>1 DEF Frame
    <3>3. Listed(v)' = Listed(v)
      BY <3>2 DEF Listed
    <3> QED BY <3>1, <3>2, <3>3 DEF Looping
  <2>3. \A v \in Worker : Looping(v)'
    BY <2>1, <2>2, StepLoops
  <2>4. ListsInv'
    BY <2>3 DEF ListsInv, Looping
  <2> QED BY <2>1, <2>4, StepTypes
<1>2. ASSUME Begin PROVE TypesInv' /\ ListsInv'
  <2>1. TypesInv'
    <3>1. spent' \in [{"push", "edit", "fault"} -> Nat]
      BY <1>2 DEF Begin, Spend, Typed, TypesInv
    <3>2. list' \in [Worker -> Seq(RoleName)]
      BY <1>2, EmptySeq DEF Begin
    <3>3. reported' \in [Ns -> SUBSET RoleName]
      BY <1>2 DEF Begin, MakeChannels
    <3> QED BY <1>2, <3>1, <3>2, <3>3 DEF Begin, Typed, TypesInv
  <2>2. ASSUME NEW w \in Worker PROVE Looping(w)'
    <3>1. list'[w] = <<>> /\ i'[w] = 1 /\ at'[w] \in {"list", "done"}
      BY <1>2 DEF Begin
    <3> QED BY <3>1, EmptySeq DEF Looping
  <2>3. ListsInv'
    BY <2>2 DEF ListsInv, Looping
  <2> QED BY <2>1, <2>3
<1>3. ASSUME UNCHANGED <<adminVars, bindings, innerVars, channelVars, allowSubset, calm, spent>>,
             phase' \in {"resting", "pushing"}
      PROVE  TypesInv' /\ ListsInv'
  <2>1. TypesInv'
    BY <1>3 DEF Typed, TypesInv
  <2>2. UNCHANGED <<list, i, at, calm, bound>>
    BY <1>3
  <2>3. \A w \in Worker : Listed(w)' = Listed(w)
    BY <2>2 DEF Listed
  <2> QED BY <2>1, <2>2, <2>3 DEF Typed, ListsInv
<1>4. ASSUME Interferes, bound' \in [Sa -> SUBSET RoleName], access' \in [Ns -> Access],
             bindings' \in [Ns -> SUBSET ObjectName]
      PROVE  TypesInv' /\ ListsInv'
  <2>1. spent' \in [{"push", "edit", "fault"} -> Nat] /\ calm' = FALSE
    BY <1>4 DEF Interferes, Spend, Typed, TypesInv
  <2>2. UNCHANGED <<innerVars, channelVars, callVars>>
    BY <1>4 DEF Interferes
  <2> QED BY <1>4, <2>1, <2>2 DEF Typed, TypesInv, ListsInv
<1>5. ASSUME NEW s \in Sa, NEW r \in RoleName, Rebind(s, r) PROVE TypesInv' /\ ListsInv'
  BY <1>4, <1>5 DEF Rebind, Typed, TypesInv
<1>6. ASSUME NEW r \in RoleName, ChangeRole(r) PROVE TypesInv' /\ ListsInv'
  BY <1>4, <1>6 DEF ChangeRole, Typed, TypesInv
<1>7. ASSUME NEW n \in Ns, ChangeAccess(n) \/ Emptied(n) PROVE TypesInv' /\ ListsInv'
  BY <1>4, <1>7 DEF ChangeAccess, Emptied, Typed, TypesInv, Access
<1>8. CASE Return \/ (\E n \in Ns : Collect(n)) \/ UNCHANGED vars
  BY <1>3, <1>8 DEF Return, Collect, vars, Typed, TypesInv
<1> QED BY <1>1, <1>2, <1>5, <1>6, <1>7, <1>8 DEF Next, Call

LEMMA TypedInit == Init => Typed
<1> SUFFICES ASSUME Init PROVE TypesInv /\ ListsInv
  BY ChannelsInit, CopiesInit DEF Typed
<1>1. TypesInv
  <2>1. bound \in [Sa -> SUBSET RoleName] /\ access \in [Ns -> Access]
    BY ProjectOK DEF Init, Access
  <2>2. list \in [Worker -> Seq(RoleName)]
    BY EmptySeq DEF Init
  <2>3. bindings \in [Ns -> SUBSET ObjectName] /\ reported \in [Ns -> SUBSET RoleName]
    BY DEF Init
  <2>4. found \in [Worker -> SUBSET RoleName] /\ i \in [Worker -> Nat \ {0}]
    BY DEF Init
  <2>5. spent \in [{"push", "edit", "fault"} -> Nat]
    BY DEF Init
  <2>6. lost \subseteq Worker /\ allowSubset \in BOOLEAN /\ calm \in BOOLEAN /\ phase \in {"resting", "pushing"}
    BY DEF Init
  <2> QED BY <2>1, <2>2, <2>3, <2>4, <2>5, <2>6 DEF TypesInv
<1>2. ListsInv
  BY EmptySeq DEF Init, ListsInv
<1> QED BY <1>1, <1>2

-----------------------------------------------------------------------------
(* The way back through the channels                                       *)

\* What a step of goroutine w does to the namespaces: it adds to its own, and
\* leaves the others.
Adds(w) ==
    /\ \A n \in Ns \ {NsOf(w)} :
          /\ roles'[n] = roles[n] /\ bindings'[n] = bindings[n]
          /\ errs'[n] = errs[n] /\ notes'[n] = notes[n] /\ reported'[n] = reported[n]
    /\ \A n \in Ns : /\ errs'[n] = 0 => errs[n] = 0
                     /\ reported[n] \subseteq reported'[n] /\ bindings[n] \subseteq bindings'[n]
    /\ lost \subseteq lost' /\ lost' \subseteq lost \cup {w}

LEMMA StepAdds ==
    ASSUME Typed, NEW w \in Worker, Frame(w), Step(w) PROVE Adds(w)
<1>1. /\ errs \in [Ns -> Nat] /\ notes \in [Ns -> Nat] /\ reported \in [Ns -> SUBSET RoleName]
      /\ bindings \in [Ns -> SUBSET ObjectName] /\ NsOf(w) \in Ns
      /\ roles \in [Ns -> [ObjectName -> Copied \cup {None}]]
  BY DEF Typed, TypesInv, ChannelsInv, CopiesInv, Worker, NsOf
<1>2. CASE Silent
  <2>1. lost' \in {lost, lost \cup {w}}
    BY <1>2 DEF Step, GotList, GotManaged, Erred, Dropped, PassedOver, Noted, Wrote, Sent, Known,
                Attached, Returned, Failed
  <2> QED BY <1>2, <2>1 DEF Silent, Adds
<1>3. CASE Wrote(w)
  <2>1. \A n \in Ns \ {NsOf(w)} : roles'[n] = roles[n]
    BY <1>1, <1>3 DEF Wrote
  <2> QED BY <1>3, <2>1 DEF Wrote, Adds
<1>4. CASE Sent(w)
  BY <1>1, <1>4 DEF Sent, Adds
<1>5. CASE Attached(w)
  BY <1>1, <1>5 DEF Attached, Adds
<1>6. CASE Failed(w)
  BY <1>1, <1>6 DEF Failed, Adds
<1> QED
  BY <1>2, <1>3, <1>4, <1>5, <1>6
  DEF Step, GotList, GotManaged, Erred, Dropped, PassedOver, Noted, Known, Returned

\* The other steps: a call begins, ends or collects a namespace's answer; someone
\* interferes.
Standstill ==
    UNCHANGED <<adminVars, objectVars, innerVars, channelVars, allowSubset, accounts, before,
                calm, spent>>

LEMMA Kinds ==
    ASSUME Typed, [Next]_vars
    PROVE  \/ \E w \in Worker : Frame(w) /\ Step(w) /\ Adds(w)
           \/ Begin
           \/ Interferes
           \/ Standstill /\ (Return \/ (\E n \in Ns : Collect(n)) \/ UNCHANGED vars)
<1>1. ASSUME NEW w \in Worker, Inner(w) PROVE Frame(w) /\ Step(w) /\ Adds(w)
  BY <1>1, StepForms, StepAdds
<1>2. Return \/ (\E n \in Ns : Collect(n)) \/ UNCHANGED vars => Standstill
  BY DEF Return, Collect, vars, Standstill
<1> QED
  BY <1>1, <1>2 DEF Next, Call, Rebind, ChangeRole, ChangeAccess, Emptied

\* Other goroutines and what they have done.
LEMMA CompletedBefore ==
    ASSUME NEW w \in Worker, NEW v \in Worker \ {w}, Frame(w), Adds(w)
    PROVE  /\ Completed(v)' => Completed(v)
           /\ at'[v] = at[v] /\ list'[v] = list[v] /\ i'[v] = i[v]
           /\ capped'[v] = capped[v] /\ found'[v] = found[v]
           /\ reported[NsOf(v)] \subseteq reported'[NsOf(v)]
<1>1. NsOf(v) \in Ns
  BY DEF Worker, NsOf
<1> QED BY <1>1 DEF Frame, Adds, Completed

LEMMA CappedNext == Typed /\ CappedInv /\ [Next]_vars => CappedInv'
<1> SUFFICES ASSUME Typed, CappedInv, [Next]_vars, NEW v \in Worker, calm',
                    at'[v] \in {"role", "report", "binding"}
             PROVE  Readable(NsOf(v))' /\ capped'[v] = (access'[NsOf(v)] # "unmanaged")
  BY DEF CappedInv
<1>1. ASSUME NEW w \in Worker, Frame(w), Step(w), Adds(w)
      PROVE  Readable(NsOf(v))' /\ capped'[v] = (access'[NsOf(v)] # "unmanaged")
  <2>1. UNCHANGED <<access, calm>>
    BY <1>1 DEF Frame
  <2>2. CASE v # w
    <3>1. at'[v] = at[v] /\ capped'[v] = capped[v]
      BY <1>1, <2>2, CompletedBefore
    <3> QED BY <2>1, <3>1 DEF CappedInv, Readable
  <2>3. CASE v = w /\ GotManaged(w)
    BY <2>1, <2>3 DEF GotManaged, Readable
  <2>4. CASE v = w /\ ~GotManaged(w)
    <3>1. capped'[w] = capped[w] /\ at[w] \in {"role", "report", "binding"}
      BY <1>1, <2>4 DEF Step, GotList, Erred, Dropped, PassedOver, Noted, Wrote, Sent, Known,
                        Attached, Returned, Failed, Onward, Same
    <3> QED BY <2>1, <2>4, <3>1 DEF CappedInv, Readable
  <2> QED BY <2>2, <2>3, <2>4
<1>2. CASE Begin
  BY <1>2 DEF Begin
<1>3. CASE Interferes
  BY <1>3 DEF Interferes
<1>4. CASE Standstill
  BY <1>4 DEF Standstill, CappedInv, Readable
<1> QED BY <1>1, <1>2, <1>3, <1>4, Kinds

\* ReportedInv of one goroutine.
Reports(w) ==
    /\ at[w] \in {"list", "managed"} => found[w] = {}
    /\ at[w] \in {"binding", "bound"} \/ Completed(w) => found[w] \subseteq reported[NsOf(w)]
    /\ ~allowSubset => found[w] = {}

LEMMA StepReports ==
    ASSUME Typed, NEW w \in Worker, Frame(w), Step(w), Adds(w), Reports(w) PROVE Reports(w)'
<1>1. /\ UNCHANGED <<allowSubset, accounts>> /\ NsOf(w) \in Ns /\ errs \in [Ns -> Nat]
      /\ reported \in [Ns -> SUBSET RoleName] /\ reported[NsOf(w)] \subseteq reported'[NsOf(w)]
  BY DEF Frame, Adds, Typed, TypesInv, ChannelsInv, Worker, NsOf
<1>2. CASE GotList(w) \/ GotManaged(w) \/ Erred(w) \/ PassedOver(w) \/ Noted(w) \/ Wrote(w)
  BY <1>1, <1>2 DEF GotList, GotManaged, Erred, PassedOver, Noted, Wrote, Onward, Same, Reports, Completed
<1>3. CASE Dropped(w)
  BY <1>1, <1>3 DEF Dropped, Same, Reports, Completed
<1>4. CASE Sent(w)
  <2>1. found[w] \subseteq reported'[NsOf(w)]
    BY <1>1, <1>4 DEF Sent
  <2> QED BY <1>1, <1>4, <2>1 DEF Sent, Same, Reports, Completed
<1>5. CASE Known(w) \/ Attached(w) \/ Returned(w)
  BY <1>1, <1>5 DEF Known, Attached, Returned, Onward, Same, Reports, Completed
<1>6. CASE Failed(w)
  <2>1. errs'[NsOf(w)] # 0
    BY <1>1, <1>6 DEF Failed
  <2> QED BY <1>1, <1>6, <2>1 DEF Failed, Same, Reports, Completed
<1> QED BY <1>2, <1>3, <1>4, <1>5, <1>6 DEF Step

LEMMA ReportedNext == Typed /\ ReportedInv /\ [Next]_vars => ReportedInv'
<1> SUFFICES ASSUME Typed, [Next]_vars, ReportedInv, NEW v \in Worker PROVE Reports(v)'
  BY DEF ReportedInv, Reports
<1>0. \A u \in Worker : Reports(u)
  BY DEF ReportedInv, Reports
<1>1. ASSUME NEW w \in Worker, Frame(w), Step(w), Adds(w) PROVE Reports(v)'
  <2>1. CASE v # w
    BY <1>0, <1>1, <2>1, CompletedBefore DEF Reports, Frame
  <2> QED BY <1>0, <1>1, <2>1, StepReports
<1>2. CASE Begin
  BY <1>2 DEF Begin, Reports
<1>3. CASE Interferes \/ Standstill
  BY <1>0, <1>3 DEF Interferes, Standstill, Reports, Completed
<1> QED BY <1>1, <1>2, <1>3, Kinds

\* What a call still owes to the answer, for one namespace.
Collects(n) ==
    /\ reported[n] # {} => notes[n] > 0
    /\ outer[n] = "done" =>
          /\ InnerDone(n)
          /\ ~allowSubset /\ errs[n] > 0 => outErrs > 0
          /\ allowSubset => \A r \in reported[n] : <<n, r>> \in outReported

\* A namespace whose goroutines are still at work has not been collected.
LEMMA StepCollects ==
    ASSUME Typed, OuterInv, NEW w \in Worker, Frame(w), Step(w), Adds(w), NEW n \in Ns
    PROVE  Collects(n)'
<1>0. Collects(n)
  BY DEF OuterInv, Collects
<1>1. UNCHANGED <<outer, allowSubset, accounts, outErrs, outReported>>
  BY DEF Frame
<1>2. CASE n # NsOf(w)
  <2>1. reported'[n] = reported[n] /\ notes'[n] = notes[n] /\ errs'[n] = errs[n]
    BY <1>2 DEF Adds
  <2>2. ASSUME NEW s \in accounts PROVE at'[<<n, s>>] = at[<<n, s>>]
    <3>1. <<n, s>> \in Worker \ {w}
      BY <1>2, <2>2 DEF Typed, PlacesInv, Worker, NsOf
    <3> QED BY <3>1 DEF Frame
  <2>3. InnerDone(n) => InnerDone(n)'
    BY <1>1, <2>2 DEF InnerDone
  <2> QED BY <1>0, <1>1, <2>1, <2>3 DEF Collects
<1>3. CASE n = NsOf(w)
  <2>1. at[w] # "done" /\ w = <<n, SaOf(w)>>
    BY <1>3 DEF Step, GotList, GotManaged, Erred, Dropped, PassedOver, Noted, Wrote, Sent, Known,
                Attached, Returned, Failed, Worker, NsOf, SaOf
  <2>2. SaOf(w) \in accounts
    BY <2>1 DEF Typed, PlacesInv
  <2>3. outer[n] # "done"
    BY <1>0, <2>1, <2>2 DEF Collects, InnerDone
  <2>4. notes[n] \in Nat /\ notes \in [Ns -> Nat] /\ reported \in [Ns -> SUBSET RoleName]
    BY DEF Typed, TypesInv, ChannelsInv
  <2>5. CASE Sent(w)
    BY <1>0, <1>1, <1>3, <2>3, <2>4, <2>5 DEF Sent, Collects
  <2>6. CASE ~Sent(w)
    <3>1. UNCHANGED <<notes, reported>>
      BY <2>6 DEF Step, GotList, GotManaged, Erred, Dropped, PassedOver, Noted, Wrote, Known,
                  Attached, Returned, Failed, Silent
    <3> QED BY <1>0, <1>1, <2>3, <3>1 DEF Collects
  <2> QED BY <2>5, <2>6
<1> QED BY <1>2, <1>3

\* A namespace's answer is passed on as a whole.
LEMMA CollectCollects ==
    ASSUME Typed, OuterInv, NEW m \in Ns, Collect(m), Standstill, NEW n \in Ns
    PROVE  Collects(n)'
<1>0. Collects(n) /\ outErrs \in Nat /\ outer \in [Ns -> {"waiting", "done"}]
  BY DEF OuterInv, Collects, Typed, ChannelsInv, PlacesInv
<1>1. /\ UNCHANGED <<errs, notes, reported, at, accounts, allowSubset>>
      /\ outer' = [outer EXCEPT ![m] = "done"]
  BY DEF Collect, Standstill
<1>2. InnerDone(n)' = InnerDone(n)
  BY <1>1 DEF InnerDone
<1>3. outErrs' \in {outErrs, outErrs + 1} /\ outReported \subseteq outReported'
  BY DEF Collect
<1>4. CASE n # m
  <2>1. outer'[n] = outer[n]
    BY <1>0, <1>1, <1>4
  <2> QED BY <1>0, <1>1, <1>2, <1>3, <2>1 DEF Collects
<1>5. CASE n = m
  <2>1. InnerDone(n)
    BY <1>5 DEF Collect
  <2>2. ~allowSubset /\ errs[n] > 0 => outErrs' > 0
    BY <1>0, <1>5 DEF Collect
  <2>3. ASSUME allowSubset, NEW r \in reported[n] PROVE <<n, r>> \in outReported'
    <3>1. notes[n] > 0 /\ notes[n] \in Nat
      BY <1>0, <2>3 DEF Collects, Typed, ChannelsInv
    <3>2. outReported' = outReported \cup {<<n, x>> : x \in reported[n]}
      BY <1>5, <2>3, <3>1 DEF Collect
    <3> QED BY <2>3, <3>2
  <2> QED BY <1>0, <1>1, <1>2, <2>1, <2>2, <2>3 DEF Collects
<1> QED BY <1>4, <1>5

LEMMA OuterNext == Typed /\ OuterInv /\ [Next]_vars => OuterInv'
<1> SUFFICES ASSUME Typed, OuterInv, [Next]_vars PROVE OuterInv'
  OBVIOUS
<1> DEFINE Lossless == ~allowSubset => lost = {}
           Answered == result # None =>
              /\ result = [failed |-> outErrs > 0, unprojected |-> outReported]
              /\ \A n \in Ns : outer[n] = "done"
<1>0. Lossless /\ Answered /\ (\A n \in Ns : Collects(n))
  BY DEF OuterInv, Collects
<1>1. SUFFICES Lossless' /\ Answered' /\ (\A n \in Ns : Collects(n)')
  BY DEF OuterInv, Collects
<1>2. ASSUME NEW w \in Worker, Frame(w), Step(w), Adds(w)
      PROVE  Lossless' /\ Answered' /\ (\A n \in Ns : Collects(n)')
  <2>1. UNCHANGED <<result, outErrs, outReported, outer, allowSubset>>
    BY <1>2 DEF Frame
  <2>2. allowSubset \/ lost' = lost
    BY <1>2 DEF Step, GotList, GotManaged, Erred, Dropped, PassedOver, Noted, Wrote, Sent, Known,
                Attached, Returned, Failed
  <2> QED BY <1>0, <1>2, <2>1, <2>2, StepCollects
<1>3. CASE Begin
  <2>1. /\ lost' = {} /\ result' = None /\ reported' = [n \in Ns |-> {}]
        /\ outer' = [n \in Ns |-> "waiting"]
    BY <1>3 DEF Begin, MakeChannels
  <2> QED BY <2>1 DEF Collects
<1>4. CASE Interferes \/ UNCHANGED vars
  <2>1. UNCHANGED <<innerVars, channelVars, outerVars, callVars>>
    BY <1>4 DEF Interferes, vars
  <2> QED BY <1>0, <2>1 DEF Collects, InnerDone
<1>5. CASE Return
  <2>1. /\ UNCHANGED <<innerVars, channelVars, outerVars, allowSubset, accounts>>
        /\ result' = [failed |-> outErrs > 0, unprojected |-> outReported]
        /\ \A n \in Ns : outer[n] = "done"
    BY <1>5 DEF Return
  <2> QED BY <1>0, <2>1 DEF Collects, InnerDone
<1>6. ASSUME NEW m \in Ns, Collect(m), Standstill
      PROVE  Lossless' /\ Answered' /\ (\A n \in Ns : Collects(n)')
  <2>1. outer[m] = "waiting" /\ UNCHANGED <<result, lost, allowSubset>>
    BY <1>6 DEF Collect
  <2>2. result = None
    BY <1>0, <2>1
  <2> QED BY <1>0, <1>6, <2>1, <2>2, CollectCollects
<1> QED BY <1>2, <1>3, <1>4, <1>5, <1>6, Kinds

-----------------------------------------------------------------------------
(* What CreateRole is through with                                         *)

Forward(w) == PassedOver(w) \/ Noted(w) \/ Wrote(w)

\* The cases of Handled, one by one.
LEMMA HandledCases ==
    ASSUME NEW w \in Worker
    PROVE  /\ at[w] = "role" => Handled(w) = Passed(w)
           /\ at[w] \in {"report", "binding", "bound"} \/ Completed(w) =>
                 Handled(w) = bound[SaOf(w)]
           /\ at[w] \in {"list", "managed", "error"} \/ (at[w] = "done" /\ ~Completed(w)) =>
                 Handled(w) = {}
BY DEF Handled, Completed

LEMMA HandledCasesNext ==
    ASSUME NEW w \in Worker
    PROVE  /\ at'[w] = "role" => Handled(w)' = Passed(w)'
           /\ at'[w] \in {"report", "binding", "bound"} \/ Completed(w)' =>
                 Handled(w)' = bound'[SaOf(w)]
           /\ at'[w] \in {"list", "managed", "error"} \/ (at'[w] = "done" /\ ~Completed(w)') =>
                 Handled(w)' = {}
BY DEF Handled, Completed

\* A loop that has passed its last Role has passed them all.
LEMMA PassesAll ==
    ASSUME Typed, NEW w \in Worker, i[w] \in 1..Len(list[w])
    PROVE  /\ i[w] = 1 => Passed(w) = {}
           /\ i[w] = Len(list[w]) => Listed(w) = Passed(w) \cup {Now(w)}
           /\ list'[w] = list[w] /\ i'[w] = i[w] + 1 => Passed(w)' = Passed(w) \cup {Now(w)}
           /\ list'[w] = list[w] /\ i'[w] = i[w] => Passed(w)' = Passed(w)
<1>1. i[w] \in Nat /\ Len(list[w]) \in Nat /\ i[w] >= 1
  BY Stays, LenProperties
<1>2. i[w] = 1 => Passed(w) = {}
  BY <1>1 DEF Passed
<1>3. 1..i[w] = (1..(i[w] - 1)) \cup {i[w]}
  BY <1>1
<1>4. i[w] = Len(list[w]) => Listed(w) = Passed(w) \cup {Now(w)}
  BY <1>3 DEF Listed, Passed, Now
<1>5. list'[w] = list[w] /\ i'[w] = i[w] + 1 => Passed(w)' = Passed(w) \cup {Now(w)}
  <2> SUFFICES ASSUME list'[w] = list[w], i'[w] = i[w] + 1
               PROVE  Passed(w)' = Passed(w) \cup {Now(w)}
    OBVIOUS
  <2>1. Passed(w)' = {list[w][j] : j \in 1..i[w]}
    <3>1. i'[w] - 1 = i[w]
      BY <1>1
    <3> QED BY <3>1 DEF Passed
  <2> QED BY <1>3, <2>1 DEF Passed, Now
<1>6. list'[w] = list[w] /\ i'[w] = i[w] => Passed(w)' = Passed(w)
  BY DEF Passed
<1> QED BY <1>2, <1>4, <1>5, <1>6

\* A step of w takes CreateRole past the Role in hand, or nowhere.
LEMMA HandledGrows ==
    ASSUME Typed, NEW w \in Worker, Frame(w), Step(w), Adds(w), calm
    PROVE  /\ ~Forward(w) => Handled(w)' \subseteq Handled(w)
           /\ Forward(w) => Handled(w)' \subseteq Handled(w) \cup {Now(w)}
<1>1. UNCHANGED <<bound, accounts>> /\ NsOf(w) \in Ns
  BY DEF Frame, Worker, NsOf
<1>2. CASE GotList(w) \/ Erred(w)
  <2>1. Handled(w)' = {}
    BY <1>2, HandledCasesNext DEF GotList, Erred
  <2> QED BY <1>2, <2>1 DEF GotList, Erred
<1>3. CASE GotManaged(w)
  <2>1. list'[w] = list[w] /\ i'[w] = 1 /\ Listed(w) = bound[SaOf(w)]
    BY <1>3 DEF GotManaged, Typed, ListsInv
  <2>2. CASE list[w] = <<>>
    <3>1. Listed(w) = {}
      BY <2>2, EmptySeq DEF Listed
    <3> QED BY <1>1, <1>3, <2>1, <2>2, <3>1, HandledCasesNext DEF GotManaged
  <2>3. CASE list[w] # <<>>
    <3>1. Passed(w)' = {}
      BY <2>1 DEF Passed
    <3> QED BY <1>3, <2>3, <3>1, HandledCasesNext DEF GotManaged
  <2> QED BY <2>2, <2>3
<1>4. CASE Dropped(w) \/ Failed(w)
  <2>1. at'[w] = "done" /\ ~Completed(w)'
    <3>1. CASE Dropped(w)
      BY <3>1 DEF Dropped, Completed
    <3>2. CASE Failed(w)
      BY <1>1, <3>2 DEF Failed, Completed, Typed, ChannelsInv
    <3> QED BY <1>4, <3>1, <3>2
  <2>2. Handled(w)' = {}
    BY <2>1, HandledCasesNext
  <2> QED BY <2>2, <1>4
<1>5. CASE Forward(w)
  <2>1. at[w] = "role" /\ Onward(w, "report") /\ Handled(w) = Passed(w)
    BY <1>5, HandledCases DEF Forward, PassedOver, Noted, Wrote
  <2>2. i[w] \in 1..Len(list[w]) /\ Listed(w) = bound[SaOf(w)]
    BY <2>1 DEF Typed, ListsInv
  <2>3. CASE i[w] < Len(list[w]) /\ i'[w] = i[w] + 1 /\ at'[w] = at[w]
    BY <1>5, <2>1, <2>2, <2>3, HandledCasesNext, PassesAll DEF Onward
  <2>4. CASE i[w] = Len(list[w]) /\ i'[w] = 1 /\ at'[w] = "report"
    BY <1>1, <1>5, <2>1, <2>2, <2>4, HandledCasesNext, PassesAll
  <2> QED BY <2>1, <2>3, <2>4 DEF Onward
<1>6. CASE Sent(w) \/ Known(w) \/ Attached(w) \/ Returned(w)
  <2>1. Handled(w) = bound[SaOf(w)]
    BY <1>6, HandledCases DEF Sent, Known, Attached, Returned
  <2>2. at'[w] \in {"binding", "bound", "done"}
    BY <1>6 DEF Sent, Known, Attached, Returned, Onward
  <2>3. Handled(w)' = bound[SaOf(w)] \/ Handled(w)' = {}
    BY <1>1, <2>2, HandledCasesNext
  <2>4. ~Forward(w)
    BY <1>6 DEF Forward, PassedOver, Noted, Wrote, Sent, Known, Attached, Returned
  <2> QED BY <2>1, <2>3, <2>4
<1> QED BY <1>2, <1>3, <1>4, <1>5, <1>6 DEF Step, Forward

\* The others are where they were.
LEMMA HandledBefore ==
    ASSUME NEW w \in Worker, NEW v \in Worker \ {w}, Frame(w), Adds(w), Typed
    PROVE  Handled(v)' \subseteq Handled(v)
<1>1. /\ at'[v] = at[v] /\ list'[v] = list[v] /\ i'[v] = i[v] /\ UNCHANGED bound
      /\ Completed(v)' => Completed(v)
  BY CompletedBefore DEF Frame
<1>2. Passed(v)' = Passed(v)
  BY <1>1 DEF Passed
<1>3. at[v] \in Place
  BY DEF Typed, PlacesInv
<1>4. CASE at[v] = "role"
  BY <1>1, <1>2, <1>4, HandledCases, HandledCasesNext
<1>5. CASE at[v] \in {"report", "binding", "bound"}
  BY <1>1, <1>5, HandledCases, HandledCasesNext
<1>6. CASE at[v] \in {"list", "managed", "error"}
  BY <1>1, <1>6, HandledCases, HandledCasesNext
<1>7. CASE at[v] = "done"
  BY <1>1, <1>7, HandledCases, HandledCasesNext
<1> QED BY <1>3, <1>4, <1>5, <1>6, <1>7 DEF Place

\* A projected Role stays, or is overwritten with the one in hand.
LEMMA RolesStep ==
    ASSUME Typed, NEW w \in Worker, Step(w), NEW n \in Ns, NEW o \in ObjectName
    PROVE  \/ roles'[n][o] = roles[n][o]
           \/ /\ Wrote(w) /\ n = NsOf(w) /\ o = NameNow(w)
              /\ roles'[n][o] = <<Now(w), SaOf(w), Rules(w)>>
              /\ roles'[n][o] # None
<1>1. CASE Wrote(w)
  <2>1. /\ Now(w) \in RoleName /\ NameNow(w) \in ObjectName /\ NsOf(w) \in Ns /\ SaOf(w) \in Sa
    BY <1>1, InHand DEF Wrote
  <2>2. capped[w] \in BOOLEAN
    BY Stays
  <2>3. Rules(w) \in SUBSET Rule
    BY <2>1, <2>2, CopyType DEF Rules
  <2>4. <<Now(w), SaOf(w), Rules(w)>> # None
    BY <2>1, <2>3, ProjectOK
  <2>5. roles \in [Ns -> [ObjectName -> Copied \cup {None}]]
    BY DEF Typed, CopiesInv
  <2>6. roles' = [roles EXCEPT ![NsOf(w)][NameNow(w)] = <<Now(w), SaOf(w), Rules(w)>>]
    BY <1>1 DEF Wrote
  <2>7. roles'[NsOf(w)][NameNow(w)] = <<Now(w), SaOf(w), Rules(w)>>
    BY <2>1, <2>5, <2>6
  <2>8. n # NsOf(w) \/ o # NameNow(w) => roles'[n][o] = roles[n][o]
    BY <2>1, <2>5, <2>6
  <2> QED BY <1>1, <2>4, <2>7, <2>8
<1>2. CASE ~Wrote(w)
  BY <1>2 DEF Step, GotList, GotManaged, Erred, Dropped, PassedOver, Noted, Sent, Known,
              Attached, Returned, Failed, Silent
<1> QED BY <1>1, <1>2

\* The Roles handled are Roles.
LEMMA HandledType ==
    ASSUME Typed, NEW w \in Worker, NEW r \in Handled(w)
    PROVE  r \in RoleName /\ NsOf(w) \in Ns /\ SaOf(w) \in Sa /\ NameOf[<<r, SaOf(w)>>] \in ObjectName
<1>1. NsOf(w) \in Ns /\ SaOf(w) \in Sa
  BY DEF Worker, NsOf, SaOf
<1>2. at[w] \in Place
  BY DEF Typed, PlacesInv
<1>3. CASE at[w] = "role"
  <2>1. PICK j \in 1..(i[w] - 1) : r = list[w][j]
    BY <1>3, HandledCases DEF Passed
  <2>2. i[w] \in 1..Len(list[w]) /\ list[w] \in Seq(RoleName) /\ i[w] \in Nat /\ Len(list[w]) \in Nat
    BY <1>3, Stays, LenProperties DEF Typed, ListsInv
  <2>3. j \in 1..Len(list[w])
    BY <2>2
  <2>4. r \in RoleName
    BY <2>1, <2>2, <2>3, ElementOfSeq
  <2> QED BY <1>1, <2>4, ProjectOK
<1>4. CASE at[w] # "role"
  <2>1. r \in bound[SaOf(w)]
    BY <1>2, <1>4, HandledCases DEF Place
  <2>2. r \in RoleName
    BY <1>1, <2>1 DEF Typed, TypesInv
  <2> QED BY <1>1, <2>2, ProjectOK
<1> QED BY <1>3, <1>4

\* Standing still changes nothing here.
LEMMA HandledStill ==
    ASSUME Standstill, NEW w \in Worker
    PROVE  /\ Handled(w)' = Handled(w) /\ Completed(w)' = Completed(w)
           /\ \A r \in RoleName : Projected(w, r)' = Projected(w, r)
<1>1. Completed(w)' = Completed(w) /\ Passed(w)' = Passed(w)
  BY DEF Standstill, Completed, Passed
<1> QED BY <1>1 DEF Standstill, Handled, Projected

\* A call begins with nothing handled.
LEMMA HandledNothing ==
    ASSUME Begin, NEW w \in Worker PROVE Handled(w)' = {}
<1>1. at'[w] = "list" \/ (at'[w] = "done" /\ ~Completed(w)')
  BY DEF Begin, Completed
<1> QED BY <1>1, HandledCasesNext

LEMMA NotedNext == Typed /\ NotedInv /\ [Next]_vars => NotedInv'
<1> SUFFICES ASSUME Typed, NotedInv, [Next]_vars, calm', allowSubset',
                    NEW v \in Worker, NEW r \in Handled(v)'
             PROVE  Projected(v, r)' # None \/ r \in found'[v]
  BY DEF NotedInv
<1>1. ASSUME NEW w \in Worker, Frame(w), Step(w), Adds(w)
      PROVE  Projected(v, r)' # None \/ r \in found'[v]
  <2>1. calm /\ allowSubset
    BY <1>1 DEF Frame
  <2>2. \A q \in Handled(v) : Projected(v, q) # None \/ q \in found[v]
    BY <2>1 DEF NotedInv
  <2>3. \A q \in Handled(v) : Projected(v, q) # None => Projected(v, q)' # None
    BY <1>1, HandledType, RolesStep DEF Projected
  <2>4. CASE v # w
    <3>1. r \in Handled(v) /\ found'[v] = found[v]
      BY <1>1, <2>4, HandledBefore, CompletedBefore
    <3> QED BY <2>2, <2>3, <3>1
  <2>5. CASE v = w
    <3>1. found[w] \subseteq found'[w]
      BY <1>1 DEF Step, GotList, GotManaged, Erred, Dropped, PassedOver, Noted, Wrote, Sent, Known,
                  Attached, Returned, Failed, Same
    <3>2. CASE r \in Handled(w)
      BY <2>2, <2>3, <2>5, <3>1, <3>2
    <3>3. CASE r \notin Handled(w)
      <4>1. Forward(w) /\ r = Now(w)
        BY <1>1, <2>1, <2>5, <3>3, HandledGrows
      <4>2. CASE Noted(w)
        BY <2>5, <4>1, <4>2 DEF Noted
      <4>3. CASE Wrote(w)
        <5>1. NameNow(w) \in ObjectName /\ NsOf(w) \in Ns /\ SaOf(w) \in Sa
          BY <4>3, InHand DEF Wrote
        <5>2. roles' = [roles EXCEPT ![NsOf(w)][NameNow(w)] = <<Now(w), SaOf(w), Rules(w)>>]
          BY <4>3 DEF Wrote
        <5>3. roles'[NsOf(w)][NameNow(w)] = <<Now(w), SaOf(w), Rules(w)>>
          BY <5>1, <5>2 DEF Typed, CopiesInv
        <5>4. <<Now(w), SaOf(w), Rules(w)>> # None
          <6>1. Now(w) \in RoleName /\ capped[w] \in BOOLEAN
            BY <4>3, InHand, Stays DEF Wrote
          <6>2. Rules(w) \in SUBSET Rule
            BY <6>1, CopyType DEF Rules
          <6> QED BY <5>1, <6>1, <6>2, ProjectOK
        <5> QED BY <2>5, <4>1, <5>3, <5>4 DEF Projected, NameNow
      <4> QED BY <2>1, <4>1, <4>2, <4>3 DEF Forward, PassedOver
    <3> QED BY <3>2, <3>3
  <2> QED BY <2>4, <2>5
<1>2. CASE Begin
  BY <1>2, HandledNothing
<1>3. CASE Interferes
  BY <1>3 DEF Interferes
<1>4. CASE Standstill
  <2>1. r \in Handled(v) /\ UNCHANGED <<calm, allowSubset, found>>
    BY <1>4, HandledStill DEF Standstill
  <2>2. r \in RoleName
    BY <2>1, HandledType
  <2> QED BY <1>4, <2>1, <2>2, HandledStill DEF NotedInv
<1> QED BY <1>1, <1>2, <1>3, <1>4, Kinds

\* A goroutine writes one name, and no other has the same.
LEMMA CopiedNext ==
    ASSUME NamesApart, Typed, CappedInv, CopiedInv, [Next]_vars PROVE CopiedInv'
<1> SUFFICES ASSUME calm', ~allowSubset', NEW v \in Worker, NEW r \in Handled(v)' \cap source'
             PROVE  Projected(v, r)' = <<r, SaOf(v), Copy[<<r, access'[NsOf(v)] = "open">>]>>
  BY DEF CopiedInv
<1>1. ASSUME NEW w \in Worker, Frame(w), Step(w), Adds(w)
      PROVE  Projected(v, r)' = <<r, SaOf(v), Copy[<<r, access'[NsOf(v)] = "open">>]>>
  <2>1. calm /\ ~allowSubset /\ UNCHANGED <<access, source>>
    BY <1>1 DEF Frame
  <2>2. r \in Handled(v) \/ (v = w /\ Forward(w) /\ r = Now(w))
    BY <1>1, <2>1, HandledBefore, HandledGrows
  <2>3. /\ r \in RoleName /\ SaOf(v) \in Sa /\ NsOf(v) \in Ns
        /\ NameOf[<<r, SaOf(v)>>] \in ObjectName
    <3>1. CASE r \in Handled(v)
      BY <3>1, HandledType
    <3>2. CASE v = w /\ Forward(w) /\ r = Now(w)
      BY <3>2, InHand DEF Forward, PassedOver, Noted, Wrote, NameNow
    <3> QED BY <2>2, <3>1, <3>2
  <2>4. CASE Wrote(w) /\ NsOf(v) = NsOf(w) /\ NameOf[<<r, SaOf(v)>>] = NameNow(w)
    <3>1. Now(w) \in RoleName /\ SaOf(w) \in Sa /\ at[w] = "role" /\ NsOf(w) \in Ns
      BY <2>4, InHand DEF Wrote
    <3>2. <<r, SaOf(v)>> = <<Now(w), SaOf(w)>>
      <4>1. <<r, SaOf(v)>> \in RoleName \X Sa /\ <<Now(w), SaOf(w)>> \in RoleName \X Sa
        BY <2>3, <3>1
      <4> QED BY <2>4, <4>1 DEF NamesApart, NameNow
    <3>3. capped[w] = (access[NsOf(w)] = "open")
      <4>1. capped[w] = (access[NsOf(w)] # "unmanaged")
        BY <2>1, <3>1 DEF CappedInv
      <4>2. access[NsOf(w)] \in {"open", "unmanaged"}
        BY <2>4 DEF Wrote, Writable
      <4>3. CASE access[NsOf(w)] = "open"
        BY <4>1, <4>3
      <4>4. CASE access[NsOf(w)] = "unmanaged"
        BY <4>1, <4>4
      <4> QED BY <4>2, <4>3, <4>4
    <3>4. roles'[NsOf(w)][NameNow(w)] = <<Now(w), SaOf(w), Rules(w)>>
      <4>1. roles' = [roles EXCEPT ![NsOf(w)][NameNow(w)] = <<Now(w), SaOf(w), Rules(w)>>]
        BY <2>4 DEF Wrote
      <4> QED BY <2>3, <2>4, <3>1, <4>1 DEF Typed, CopiesInv
    <3> QED BY <2>1, <2>4, <3>2, <3>3, <3>4 DEF Projected, Rules
  <2>5. CASE ~(Wrote(w) /\ NsOf(v) = NsOf(w) /\ NameOf[<<r, SaOf(v)>>] = NameNow(w))
    <3>1. Projected(v, r)' = Projected(v, r)
      BY <1>1, <2>3, <2>5, RolesStep DEF Projected
    <3>2. r \in Handled(v)
      BY <2>1, <2>2, <2>5 DEF Forward, PassedOver, Noted, NameNow
    <3> QED BY <2>1, <3>1, <3>2 DEF CopiedInv
  <2> QED BY <2>4, <2>5
<1>2. CASE Begin
  BY <1>2, HandledNothing
<1>3. CASE Interferes
  BY <1>3 DEF Interferes
<1>4. CASE Standstill
  <2>1. r \in Handled(v) /\ UNCHANGED <<calm, allowSubset, source, access>>
    BY <1>4, HandledStill DEF Standstill
  <2>2. r \in RoleName
    BY <2>1, HandledType
  <2> QED BY <1>4, <2>1, <2>2, HandledStill DEF CopiedInv
<1> QED BY <1>1, <1>2, <1>3, <1>4, Kinds

-----------------------------------------------------------------------------
(* What CreateRoleBinding is through with                                  *)

\* One RoleBinding at a time, for one Role and one account.
LEMMA BoundStep ==
    ASSUME NamesApart, Typed, NEW w \in Worker, Frame(w), Step(w), Adds(w), NEW v \in Worker
    PROVE  /\ Attached(w) /\ v = w => Bound(v)' = Bound(v) \cup {Now(w)}
           /\ ~(Attached(w) /\ v = w) => Bound(v)' = Bound(v)
<1>1. NsOf(v) \in Ns /\ SaOf(v) \in Sa /\ v = <<NsOf(v), SaOf(v)>>
  BY DEF Worker, NsOf, SaOf
<1>2. NsOf(w) \in Ns /\ SaOf(w) \in Sa /\ w = <<NsOf(w), SaOf(w)>>
  BY DEF Worker, NsOf, SaOf
<1>3. bindings \in [Ns -> SUBSET ObjectName]
  BY DEF Typed, TypesInv
<1>4. CASE Attached(w) /\ NsOf(v) = NsOf(w)
  <2>1. Now(w) \in RoleName
    BY <1>4, InHand DEF Attached
  <2>2. bindings'[NsOf(v)] = bindings[NsOf(v)] \cup {NameNow(w)}
    BY <1>1, <1>3, <1>4 DEF Attached
  <2>3. \A r \in RoleName : NameOf[<<r, SaOf(v)>>] = NameNow(w) <=> r = Now(w) /\ SaOf(v) = SaOf(w)
    <3>1. \A r \in RoleName : <<r, SaOf(v)>> \in RoleName \X Sa
      BY <1>1
    <3>2. <<Now(w), SaOf(w)>> \in RoleName \X Sa
      BY <1>2, <2>1
    <3>3. \A r \in RoleName : NameOf[<<r, SaOf(v)>>] = NameNow(w) => <<r, SaOf(v)>> = <<Now(w), SaOf(w)>>
      BY <3>1, <3>2 DEF NamesApart, NameNow
    <3> QED BY <3>3 DEF NameNow
  <2>4. CASE v = w
    <3>1. Bound(v)' = Bound(v) \cup {Now(w)}
      BY <2>1, <2>2, <2>3, <2>4 DEF Bound
    <3> QED BY <1>4, <2>4, <3>1
  <2>5. CASE v # w
    <3>1. SaOf(v) # SaOf(w)
      BY <1>1, <1>2, <1>4, <2>5
    <3> QED BY <2>2, <2>3, <2>5, <3>1 DEF Bound
  <2> QED BY <2>4, <2>5
<1>5. CASE ~(Attached(w) /\ NsOf(v) = NsOf(w))
  <2>1. bindings'[NsOf(v)] = bindings[NsOf(v)]
    <3>1. CASE ~Attached(w)
      BY <3>1 DEF Step, GotList, GotManaged, Erred, Dropped, PassedOver, Noted, Wrote, Sent, Known,
                  Returned, Failed, Silent
    <3>2. CASE NsOf(v) # NsOf(w)
      BY <1>1, <3>2 DEF Adds
    <3> QED BY <1>5, <3>1, <3>2
  <2>2. Bound(v)' = Bound(v)
    BY <2>1 DEF Bound
  <2> QED BY <1>5, <2>2
<1> QED BY <1>4, <1>5

\* BoundInv of one goroutine.
Binds(w) ==
    /\ at[w] \in {"list", "managed", "role", "report"} => Bound(w) = {}
    /\ at[w] = "binding" => Bound(w) = Passed(w)
    /\ at[w] = "bound" \/ Completed(w) => bound[SaOf(w)] \subseteq Bound(w)

\* A loop that has found none of its RoleBindings finds none.
LEMMA StepBinds ==
    ASSUME NamesApart, Typed, NEW w \in Worker, Frame(w), Step(w), Adds(w), calm, Binds(w)
    PROVE  Binds(w)'
<1>1. UNCHANGED <<bound, accounts>> /\ NsOf(w) \in Ns
  BY DEF Frame, Worker, NsOf
<1>2. ~Attached(w) => Bound(w)' = Bound(w)
  BY BoundStep
<1>3. at[w] # "bound" /\ at[w] # "done" /\ at'[w] # "bound" /\ at'[w] # "done" =>
         ~Completed(w)'
  BY DEF Completed
<1>4. CASE GotList(w) \/ Erred(w)
  <2>1. ~Attached(w)
    BY <1>4 DEF GotList, Erred, Attached, Onward
  <2> QED BY <1>2, <1>4, <2>1 DEF GotList, Erred, Binds, Completed
<1>5. CASE GotManaged(w)
  <2>1. ~Attached(w) /\ Listed(w) = bound[SaOf(w)]
    BY <1>5 DEF GotManaged, Attached, Typed, ListsInv
  <2>2. list[w] = <<>> => Listed(w) = {}
    BY EmptySeq DEF Listed
  <2> QED BY <1>1, <1>2, <1>5, <2>1, <2>2 DEF GotManaged, Binds, Completed
<1>6. CASE Dropped(w)
  <2>1. at'[w] = "done" /\ ~Completed(w)'
    BY <1>6 DEF Dropped, Completed
  <2> QED BY <2>1 DEF Binds
<1>7. CASE Failed(w)
  <2>1. at'[w] = "done" /\ ~Completed(w)'
    BY <1>1, <1>7 DEF Failed, Completed, Typed, ChannelsInv
  <2> QED BY <2>1 DEF Binds
<1>8. CASE Forward(w)
  <2>1. ~Attached(w) /\ at[w] = "role" /\ at'[w] \in {"role", "report"}
    BY <1>8 DEF Forward, PassedOver, Noted, Wrote, Attached, Onward
  <2> QED BY <1>2, <2>1 DEF Binds, Completed
<1>9. CASE Sent(w)
  <2>1. ~Attached(w) /\ at[w] = "report" /\ at'[w] = "binding" /\ i'[w] = 1
    BY <1>9 DEF Sent, Same, Attached, Typed, ListsInv
  <2>2. Passed(w)' = {}
    BY <2>1 DEF Passed
  <2> QED BY <1>2, <2>1, <2>2 DEF Binds, Completed
<1>10. CASE Known(w)
  <2>1. at[w] = "binding" /\ Now(w) \in Bound(w)
    BY <1>10, InHand DEF Known, Bound, NameNow
  <2>2. Now(w) \in Passed(w)
    BY <2>1 DEF Binds
  <2>3. PICK j \in 1..(i[w] - 1) : list[w][j] = list[w][i[w]]
    BY <2>2 DEF Passed, Now
  <2>4. i[w] \in 1..Len(list[w]) /\ Len(list[w]) \in Nat
    BY <2>1, Stays, LenProperties DEF Typed, ListsInv
  <2>5. j \in 1..Len(list[w]) /\ j # i[w]
    BY <2>4
  <2> QED BY <2>3, <2>4, <2>5 DEF Typed, ListsInv
<1>11. CASE Attached(w)
  <2>1. Bound(w)' = Passed(w) \cup {Now(w)}
    BY <1>11, BoundStep DEF Attached, Binds
  <2>2. at[w] = "binding" /\ Onward(w, "bound") /\ i[w] \in 1..Len(list[w]) /\ Listed(w) = bound[SaOf(w)]
    BY <1>11 DEF Attached, Typed, ListsInv
  <2>3. CASE i[w] < Len(list[w]) /\ i'[w] = i[w] + 1 /\ at'[w] = at[w]
    <3>1. Passed(w)' = Passed(w) \cup {Now(w)}
      BY <2>2, <2>3, PassesAll DEF Onward
    <3> QED BY <2>1, <2>2, <2>3, <3>1 DEF Binds, Completed
  <2>4. CASE i[w] = Len(list[w]) /\ i'[w] = 1 /\ at'[w] = "bound"
    <3>1. Listed(w) = Passed(w) \cup {Now(w)}
      BY <2>2, <2>4, PassesAll
    <3> QED BY <1>1, <2>1, <2>2, <2>4, <3>1 DEF Binds, Completed
  <2> QED BY <2>2, <2>3, <2>4 DEF Onward
<1>12. CASE Returned(w)
  <2>1. ~Attached(w) /\ at[w] = "bound" /\ at'[w] = "done"
    BY <1>12 DEF Returned, Attached
  <2> QED BY <1>1, <1>2, <2>1 DEF Binds
<1> QED
  BY <1>4, <1>5, <1>6, <1>7, <1>8, <1>9, <1>10, <1>11, <1>12 DEF Step, Forward

LEMMA BoundNext ==
    ASSUME NamesApart, Typed, BoundInv, [Next]_vars PROVE BoundInv'
<1> SUFFICES ASSUME NEW v \in Worker, calm', before'.bindings[NsOf(v)] = {} PROVE Binds(v)'
  BY DEF BoundInv, Binds
<1>1. ASSUME NEW w \in Worker, Frame(w), Step(w), Adds(w) PROVE Binds(v)'
  <2>1. UNCHANGED <<calm, before, bound>>
    BY <1>1 DEF Frame
  <2>2. Binds(v)
    BY <2>1 DEF BoundInv, Binds
  <2>3. CASE v = w
    BY <1>1, <2>1, <2>2, <2>3, StepBinds
  <2>4. CASE v # w
    <3>1. /\ at'[v] = at[v] /\ list'[v] = list[v] /\ i'[v] = i[v]
          /\ Completed(v)' => Completed(v)
      BY <1>1, <2>4, CompletedBefore
    <3>2. Passed(v)' = Passed(v) /\ Bound(v)' = Bound(v)
      BY <1>1, <2>4, <3>1, BoundStep DEF Passed
    <3> QED BY <2>1, <2>2, <3>1, <3>2 DEF Binds
  <2> QED BY <2>3, <2>4
<1>2. CASE Begin
  <2>1. /\ bindings' = bindings /\ before' = [roles |-> roles, bindings |-> bindings]
        /\ at'[v] \in {"list", "done"} /\ ~Completed(v)'
    BY <1>2 DEF Begin, Completed
  <2>2. bindings'[NsOf(v)] = {}
    BY <2>1
  <2>3. Bound(v)' = {}
    BY <2>2 DEF Bound
  <2> QED BY <2>1, <2>3 DEF Binds
<1>3. CASE Interferes
  BY <1>3 DEF Interferes
<1>4. CASE Standstill
  <2>1. Completed(v)' = Completed(v) /\ Passed(v)' = Passed(v) /\ Bound(v)' = Bound(v)
    BY <1>4 DEF Standstill, Completed, Passed, Bound
  <2> QED BY <1>4, <2>1 DEF Standstill, BoundInv, Binds
<1> QED BY <1>1, <1>2, <1>3, <1>4, Kinds

-----------------------------------------------------------------------------
(* One account, one Role: NamespaceScope.Push                              *)

\* What is copied without the managed Role is copied with it.
LEMMA CopyNotEmpty ==
    ASSUME NEW r \in RoleName, NEW m \in BOOLEAN, Copy[<<r, FALSE>>] # {}
    PROVE  Copy[<<r, m>>] # {}
<1>1. PICK x : x \in rulesFilter(RulesOf[r], {})
  BY CopyIs
<1>2. \A managed : x \in rulesFilter(RulesOf[r], managed)
  BY <1>1, FilterMembers
<1> QED BY <1>2, CopyIs

\* The list holds that Role, and the loops are at their first and last step.
LEMMA LoneHand ==
    ASSUME Typed, NEW n \in Ns, NEW s \in Sa, NEW r \in RoleName, Lone(s, r), NEW w, w = <<n, s>>
    PROVE  /\ w \in Worker /\ NsOf(w) = n /\ SaOf(w) = s
           /\ at[w] = "managed" => list[w] # <<>>
           /\ at[w] \in {"role", "report", "binding"} =>
                 /\ i[w] = Len(list[w]) /\ i[w] = 1 /\ Now(w) = r /\ NameNow(w) = NameOf[<<r, s>>]
                 /\ Rules(w) # {}
<1>1. w \in Worker /\ NsOf(w) = n /\ SaOf(w) = s
  BY DEF Worker, NsOf, SaOf
<1>2. at[w] \in {"managed", "role", "report", "binding"} => Listed(w) = {r}
  BY <1>1 DEF Lone, Typed, ListsInv
<1>3. at[w] = "managed" => list[w] # <<>>
  <2>1. list[w] = <<>> => Listed(w) = {}
    BY EmptySeq DEF Listed
  <2> QED BY <1>2, <2>1
<1>4. ASSUME at[w] \in {"role", "report", "binding"}
      PROVE  /\ i[w] = Len(list[w]) /\ i[w] = 1 /\ Now(w) = r /\ NameNow(w) = NameOf[<<r, s>>]
             /\ Rules(w) # {}
  <2>1. /\ i[w] \in 1..Len(list[w]) /\ Len(list[w]) \in Nat /\ i[w] \in Nat /\ capped[w] \in BOOLEAN
        /\ \A j, k \in 1..Len(list[w]) : list[w][j] = list[w][k] => j = k
    BY <1>1, <1>4, Stays, LenProperties DEF Typed, ListsInv
  <2>2. \A j \in 1..Len(list[w]) : list[w][j] = r
    BY <1>2, <1>4 DEF Listed
  <2>3. \A j, k \in 1..Len(list[w]) : j = k
    BY <2>1, <2>2
  <2>4. 1 \in 1..Len(list[w]) /\ Len(list[w]) \in 1..Len(list[w])
    BY <2>1
  <2>5. i[w] = 1 /\ i[w] = Len(list[w])
    BY <2>1, <2>3, <2>4
  <2>6. Now(w) = r
    BY <2>1, <2>2 DEF Now
  <2> QED BY <1>1, <2>1, <2>5, <2>6, CopyNotEmpty DEF NameNow, Rules, Lone
<1> QED BY <1>1, <1>3, <1>4

LEMMA LoneOnward ==
    ASSUME Typed, NEW n \in Ns, NEW s \in Sa, NEW r \in RoleName, Lone(s, r), NEW w, w = <<n, s>>,
           at[w] \in {"role", "binding"}, NEW x, Onward(w, x)
    PROVE  at'[w] = x
<1>1. i[w] = 1 /\ i[w] = Len(list[w])
  BY LoneHand
<1>2. ~(i[w] < Len(list[w]))
  BY <1>1
<1> QED BY <1>2 DEF Onward

\* The goroutine that moves, in its own namespace.
LEMMA StepStages ==
    ASSUME Typed, CappedInv, NEW n \in Ns, NEW s \in Sa, NEW r \in RoleName, Lone(s, r),
           NEW w \in Worker, w = <<n, s>>, Frame(w), Step(w), Stage(n, s, r)
    PROVE  Stage(n, s, r)'
<1>1. /\ UNCHANGED <<adminVars, accounts, before, allowSubset, calm>> /\ NsOf(w) = n /\ SaOf(w) = s
      /\ spent["fault"] \in Nat /\ spent'["fault"] \in Nat /\ spent'["fault"] >= spent["fault"]
      /\ calm /\ r \in source
  BY DEF Frame, Typed, TypesInv, Lone, NsOf, SaOf
<1>2. /\ errs \in [Ns -> Nat] /\ reported \in [Ns -> SUBSET RoleName]
      /\ bindings \in [Ns -> SUBSET ObjectName] /\ roles \in [Ns -> [ObjectName -> Copied \cup {None}]]
      /\ NameOf[<<r, s>>] \in ObjectName
  BY ProjectOK DEF Typed, TypesInv, ChannelsInv, CopiesInv
<1>3. /\ Writable(n)' = Writable(n) /\ Readable(n)' = Readable(n) /\ (Writable(n) => Readable(n))
  BY <1>1 DEF Writable, Readable
<1>4. Silent => /\ AsBefore(n)' = AsBefore(n) /\ RoleOnly(n, s, r)' = RoleOnly(n, s, r)
                /\ BindingOnly(n, s, r)' = BindingOnly(n, s, r)
                /\ Both(n, s, r)' = Both(n, s, r) /\ (Short(n, s, r) => Short(n, s, r)')
                /\ (\A x \in SUBSET RoleName : Halfway(n, s, r, x) => Halfway(n, s, r, x)')
                /\ errs'[n] = errs[n] /\ reported'[n] = reported[n]
  BY <1>1, <1>3 DEF Silent, AsBefore, RoleOnly, BindingOnly, Both, Short, Halfway
<1>5. CASE GotList(w)
  BY <1>4, <1>5 DEF GotList, Stage
<1>6. CASE GotManaged(w)
  <2>1. at'[w] = "role"
    BY <1>6, LoneHand DEF GotManaged
  <2> QED BY <1>4, <1>6, <2>1 DEF GotManaged, Stage
<1>7. CASE Erred(w)
  <2>1. Short(n, s, r)
        \/ (Faulty /\ ((AsBefore(n) /\ reported[n] = {}) \/ Halfway(n, s, r, reported[n])))
    <3>1. CASE at[w] \in {"list", "managed"}
      BY <1>1, <1>3, <1>7, <3>1 DEF Erred, Stage, Short
    <3>2. CASE at[w] = "role"
      BY <1>1, <1>3, <1>7, <3>2, LoneHand DEF Erred, Stage, Short
    <3>3. CASE at[w] = "binding"
      BY <1>1, <1>3, <1>7, <3>3 DEF Erred, Stage, Halfway
    <3> QED BY <1>7, <3>1, <3>2, <3>3 DEF Erred
  <2>2. Short(n, s, r)'
    <3>1. CASE Short(n, s, r)
      BY <1>4, <1>7, <3>1 DEF Erred
    <3>2. CASE Faulty /\ AsBefore(n) /\ reported[n] = {}
      BY <1>4, <1>7, <3>2 DEF Erred, Short, Faulty
    <3>3. CASE Faulty /\ Halfway(n, s, r, reported[n])
      BY <1>1, <1>3, <1>4, <1>7, <3>3 DEF Erred, Short, Faulty, Halfway
    <3> QED BY <2>1, <3>1, <3>2, <3>3
  <2> QED BY <1>7, <2>2 DEF Erred, Stage
<1>8. CASE Dropped(w)
  <2>1. Short(n, s, r)
    BY <1>1, <1>3, <1>8 DEF Dropped, Stage, Short, Halfway
  <2> QED BY <1>1, <1>4, <1>8, <2>1 DEF Dropped, Stage
<1>9. CASE PassedOver(w)
  BY <1>1, <1>9, LoneHand DEF PassedOver
<1>10. CASE Noted(w)
  <2>1. /\ at'[w] = "report" /\ found'[w] = {r} /\ allowSubset /\ AsBefore(n) /\ errs[n] = 0
        /\ reported[n] = {} /\ (~Writable(n) \/ Faulty)
    <3>1. at[w] = "role" /\ Onward(w, "report") /\ found'[w] = found[w] \cup {Now(w)} /\ allowSubset
      BY <1>10 DEF Noted
    <3>2. at'[w] = "report" /\ Now(w) = r /\ Rules(w) # {}
      <4>1. at'[w] = "report"
        BY <3>1, LoneOnward
      <4>2. at[w] \in {"role", "report", "binding"}
        BY <3>1
      <4>3. Now(w) = r /\ Rules(w) # {}
        BY <4>2, LoneHand, Zenon
      <4> QED BY <4>1, <4>3
    <3>3. AsBefore(n) /\ errs[n] = 0 /\ reported[n] = {} /\ found[w] = {}
      BY <3>1 DEF Stage
    <3>4. Now(w) \notin source \/ Rules(w) = {} \/ ~Writable(NsOf(w)) \/ Faulty
      BY <1>10 DEF Noted
    <3>5. ~Writable(n) \/ Faulty
      BY <1>1, <3>2, <3>4
    <3> QED BY <3>1, <3>2, <3>3, <3>5
  <2>2. Readable(n)
    BY <1>1, <1>10 DEF Noted, CappedInv
  <2>3. Halfway(n, s, r, {r})'
    BY <1>1, <1>3, <1>4, <1>10, <2>1, <2>2 DEF Noted, Halfway, Faulty
  <2> QED BY <1>4, <1>10, <2>1, <2>3 DEF Noted, Stage
<1>11. CASE Wrote(w)
  <2>1. at'[w] = "report" /\ at[w] = "role" /\ Writable(n) /\ found'[w] = {} /\ errs'[n] = 0 /\ reported'[n] = {}
    BY <1>1, <1>11, LoneHand, LoneOnward DEF Wrote, Stage
  <2>2. roles'[n][NameOf[<<r, s>>]] # None
    <3>1. NameNow(w) = NameOf[<<r, s>>]
      BY <2>1, LoneHand
    <3>2. roles'[n][NameOf[<<r, s>>]] = <<Now(w), SaOf(w), Rules(w)>>
      <4>1. roles' = [roles EXCEPT ![n][NameOf[<<r, s>>]] = <<Now(w), SaOf(w), Rules(w)>>]
        BY <1>1, <1>11, <3>1 DEF Wrote
      <4> QED BY <1>2, <4>1
    <3>3. <<Now(w), SaOf(w), Rules(w)>> # None
      <4>1. Now(w) \in RoleName /\ capped[w] \in BOOLEAN
        BY <2>1, InHand, Stays
      <4>2. Rules(w) \in SUBSET Rule
        BY <4>1, CopyType DEF Rules
      <4> QED BY <1>1, <4>1, <4>2, ProjectOK
    <3> QED BY <3>2, <3>3
  <2>3. bindings[n] = before.bindings[n]
    BY <2>1 DEF Stage, AsBefore
  <2>4. Halfway(n, s, r, {})'
    BY <1>1, <1>3, <1>11, <2>1, <2>2, <2>3 DEF Wrote, Halfway, RoleOnly
  <2> QED BY <1>11, <2>1, <2>4 DEF Stage
<1>12. CASE Sent(w)
  <2>1. /\ at'[w] = "binding" /\ errs'[n] = 0 /\ reported'[n] = found[w]
        /\ Halfway(n, s, r, found[w])
    BY <1>1, <1>2, <1>12 DEF Sent, Stage
  <2>2. Halfway(n, s, r, reported[n])'
    <3>1. UNCHANGED <<roles, bindings>>
      BY <1>12 DEF Sent
    <3>2. AsBefore(n)' = AsBefore(n) /\ RoleOnly(n, s, r)' = RoleOnly(n, s, r)
      BY <1>1, <3>1 DEF AsBefore, RoleOnly
    <3>3. reported'[n] = found[w]
      BY <2>1
    <3>4. spent["fault"] > 0 => spent'["fault"] > 0
      BY <1>1
    <3>5. UNCHANGED allowSubset
      BY <1>1
    <3>6. CASE found[w] = {} /\ Writable(n) /\ RoleOnly(n, s, r)
      BY <1>3, <3>2, <3>3, <3>6 DEF Halfway
    <3>7. CASE /\ found[w] = {r} /\ allowSubset /\ Readable(n) /\ AsBefore(n)
               /\ ~Writable(n) \/ spent["fault"] > 0
      BY <1>3, <3>2, <3>3, <3>4, <3>5, <3>7 DEF Halfway
    <3> QED BY <2>1, <3>6, <3>7 DEF Halfway
  <2> QED BY <2>1, <2>2 DEF Stage
<1>13. CASE Known(w)
  <2>1. at[w] = "binding" /\ errs[n] = 0 /\ Halfway(n, s, r, reported[n]) /\ Writable(n)
        /\ NameOf[<<r, s>>] \in bindings[n]
    BY <1>1, <1>13, LoneHand DEF Known, Stage
  <2>2. Both(n, s, r) \/ (allowSubset /\ Short(n, s, r))
    BY <2>1 DEF Halfway, Both, Short, RoleOnly
  <2> QED BY <1>1, <1>4, <1>13, <2>1, <2>2 DEF Known, Stage
<1>14. CASE Attached(w)
  <2>1. /\ at[w] = "binding" /\ errs[n] = 0 /\ Halfway(n, s, r, reported[n]) /\ Writable(n)
        /\ at'[w] = "bound" /\ bindings'[n] = bindings[n] \cup {NameOf[<<r, s>>]}
        /\ UNCHANGED <<roles, errs, reported>>
    <3>1. at[w] = "binding" /\ Onward(w, "bound")
      BY <1>14 DEF Attached
    <3>2. at'[w] = "bound" /\ NameNow(w) = NameOf[<<r, s>>]
      BY <3>1, LoneHand, LoneOnward
    <3>3. errs[n] = 0 /\ Halfway(n, s, r, reported[n])
      BY <3>1 DEF Stage
    <3> QED BY <1>1, <1>2, <1>14, <3>1, <3>2, <3>3 DEF Attached
  <2>2. CASE reported[n] = {} /\ RoleOnly(n, s, r)
    <3>1. Both(n, s, r)'
      BY <1>3, <2>1, <2>2 DEF Both, RoleOnly
    <3> QED BY <2>1, <3>1 DEF Stage
  <2>3. CASE reported[n] = {r} /\ allowSubset /\ AsBefore(n) /\ spent["fault"] > 0
    <3>1. Short(n, s, r)'
      BY <1>1, <1>3, <2>1, <2>3 DEF Short, AsBefore, BindingOnly
    <3> QED BY <1>1, <2>1, <2>3, <3>1 DEF Stage
  <2> QED BY <2>1, <2>2, <2>3 DEF Halfway
<1>15. CASE Returned(w)
  <2>1. errs[n] = 0 /\ (Both(n, s, r) \/ (allowSubset /\ Short(n, s, r)))
    BY <1>15 DEF Returned, Stage
  <2> QED BY <1>1, <1>4, <1>15, <2>1 DEF Returned, Stage
<1>16. CASE Failed(w)
  <2>1. Short(n, s, r) /\ errs'[n] > 0
    BY <1>1, <1>2, <1>16 DEF Failed, Stage
  <2>2. UNCHANGED <<roles, bindings, reported>> /\ at'[w] = "done"
    BY <1>16 DEF Failed
  <2>3. Short(n, s, r)'
    BY <1>1, <1>3, <2>1, <2>2 DEF Short, AsBefore, RoleOnly, BindingOnly
  <2> QED BY <2>1, <2>2, <2>3 DEF Stage
<1> QED
  BY <1>5, <1>6, <1>7, <1>8, <1>9, <1>10, <1>11, <1>12, <1>13, <1>14, <1>15, <1>16 DEF Step

\* The goroutines of other namespaces, and of accounts the call does not work for.
LEMMA OthersStage ==
    ASSUME Typed, NEW n \in Ns, NEW s \in Sa, NEW r \in RoleName,
           NEW w \in Worker, NsOf(w) # n, Frame(w), Adds(w), Stage(n, s, r)
    PROVE  Stage(n, s, r)'
<1>1. /\ UNCHANGED <<access, before, allowSubset>>
      /\ spent["fault"] > 0 => spent'["fault"] > 0
  BY DEF Frame, Typed, TypesInv
<1>2. /\ roles'[n] = roles[n] /\ bindings'[n] = bindings[n]
      /\ errs'[n] = errs[n] /\ reported'[n] = reported[n]
  BY DEF Adds
<1>3. at'[<<n, s>>] = at[<<n, s>>] /\ found'[<<n, s>>] = found[<<n, s>>]
  <2>1. <<n, s>> \in Worker \ {w}
    BY DEF Worker, NsOf
  <2> QED BY <2>1 DEF Frame
<1>4. /\ AsBefore(n)' = AsBefore(n) /\ RoleOnly(n, s, r)' = RoleOnly(n, s, r)
      /\ BindingOnly(n, s, r)' = BindingOnly(n, s, r)
      /\ Writable(n)' = Writable(n) /\ Readable(n)' = Readable(n)
  BY <1>1, <1>2 DEF AsBefore, RoleOnly, BindingOnly, Writable, Readable
<1>5. Both(n, s, r)' = Both(n, s, r)
  BY <1>2, <1>4 DEF Both
<1>6. Short(n, s, r) => Short(n, s, r)'
  BY <1>1, <1>2, <1>4 DEF Short
<1>7. Halfway(n, s, r, reported[n]) => Halfway(n, s, r, reported[n])'
  BY <1>1, <1>2, <1>4 DEF Halfway
<1>8. Halfway(n, s, r, found[<<n, s>>]) => Halfway(n, s, r, found[<<n, s>>])'
  BY <1>1, <1>3, <1>4 DEF Halfway
<1> QED BY <1>1, <1>2, <1>3, <1>4, <1>5, <1>6, <1>7, <1>8 DEF Stage

LEMMA LoneNext == Typed /\ CappedInv /\ LoneInv /\ [Next]_vars => LoneInv'
<1> SUFFICES ASSUME Typed, CappedInv, LoneInv, [Next]_vars,
                    NEW n \in Ns, NEW s \in Sa, NEW r \in RoleName, Lone(s, r)'
             PROVE  Stage(n, s, r)'
  BY DEF LoneInv
<1>1. ASSUME NEW w \in Worker, Frame(w), Step(w), Adds(w) PROVE Stage(n, s, r)'
  <2>1. Lone(s, r)
    BY <1>1 DEF Frame, Lone
  <2>2. Stage(n, s, r)
    BY <2>1 DEF LoneInv
  <2>3. CASE NsOf(w) # n
    BY <1>1, <2>2, <2>3, OthersStage
  <2>4. CASE NsOf(w) = n
    <3>1. w = <<n, SaOf(w)>> /\ at[w] # "done"
      BY <1>1, <2>4 DEF Worker, NsOf, SaOf, Step, GotList, GotManaged, Erred, Dropped, PassedOver,
                        Noted, Wrote, Sent, Known, Attached, Returned, Failed
    <3>2. SaOf(w) \in accounts /\ accounts = {s}
      BY <2>1, <3>1 DEF Typed, PlacesInv, Lone
    <3>3. w = <<n, s>>
      BY <3>1, <3>2
    <3> QED BY <1>1, <2>1, <2>2, <3>3, StepStages
  <2> QED BY <2>3, <2>4
<1>2. CASE Begin
  <2>1. accounts' = {s}
    BY DEF Lone
  <2>2. <<n, s>> \in Worker /\ SaOf(<<n, s>>) = s
    BY DEF Worker, SaOf
  <2>3. at'[<<n, s>>] = "list" /\ found'[<<n, s>>] = {}
    BY <1>2, <2>1, <2>2 DEF Begin
  <2>4. errs'[n] = 0 /\ reported'[n] = {}
    BY <1>2 DEF Begin, MakeChannels
  <2>5. AsBefore(n)'
    BY <1>2 DEF Begin, AsBefore
  <2> QED BY <2>3, <2>4, <2>5 DEF Stage
<1>3. CASE Interferes
  BY <1>3 DEF Interferes, Lone
<1>4. CASE Standstill
  <2>1. Lone(s, r)
    BY <1>4 DEF Standstill, Lone
  <2>2. Stage(n, s, r)
    BY <2>1 DEF LoneInv
  <2> QED
    BY <1>4, <2>2 DEF Standstill, Stage, Both, Short, Halfway, AsBefore, RoleOnly, BindingOnly,
                      Writable, Readable
<1> QED BY <1>1, <1>2, <1>3, <1>4, Kinds

-----------------------------------------------------------------------------
(* The theorems                                                            *)

LEMMA GoroutinesInit == Init => Typed /\ GoroutinesInv
<1> SUFFICES ASSUME Init PROVE Typed /\ GoroutinesInv
  OBVIOUS
<1>1. Typed
  BY TypedInit
<1>2. /\ ~calm /\ accounts = {} /\ result = None /\ lost = {}
      /\ \A w \in Worker : at[w] = "done" /\ found[w] = {}
      /\ \A n \in Ns : reported[n] = {} /\ outer[n] = "done" /\ errs[n] = 0
  BY DEF Init
<1>3. ListsInv
  BY <1>1 DEF Typed
<1>4. ReportedInv /\ OuterInv
  BY <1>2 DEF ReportedInv, Completed, OuterInv, InnerDone
<1>5. CappedInv /\ NotedInv /\ LoneInv /\ CopiedInv /\ BoundInv
  BY <1>2 DEF CappedInv, NotedInv, LoneInv, Lone, CopiedInv, BoundInv
<1> QED BY <1>1, <1>3, <1>4, <1>5 DEF GoroutinesInv

LEMMA GoroutinesNext == Typed /\ GoroutinesInv /\ [Next]_vars => Typed' /\ GoroutinesInv'
<1> SUFFICES ASSUME Typed, GoroutinesInv, [Next]_vars PROVE Typed' /\ GoroutinesInv'
  OBVIOUS
<1>1. Typed' /\ ListsInv'
  BY TypedNext DEF Typed
<1>2. CappedInv' /\ ReportedInv' /\ OuterInv' /\ NotedInv' /\ LoneInv'
  BY CappedNext, ReportedNext, OuterNext, NotedNext, LoneNext DEF GoroutinesInv
<1>3. NamesApart => CopiedInv' /\ BoundInv'
  BY CopiedNext, BoundNext DEF GoroutinesInv
<1>4. NamesApart' = NamesApart
  BY DEF NamesApart
<1> QED BY <1>1, <1>2, <1>3, <1>4 DEF GoroutinesInv

\* What is typed is what the code can put there.
LEMMA TypedMeans == Typed => TypeOK
<1> SUFFICES ASSUME Typed PROVE TypeOK
  OBVIOUS
<1>1. /\ bound \in [Sa -> SUBSET RoleName] /\ source \subseteq RoleName
      /\ access \in [Ns -> {"open", "unmanaged", "terminating", "closed"}]
      /\ bindings \in [Ns -> SUBSET ObjectName]
      /\ lost \subseteq Worker /\ allowSubset \in BOOLEAN /\ phase \in {"resting", "pushing"}
  BY DEF Typed, TypesInv, CopiesInv, Access
<1>2. roles \in [Ns -> [ObjectName -> (RoleName \X Sa \X SUBSET Rule) \cup {None}]]
  BY DEF Typed, CopiesInv, Copied
<1>3. at \in [Worker -> {"list", "managed", "role", "report", "binding", "bound", "error", "done"}]
  BY DEF Typed, PlacesInv, Place
<1>4. ASSUME NEW n \in Ns PROVE errs[n] \in 0..innerCap /\ notes[n] \in 0..innerCap
  <2>1. accounts \in SUBSET Sa /\ Left(n) \in SUBSET accounts /\ Reporting(n) \in SUBSET accounts
    BY DEF Typed, PlacesInv, Left, Reporting
  <2>2. /\ Cardinality(Left(n)) <= Cardinality(accounts)
        /\ Cardinality(Reporting(n)) <= Cardinality(accounts)
        /\ Cardinality(accounts) \in Nat
        /\ Cardinality(Left(n)) \in Nat /\ Cardinality(Reporting(n)) \in Nat
    BY <2>1, FiniteSets, FS_Subset
  <2>3. /\ errs[n] \in Nat /\ notes[n] \in Nat
        /\ errs[n] <= Cardinality(Left(n)) /\ notes[n] <= Cardinality(Reporting(n))
    BY DEF Typed, ChannelsInv
  <2> QED BY <2>2, <2>3 DEF innerCap
<1>5. outErrs \in 0..outerCap /\ outNotes \in 0..outerCap
  <2>1. /\ Cardinality(Collected) <= Cardinality(Ns) /\ Cardinality(Ns) \in Nat
        /\ Cardinality(Collected) \in Nat
    BY FiniteSets, FS_Subset DEF Collected
  <2>2. /\ outErrs \in Nat /\ outNotes \in Nat
        /\ outErrs <= Cardinality(Collected) /\ outNotes <= Cardinality(Collected)
    BY DEF Typed, ChannelsInv
  <2> QED BY <2>1, <2>2 DEF outerCap
<1> QED BY <1>1, <1>2, <1>3, <1>4, <1>5 DEF TypeOK

\* Every variable holds what the code can put there, and no channel more than
\* it was made for, whatever their number.
THEOREM TypeCorrect == Spec => []TypeOK
BY TypedInit, TypedNext, TypedMeans, PTL DEF Spec

\* When a call has returned, every goroutine has, and what they sent is in the
\* answer.
LEMMA AfterReturn ==
    ASSUME Typed, GoroutinesInv, Quiet, NEW w \in Ns \X accounts
    PROVE  /\ w \in Worker /\ NsOf(w) \in Ns /\ SaOf(w) \in accounts /\ SaOf(w) \in Sa
           /\ at[w] = "done" /\ calm
           /\ result = [failed |-> outErrs > 0, unprojected |-> outReported]
           /\ ~allowSubset /\ errs[NsOf(w)] > 0 => outErrs > 0
           /\ allowSubset => \A r \in reported[NsOf(w)] : <<NsOf(w), r>> \in outReported
           /\ errs[NsOf(w)] \in Nat /\ outErrs \in Nat
           /\ ~allowSubset => lost = {}
<1>1. w \in Worker /\ NsOf(w) \in Ns /\ SaOf(w) \in accounts /\ SaOf(w) \in Sa /\ w = <<NsOf(w), SaOf(w)>>
  BY DEF Typed, PlacesInv, Worker, NsOf, SaOf
<1>2. /\ result = [failed |-> outErrs > 0, unprojected |-> outReported]
      /\ outer[NsOf(w)] = "done" /\ calm
      /\ ~allowSubset => lost = {}
  BY <1>1 DEF Quiet, GoroutinesInv, OuterInv
<1>3. InnerDone(NsOf(w))
  BY <1>1, <1>2 DEF GoroutinesInv, OuterInv
<1>4. at[w] = "done"
  BY <1>1, <1>3 DEF InnerDone
<1>5. /\ ~allowSubset /\ errs[NsOf(w)] > 0 => outErrs > 0
      /\ allowSubset => \A r \in reported[NsOf(w)] : <<NsOf(w), r>> \in outReported
  BY <1>1, <1>2 DEF GoroutinesInv, OuterInv
<1>6. errs[NsOf(w)] \in Nat /\ outErrs \in Nat
  BY <1>1 DEF Typed, ChannelsInv
<1> QED BY <1>1, <1>2, <1>4, <1>5, <1>6

\* Without an error in the answer there was none.
LEMMA NoneFailed ==
    ASSUME Typed, GoroutinesInv, Quiet, ~allowSubset, ~result.failed, NEW w \in Ns \X accounts
    PROVE  Completed(w) /\ Handled(w) = bound[SaOf(w)]
<1>1. outErrs = 0
  <2>1. result = [failed |-> outErrs > 0, unprojected |-> outReported] /\ outErrs \in Nat
    BY AfterReturn
  <2>2. ~(outErrs > 0)
    BY <2>1
  <2> QED BY <2>1, <2>2
<1>2. errs[NsOf(w)] = 0 /\ lost = {}
  BY <1>1, AfterReturn
<1>3. Completed(w)
  BY <1>2, AfterReturn DEF Completed
<1> QED BY <1>3, AfterReturn, HandledCases

LEMMA GoroutinesMean ==
    Typed /\ GoroutinesInv =>
        /\ SubsetReports /\ PushesAsAbstracted
        /\ NamesApart => SuccessMeansCopied /\ SuccessMeansBoundFromScratch
<1> SUFFICES ASSUME Typed, GoroutinesInv
             PROVE  /\ SubsetReports /\ PushesAsAbstracted
                    /\ NamesApart => SuccessMeansCopied /\ SuccessMeansBoundFromScratch
  OBVIOUS
<1>1. SubsetReports
  <2> SUFFICES ASSUME Quiet, allowSubset, NEW w \in (Ns \X accounts) \ lost, errs[NsOf(w)] = 0,
                      NEW r \in bound[SaOf(w)]
               PROVE  \/ roles[NsOf(w)][NameOf[<<r, SaOf(w)>>]] # None
                      \/ <<NsOf(w), r>> \in result.unprojected
    BY DEF SubsetReports
  <2>1. /\ w \in Worker /\ Completed(w) /\ calm /\ result.unprojected = outReported
        /\ \A x \in reported[NsOf(w)] : <<NsOf(w), x>> \in outReported
    BY AfterReturn DEF Completed
  <2>2. r \in Handled(w)
    BY <2>1, HandledCases
  <2>3. Projected(w, r) # None \/ r \in found[w]
    BY <2>1, <2>2 DEF GoroutinesInv, NotedInv
  <2>4. found[w] \subseteq reported[NsOf(w)]
    BY <2>1 DEF GoroutinesInv, ReportedInv
  <2> QED BY <2>1, <2>3, <2>4 DEF Projected
<1>2. PushesAsAbstracted
  <2> SUFFICES ASSUME NEW n \in Ns, NEW s \in Sa, NEW r \in RoleName,
                      accounts = {s}, phase = "pushing", outer[n] = "done", calm,
                      bound[s] = {r}, r \in source, Copy[<<r, FALSE>>] # {}
               PROVE  PushOutcome(n, s, r)
    BY DEF PushesAsAbstracted
  <2>1. Stage(n, s, r)
    BY DEF GoroutinesInv, LoneInv, Lone
  <2>2. at[<<n, s>>] = "done"
    BY DEF GoroutinesInv, OuterInv, InnerDone
  <2>3. {} # {r}
    OBVIOUS
  <2>4. CASE Both(n, s, r) /\ errs[n] = 0
    BY <2>3, <2>4 DEF PushOutcome, Both
  <2>5. CASE Short(n, s, r) /\ (allowSubset \/ errs[n] > 0)
    BY <2>3, <2>5 DEF PushOutcome, Short, AsBefore, RoleOnly, BindingOnly
  <2> QED BY <2>1, <2>2, <2>4, <2>5 DEF Stage
<1>3. ASSUME NamesApart PROVE SuccessMeansCopied
  <2> SUFFICES ASSUME Quiet, ~allowSubset, ~result.failed, NEW w \in Ns \X accounts,
                      NEW r \in bound[SaOf(w)] \cap source
               PROVE  roles[NsOf(w)][NameOf[<<r, SaOf(w)>>]] =
                          <<r, SaOf(w), Copy[<<r, access[NsOf(w)] = "open">>]>>
    BY DEF SuccessMeansCopied
  <2>1. r \in Handled(w) \cap source /\ w \in Worker /\ calm
    BY NoneFailed, AfterReturn
  <2> QED BY <1>3, <2>1 DEF GoroutinesInv, CopiedInv, Projected
<1>4. ASSUME NamesApart PROVE SuccessMeansBoundFromScratch
  <2> SUFFICES ASSUME Quiet, ~allowSubset, ~result.failed,
                      NEW w \in {n \in Ns : before.bindings[n] = {}} \X accounts,
                      NEW r \in bound[SaOf(w)]
               PROVE  NameOf[<<r, SaOf(w)>>] \in bindings[NsOf(w)]
    BY DEF SuccessMeansBoundFromScratch
  <2>1. w \in Ns \X accounts /\ before.bindings[NsOf(w)] = {}
    BY DEF NsOf
  <2>2. Completed(w) /\ w \in Worker /\ calm
    BY <2>1, NoneFailed, AfterReturn
  <2>3. bound[SaOf(w)] \subseteq Bound(w)
    BY <1>4, <2>1, <2>2 DEF GoroutinesInv, BoundInv
  <2> QED BY <2>3 DEF Bound
<1> QED BY <1>1, <1>2, <1>3, <1>4

\* What each goroutine has done so far and what it has told, at every moment of
\* every interleaving of PushRbacToNamespace: the invariant behind the theorems
\* on its result.
THEOREM GoroutinesCorrect == Spec => []GoroutinesInv
BY GoroutinesInit, GoroutinesNext, PTL DEF Spec

\* With allowSubsetProjection, a Role that a goroutine could not copy is in the
\* answer of PushRbacToNamespace.
THEOREM SubsetIsReported == Spec => []SubsetReports
BY GoroutinesInit, GoroutinesNext, GoroutinesMean, PTL DEF Spec

\* A call that reports no error has copied every Role, if no two names of
\* projected objects collide.
THEOREM SuccessIsCopied == ASSUME NamesApart PROVE Spec => []SuccessMeansCopied
<1>1. Typed /\ GoroutinesInv => SuccessMeansCopied
  BY GoroutinesMean
<1> QED BY <1>1, GoroutinesInit, GoroutinesNext, PTL DEF Spec

\* ... and bound it where no RoleBinding was before.
THEOREM SuccessIsBound == ASSUME NamesApart PROVE Spec => []SuccessMeansBoundFromScratch
<1>1. Typed /\ GoroutinesInv => SuccessMeansBoundFromScratch
  BY GoroutinesMean
<1> QED BY <1>1, GoroutinesInit, GoroutinesNext, PTL DEF Spec

\* For one account and one Role, whatever the interleaving, the outcome is one
\* that NamespaceScope.Push has.
THEOREM PushIsAbstracted == Spec => []PushesAsAbstracted
BY GoroutinesInit, GoroutinesNext, GoroutinesMean, PTL DEF Spec
=============================================================================
