--------------------------- MODULE ProjectedRoles ---------------------------
(***************************************************************************)
(* Why PushRbacToNamespace keeps its word, goroutine by goroutine: the     *)
(* strengthenings of SuccessMeansCopied, SuccessMeansBoundFromScratch,     *)
(* SubsetReports and PushesAsAbstracted that a single step preserves.      *)
(* They are stated over the variables of ProjectRbac and add nothing to    *)
(* its behaviour.                                                          *)
(***************************************************************************)
EXTENDS ProjectRbac

\* The Roles of a goroutine's list, and those its loop has passed.
Listed(w) == {list[w][j] : j \in 1..Len(list[w])}
Passed(w) == {list[w][j] : j \in 1..(i[w] - 1)}

\* The list holds each Role once, the loops stay within it, and while nobody
\* interferes it is what is bound to the account.
ListsInv ==
    \A w \in Worker :
        /\ list[w] \in Seq(RoleName) /\ i[w] \in Nat \ {0}
        /\ \A j, k \in 1..Len(list[w]) : list[w][j] = list[w][k] => j = k
        /\ at[w] \in {"role", "report", "binding"} => i[w] \in 1..Len(list[w])
        /\ at[w] \in {"list", "managed", "report"} => i[w] = 1
        /\ calm /\ at[w] \in {"managed", "role", "report", "binding"} =>
              Listed(w) = bound[SaOf(w)]

\* It filters by the managed Role that is still there.
CappedInv ==
    \A w \in Worker : calm /\ at[w] \in {"role", "report", "binding"} =>
        Readable(NsOf(w)) /\ capped[w] = (access[NsOf(w)] # "unmanaged")

\* A goroutine that has returned without an error, sent or dropped.
Completed(w) ==
    at[w] = "done" /\ SaOf(w) \in accounts /\ w \notin lost /\ errs[NsOf(w)] = 0

\* The Roles CreateRole is through with.
Handled(w) ==
    CASE at[w] = "role" -> Passed(w)
      [] at[w] \in {"report", "binding", "bound"} \/ Completed(w) -> bound[SaOf(w)]
      [] OTHER -> {}

Projected(w, r) == roles[NsOf(w)][NameOf[<<r, SaOf(w)>>]]

\* Without allowSubsetProjection they are copied, with it they are or are noted.
CopiedInv ==
    calm /\ ~allowSubset => \A w \in Worker : \A r \in Handled(w) \cap source :
        Projected(w, r) = <<r, SaOf(w), Copy[<<r, access[NsOf(w)] = "open">>]>>

NotedInv ==
    calm /\ allowSubset => \A w \in Worker : \A r \in Handled(w) :
        Projected(w, r) # None \/ r \in found[w]

\* What a goroutine noted gets to its namespace's channel.
ReportedInv ==
    \A w \in Worker :
        /\ at[w] \in {"list", "managed"} => found[w] = {}
        /\ at[w] \in {"binding", "bound"} \/ Completed(w) => found[w] \subseteq reported[NsOf(w)]
        /\ ~allowSubset => found[w] = {}

\* No error and no note is lost between the channels and the answer.
OuterInv ==
    /\ ~allowSubset => lost = {}
    /\ \A n \in Ns :
          /\ reported[n] # {} => notes[n] > 0
          /\ outer[n] = "done" =>
                /\ InnerDone(n)
                /\ ~allowSubset /\ errs[n] > 0 => outErrs > 0
                /\ allowSubset => \A r \in reported[n] : <<n, r>> \in outReported
    /\ result # None =>
          /\ result = [failed |-> outErrs > 0, unprojected |-> outReported]
          /\ \A n \in Ns : outer[n] = "done"

\* The Roles whose RoleBinding for this account is there.  In a namespace that
\* held none before they are those the loop has passed: none exists already.
Bound(w) == {r \in RoleName : NameOf[<<r, SaOf(w)>>] \in bindings[NsOf(w)]}

BoundInv ==
    \A w \in Worker : calm /\ before.bindings[NsOf(w)] = {} =>
        /\ at[w] \in {"list", "managed", "role", "report"} => Bound(w) = {}
        /\ at[w] = "binding" => Bound(w) = Passed(w)
        /\ at[w] = "bound" \/ Completed(w) => bound[SaOf(w)] \subseteq Bound(w)

-----------------------------------------------------------------------------
(* One account, one Role that can be copied: NamespaceScope.Push           *)

Lone(s, r) ==
    accounts = {s} /\ calm /\ bound[s] = {r} /\ r \in source /\ Copy[<<r, FALSE>>] # {}

AsBefore(n) == roles[n] = before.roles[n] /\ bindings[n] = before.bindings[n]

RoleOnly(n, s, r) ==
    roles[n][NameOf[<<r, s>>]] # None /\ bindings[n] = before.bindings[n]

BindingOnly(n, s, r) ==
    roles[n] = before.roles[n] /\ bindings[n] = before.bindings[n] \cup {NameOf[<<r, s>>]}

\* Both objects are there.
Both(n, s, r) ==
    /\ Writable(n) /\ roles[n][NameOf[<<r, s>>]] # None /\ NameOf[<<r, s>>] \in bindings[n]
    /\ reported[n] = {}

\* Something is missing, for a reason.
Short(n, s, r) ==
    \/ /\ ~Writable(n) /\ AsBefore(n)
       /\ reported[n] = IF allowSubset /\ Readable(n) THEN {r} ELSE {}
    \/ /\ spent["fault"] > 0 /\ reported[n] = {}
       /\ AsBefore(n) \/ (Writable(n) /\ RoleOnly(n, s, r))
    \/ /\ spent["fault"] > 0 /\ reported[n] = {r} /\ Writable(n) /\ allowSubset
       /\ AsBefore(n) \/ BindingOnly(n, s, r)

\* After CreateRole: the Role is copied, or noted for a reason.
Halfway(n, s, r, noted) ==
    \/ noted = {} /\ Writable(n) /\ RoleOnly(n, s, r)
    \/ /\ noted = {r} /\ allowSubset /\ Readable(n) /\ AsBefore(n)
       /\ ~Writable(n) \/ spent["fault"] > 0

Stage(n, s, r) ==
    LET w == <<n, s>>
    IN  /\ at[w] \in {"list", "managed", "role"} =>
              AsBefore(n) /\ errs[n] = 0 /\ reported[n] = {} /\ found[w] = {}
        /\ at[w] = "report" => errs[n] = 0 /\ reported[n] = {} /\ Halfway(n, s, r, found[w])
        /\ at[w] = "binding" => errs[n] = 0 /\ Halfway(n, s, r, reported[n])
        /\ at[w] = "bound" =>
              errs[n] = 0 /\ (Both(n, s, r) \/ (allowSubset /\ Short(n, s, r)))
        /\ at[w] = "error" => Short(n, s, r)
        /\ at[w] = "done" => \/ Both(n, s, r) /\ errs[n] = 0
                             \/ Short(n, s, r) /\ (allowSubset \/ errs[n] > 0)

LoneInv == \A n \in Ns, s \in Sa, r \in RoleName : Lone(s, r) => Stage(n, s, r)

\* The names of projected objects tell Roles and accounts apart.
NamesApart == \A p, q \in RoleName \X Sa : NameOf[p] = NameOf[q] => p = q

GoroutinesInv ==
    /\ ListsInv /\ CappedInv /\ ReportedInv /\ OuterInv /\ NotedInv /\ LoneInv
    /\ NamesApart => CopiedInv /\ BoundInv
=============================================================================
