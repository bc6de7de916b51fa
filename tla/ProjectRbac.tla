----------------------------- MODULE ProjectRbac -----------------------------
(***************************************************************************)
(* PushRbacToNamespace from inside: one goroutine for each validated       *)
(* member (generateRBACToNamespace), in each of them one goroutine for     *)
(* each service account (CreateRole, then CreateRoleBinding, over a list   *)
(* of Roles in no particular order), errors and unprojected Roles coming   *)
(* back through two levels of buffered channels.  Every API call is a step *)
(* of its own, the administrators change Roles and permissions between     *)
(* them, and the reconcile loop calls again.                               *)
(*                                                                         *)
(* NamespaceScope.Push stands for what happens here in one namespace, with *)
(* one service account and one Role; RulesFilter says which rules of a     *)
(* Role are copied.                                                        *)
(***************************************************************************)
EXTENDS RulesFilter, Naturals, Sequences, FiniteSets, SequencesExt

CONSTANTS
    Ns,             \* validated members other than the operator's namespace
    Sa,             \* service accounts
    RoleName,       \* names of Roles in the operator's namespace
    RulesOf,        \* the rules of each
    ManagedRules,   \* the rules of the managed Roles
    ObjectName,     \* names of projected objects
    NameOf,         \* the name made of Role, service account and namespace
    StartBound,     \* the Roles that may be bound to each account at first
    None,           \* no such object
    MaxPushes,      \* bound on the calls of PushRbacToNamespace
    MaxEdits,       \* bound on the steps of the administrators
    MaxFaults       \* bound on failing API calls

ASSUME ProjectOK ==
    /\ NameOf \in [RoleName \X Sa -> ObjectName]
    /\ RulesOf \in [RoleName -> SUBSET Rule] /\ ManagedRules \subseteq Rule
    /\ StartBound \subseteq [Sa -> SUBSET RoleName]
    /\ None \notin RoleName \X Sa \X SUBSET Rule
    /\ IsFiniteSet(Sa) /\ IsFiniteSet(Ns) /\ IsFiniteSet(RoleName)

Worker == Ns \X Sa      \* the inner goroutines
NsOf(w) == w[1]
SaOf(w) == w[2]

VARIABLES
    bound,      \* in the operator's namespace: Roles bound to each account
    source,     \* the Roles that exist there
    access,     \* what the operator may do in each namespace
    roles,      \* projected Roles by name: whose copy, for whom, the rules
    bindings,   \* names of the projected RoleBindings
    allowSubset,\* spec.allowSubsetProjection, as this call was given it
    accounts,   \* saNames: the accounts this call works for
    at,         \* where each inner goroutine is
    list,       \* roleList of each inner goroutine
    i,          \* its place in the running loop
    capped,     \* it found the managed Role
    found,      \* unprojectedRoles of its CreateRole
    lost,       \* inner goroutines whose error was dropped
    errs,       \* length of each namespace's errorChannel
    notes,      \* length of each namespace's unprojectedChannel
    reported,   \* what the latter holds
    outer,      \* where each outer goroutine is
    outErrs,    \* length of PushRbacToNamespace's errorChannel
    outNotes,   \* length of its unprojectedChannel
    outReported,\* what the latter holds
    phase,      \* "resting" or "pushing"
    result,     \* what the last call returned
    calm,       \* no administrator interfered since that call began
    before,     \* the projected objects when it began
    spent       \* steps used of each bound

adminVars == <<bound, source, access>>
objectVars == <<roles, bindings>>
innerVars == <<at, list, i, capped, found, lost>>
channelVars == <<errs, notes, reported>>
outerVars == <<outer, outErrs, outNotes, outReported>>
callVars == <<allowSubset, accounts, phase, result, before>>
vars == <<adminVars, objectVars, innerVars, channelVars, outerVars, callVars,
          calm, spent>>

-----------------------------------------------------------------------------
(* Helpers                                                                 *)

Spend(kind, max) == spent[kind] < max /\ spent' = [spent EXCEPT ![kind] = @ + 1]
Fault == Spend("fault", MaxFaults)

\* Variant of the capacities: a channel with one slot.
OneSlot == 1

\* make(chan error, len(saNames)), make(chan []string, len(saNames))
innerCap == Cardinality(accounts)

\* make(chan error, len(ValidatedMembers)), make(chan []string, ...)
outerCap == Cardinality(Ns)

\* The operator's rights in a namespace: "open"; "unmanaged", the managed Role
\* is not there but others let it write; "terminating", new objects are
\* refused; "closed", it may not even read.
Readable(n) == access[n] # "closed"
Writable(n) == access[n] \in {"open", "unmanaged"}

\* The Role and the account an inner goroutine is at, and the object's name.
Here(w) == <<list[w][i[w]], SaOf(w)>>

GoTo(w, where) == at' = [at EXCEPT ![w] = where]

\* Next Role of the loop, or what comes after it.
Advance(w, after) ==
    IF i[w] < Len(list[w])
    THEN i' = [i EXCEPT ![w] = @ + 1] /\ UNCHANGED at
    ELSE i' = [i EXCEPT ![w] = 1] /\ GoTo(w, after)

-----------------------------------------------------------------------------
(* The call                                                                *)

\* Variant of MakeChannels: the channels of the last call are used again.
ReuseChannels == UNCHANGED <<errs, notes, reported>>

\* generateRBACToNamespace makes its channels anew.
MakeChannels ==
    /\ errs' = [n \in Ns |-> 0] /\ notes' = [n \in Ns |-> 0]
    /\ reported' = [n \in Ns |-> {}]

\* PushRbacToNamespace up to the fan-out; which accounts it works for depends on
\* the pods it finds.
Begin ==
    /\ phase = "resting" /\ Spend("push", MaxPushes)
    /\ phase' = "pushing" /\ calm' = TRUE /\ result' = None
    /\ allowSubset' \in BOOLEAN
    /\ accounts' \in {Sa} \cup {{s} : s \in Sa}
    /\ at' = [w \in Worker |-> IF SaOf(w) \in accounts' THEN "list" ELSE "done"]
    /\ list' = [w \in Worker |-> <<>>] /\ i' = [w \in Worker |-> 1]
    /\ capped' = [w \in Worker |-> FALSE]
    /\ found' = [w \in Worker |-> {}] /\ lost' = {}
    /\ MakeChannels
    /\ outer' = [n \in Ns |-> "waiting"]
    /\ outErrs' = 0 /\ outNotes' = 0 /\ outReported' = {}
    /\ before' = [roles |-> roles, bindings |-> bindings]
    /\ UNCHANGED <<adminVars, objectVars>>

\* Variant of Errs: Forbidden is dropped whatever the scope asks for.
ErrsDropped(w, forbidden) ==
    IF forbidden
    THEN GoTo(w, "done") /\ lost' = lost \cup {w}
    ELSE GoTo(w, "error") /\ UNCHANGED lost

\* An inner goroutine's error, on its way to the channel; a Forbidden one is
\* dropped with allowSubsetProjection.
Errs(w, forbidden) ==
    IF forbidden /\ allowSubset
    THEN GoTo(w, "done") /\ lost' = lost \cup {w}
    ELSE GoTo(w, "error") /\ UNCHANGED lost

\* GetRolesFromServiceAccount: the Roles bound to the account, in the random
\* order of a Go map, or an error.
ListRoles(w) ==
    /\ at[w] = "list"
    /\ \/ /\ \E l \in SetToSeqs(bound[SaOf(w)]) : list' = [list EXCEPT ![w] = l]
          /\ GoTo(w, "managed") /\ UNCHANGED <<lost, spent>>
       \/ Fault /\ Errs(w, FALSE) /\ UNCHANGED list
    /\ UNCHANGED <<i, capped, found>>

\* CreateRole reads the managed Role; without one, wildcards match nothing.
ReadManaged(w) ==
    /\ at[w] = "managed"
    /\ \/ /\ Readable(NsOf(w))
          /\ capped' = [capped EXCEPT ![w] = access[NsOf(w)] # "unmanaged"]
          /\ GoTo(w, IF list[w] = <<>> THEN "bound" ELSE "role")
          /\ UNCHANGED <<lost, spent>>
       \/ ~Readable(NsOf(w)) /\ Errs(w, TRUE) /\ UNCHANGED <<capped, spent>>
       \/ Fault /\ Errs(w, FALSE) /\ UNCHANGED capped
    /\ UNCHANGED <<list, i, found>>

\* Variant of Note: the Role is skipped in silence.
NoteForgotten(w) == Advance(w, "report") /\ UNCHANGED <<found, lost, roles>>

\* With allowSubsetProjection a Role that cannot be copied is noted and skipped.
Note(w) ==
    /\ found' = [found EXCEPT ![w] = @ \cup {Here(w)[1]}]
    /\ Advance(w, "report") /\ UNCHANGED <<lost, roles>>

\* What rulesFilter makes of a Role, with or without the managed Role.
Copy == [p \in RoleName \X BOOLEAN |->
            rulesFilter(RulesOf[p[1]], IF p[2] THEN ManagedRules ELSE {})]

\* CreateRole, one Role of the list: read, filtered, created or overwritten.
CopyRole(w) ==
    /\ at[w] = "role"
    /\ LET r == Here(w)[1]
           rules == Copy[<<r, capped[w]>>]
           canProject == rules # {}
       IN  \/ /\ r \notin source
              /\ IF allowSubset THEN Note(w)
                 ELSE Advance(w, "report") /\ UNCHANGED <<found, lost, roles>>
              /\ UNCHANGED spent
           \/ /\ r \in source /\ (~canProject \/ ~Writable(NsOf(w)))
              /\ IF allowSubset THEN Note(w)
                 ELSE Errs(w, FALSE) /\ UNCHANGED <<i, found, roles>>
              /\ UNCHANGED spent
           \/ /\ Fault
              /\ IF allowSubset THEN Note(w)
                 ELSE Errs(w, FALSE) /\ UNCHANGED <<i, found, roles>>
           \/ /\ r \in source /\ canProject /\ Writable(NsOf(w))
              /\ roles' = [roles EXCEPT ![NsOf(w)][NameOf[Here(w)]] = <<r, SaOf(w), rules>>]
              /\ Advance(w, "report") /\ UNCHANGED <<found, lost, spent>>
    /\ UNCHANGED <<list, capped>>

\* unprojectedChannel <- unprojected
Report(w) ==
    /\ at[w] = "report" /\ (found[w] # {} => notes[NsOf(w)] < innerCap)
    /\ IF found[w] = {} THEN UNCHANGED <<notes, reported>>
       ELSE /\ notes' = [notes EXCEPT ![NsOf(w)] = @ + 1]
            /\ reported' = [reported EXCEPT ![NsOf(w)] = @ \cup found[w]]
    /\ GoTo(w, "binding")
    /\ UNCHANGED <<list, i, capped, found, lost, errs>>

\* CreateRoleBinding, one Role of the list; the first RoleBinding that exists
\* ends it without an error.
BindRole(w) ==
    /\ at[w] = "binding"
    /\ LET n == NsOf(w)
           name == NameOf[Here(w)]
       IN  \/ /\ Writable(n) /\ name \in bindings[n]
              /\ GoTo(w, "bound") /\ UNCHANGED <<i, lost, bindings, spent>>
           \/ /\ Writable(n) /\ name \notin bindings[n]
              /\ bindings' = [bindings EXCEPT ![n] = @ \cup {name}]
              /\ Advance(w, "bound") /\ UNCHANGED <<lost, spent>>
           \/ ~Writable(n) /\ Errs(w, TRUE) /\ UNCHANGED <<i, bindings, spent>>
           \/ Fault /\ Errs(w, FALSE) /\ UNCHANGED <<i, bindings>>
    /\ UNCHANGED <<list, capped, found>>

\* errorChannel <- err, or the goroutine's return
Leave(w) ==
    /\ \/ at[w] = "bound" /\ UNCHANGED errs
       \/ /\ at[w] = "error" /\ errs[NsOf(w)] < innerCap
          /\ errs' = [errs EXCEPT ![NsOf(w)] = @ + 1]
    /\ GoTo(w, "done")
    /\ UNCHANGED <<list, i, capped, found, lost, notes, reported>>

\* One step of an inner goroutine.
Inner(w) ==
    /\ \/ (ListRoles(w) \/ ReadManaged(w)) /\ UNCHANGED <<objectVars, channelVars>>
       \/ CopyRole(w) /\ UNCHANGED <<bindings, channelVars>>
       \/ BindRole(w) /\ UNCHANGED <<roles, channelVars>>
       \/ (Report(w) \/ Leave(w)) /\ UNCHANGED <<objectVars, spent>>
    /\ UNCHANGED <<adminVars, outerVars, callVars, calm>>

\* Variant of InnerDone: the outer goroutine does not wait.
InnerAtWork(n) == \E s \in accounts : at[<<n, s>>] = "done"

\* wg.Wait in generateRBACToNamespace
InnerDone(n) == \A s \in accounts : at[<<n, s>>] = "done"

\* generateRBACToNamespace returns to the outer goroutine, which sends its
\* error, or (with allowSubsetProjection instead) the unprojected Roles.
Collect(n) ==
    /\ outer[n] = "waiting" /\ InnerDone(n)
    /\ LET failed == errs[n] > 0 /\ ~allowSubset
       IN  \/ /\ failed /\ outErrs < outerCap
              /\ outErrs' = outErrs + 1 /\ UNCHANGED <<outNotes, outReported>>
           \/ /\ ~failed /\ notes[n] > 0 /\ outNotes < outerCap
              /\ outNotes' = outNotes + 1
              /\ outReported' = outReported \cup {<<n, r>> : r \in reported[n]}
              /\ UNCHANGED outErrs
           \/ ~failed /\ notes[n] = 0 /\ UNCHANGED <<outErrs, outNotes, outReported>>
    /\ outer' = [outer EXCEPT ![n] = "done"]
    /\ UNCHANGED <<adminVars, objectVars, innerVars, channelVars, callVars, calm, spent>>

\* wg.Wait in PushRbacToNamespace, and what it returns.
Return ==
    /\ phase = "pushing" /\ \A n \in Ns : outer[n] = "done"
    /\ phase' = "resting"
    /\ result' = [failed |-> outErrs > 0, unprojected |-> outReported]
    /\ UNCHANGED <<adminVars, objectVars, innerVars, channelVars, outerVars,
                   allowSubset, accounts, before, calm, spent>>

-----------------------------------------------------------------------------
(* Administrators, other scopes                                            *)

Interferes ==
    /\ Spend("edit", MaxEdits) /\ calm' = FALSE
    /\ UNCHANGED <<innerVars, channelVars, outerVars, callVars>>

\* A RoleBinding or a Role of the operator's namespace comes or goes.
Rebind(s, r) ==
    /\ Interferes
    /\ bound' = [bound EXCEPT ![s] = (@ \ {r}) \cup ({r} \ @)]
    /\ UNCHANGED <<source, access, objectVars>>

ChangeRole(r) ==
    /\ Interferes
    /\ source' = (source \ {r}) \cup ({r} \ source)
    /\ UNCHANGED <<bound, access, objectVars>>

\* authorize-namespace.sh, or a namespace that begins to terminate.
ChangeAccess(n) ==
    /\ Interferes
    /\ \E a \in {"open", "unmanaged", "terminating", "closed"} \ {access[n]} :
          access' = [access EXCEPT ![n] = a]
    /\ UNCHANGED <<bound, source, objectVars>>

\* Another reconcile withdrew everything, or an administrator did.
Emptied(n) ==
    /\ Interferes
    /\ roles' = [roles EXCEPT ![n] = [o \in ObjectName |-> None]]
    /\ bindings' = [bindings EXCEPT ![n] = {}]
    /\ UNCHANGED adminVars

-----------------------------------------------------------------------------
Init ==
    /\ bound \in StartBound /\ source = RoleName
    /\ access = [n \in Ns |-> "open"]
    /\ roles = [n \in Ns |-> [o \in ObjectName |-> None]]
    /\ bindings = [n \in Ns |-> {}]
    /\ allowSubset = FALSE /\ accounts = {} /\ phase = "resting" /\ result = None /\ calm = FALSE
    /\ before = [roles |-> roles, bindings |-> bindings]
    /\ at = [w \in Worker |-> "done"] /\ list = [w \in Worker |-> <<>>]
    /\ i = [w \in Worker |-> 1] /\ capped = [w \in Worker |-> FALSE]
    /\ found = [w \in Worker |-> {}] /\ lost = {}
    /\ errs = [n \in Ns |-> 0] /\ notes = errs /\ reported = [n \in Ns |-> {}]
    /\ outer = [n \in Ns |-> "done"]
    /\ outErrs = 0 /\ outNotes = 0 /\ outReported = {}
    /\ spent = [k \in {"push", "edit", "fault"} |-> 0]

Call ==
    \/ \E w \in Worker : Inner(w)
    \/ \E n \in Ns : Collect(n)
    \/ Return

Next ==
    \/ Begin \/ Call
    \/ \E s \in Sa, r \in RoleName : Rebind(s, r)
    \/ \E r \in RoleName : ChangeRole(r)
    \/ \E n \in Ns : ChangeAccess(n) \/ Emptied(n)

Spec == Init /\ [][Next]_vars

\* The Go scheduler runs every goroutine that can run.
FairSpec == Spec /\ WF_vars(Call)

-----------------------------------------------------------------------------
(* Properties                                                              *)

\* Every variable holds what the code can put there, and no channel more than
\* it was made for.
TypeOK ==
    /\ bound \in [Sa -> SUBSET RoleName] /\ source \subseteq RoleName
    /\ access \in [Ns -> {"open", "unmanaged", "terminating", "closed"}]
    /\ roles \in [Ns -> [ObjectName -> (RoleName \X Sa \X SUBSET Rule) \cup {None}]]
    /\ bindings \in [Ns -> SUBSET ObjectName]
    /\ at \in [Worker -> {"list", "managed", "role", "report", "binding", "bound",
                          "error", "done"}]
    /\ \A n \in Ns : errs[n] \in 0..innerCap /\ notes[n] \in 0..innerCap
    /\ outErrs \in 0..outerCap /\ outNotes \in 0..outerCap
    /\ lost \subseteq Worker /\ allowSubset \in BOOLEAN /\ phase \in {"resting", "pushing"}

\* No goroutine is ever stuck at a full channel: wg.Wait would wait for ever,
\* and the only worker of the operator with it.
NobodyBlocks ==
    /\ \A w \in Worker :
          /\ at[w] = "error" => errs[NsOf(w)] < innerCap
          /\ at[w] = "report" => notes[NsOf(w)] < innerCap
    /\ \A n \in Ns : outer[n] = "waiting" => outErrs < outerCap /\ outNotes < outerCap

\* Every call of PushRbacToNamespace returns.
PushReturns == (phase = "pushing") ~> (phase = "resting")

Quiet == phase = "resting" /\ result # None /\ calm

\* Without allowSubsetProjection, a call that reports no error and was not
\* disturbed has left every Role bound to every account in every namespace,
\* under its own name and with the rules that the operator's permissions there
\* allow; in particular no goroutine's error is lost on its way
\* through the channels, and none is still at work.
SuccessMeansCopied ==
    Quiet /\ ~allowSubset /\ ~result.failed =>
        \A w \in Ns \X accounts : \A r \in bound[SaOf(w)] \cap source :
            roles[NsOf(w)][NameOf[<<r, SaOf(w)>>]] =
                <<r, SaOf(w), Copy[<<r, access[NsOf(w)] = "open">>]>>

\* ... and bound it, in a namespace that held no RoleBinding before.
SuccessMeansBoundFromScratch ==
    Quiet /\ ~allowSubset /\ ~result.failed =>
        \A w \in {n \in Ns : before.bindings[n] = {}} \X accounts : \A r \in bound[SaOf(w)] :
            NameOf[<<r, SaOf(w)>>] \in bindings[NsOf(w)]

\* The requests each Role should still grant once it is copied, with and without
\* the managed Role.
Meant == [p \in RoleName \X BOOLEAN |->
             meant(RulesOf[p[1]], IF p[2] THEN ManagedRules ELSE {})]

\* Whatever the goroutines and the administrators did, a projected Role grants
\* exactly the requests its source Role grants by name or, by wildcard, within
\* the managed Role the operator found (if any): no right is lost or gained.
CopiesGrantExactly ==
    \A n \in Ns, o \in ObjectName : roles[n][o] # None =>
        LET r == roles[n][o][1]
        IN  granted(roles[n][o][3]) \in {Meant[<<r, TRUE>>], Meant[<<r, FALSE>>]}

\* canProject: no Role is projected whose copy grants nothing.
CopiesGrantSomething ==
    \A n \in Ns, o \in ObjectName : roles[n][o] # None => granted(roles[n][o][3]) # {}

\* With allowSubsetProjection every Role that was not copied is in the answer,
\* unless its goroutine's error was dropped (Forbidden at the managed Role or
\* at a RoleBinding) or logged (errs).
SubsetReports ==
    Quiet /\ allowSubset =>
        \A w \in (Ns \X accounts) \ lost : errs[NsOf(w)] = 0 =>
            \A r \in bound[SaOf(w)] :
                \/ roles[NsOf(w)][NameOf[<<r, SaOf(w)>>]] # None
                \/ <<NsOf(w), r>> \in result.unprojected

\* The outcomes NamespaceScope.Push has in one namespace: both objects; nothing
\* and an error or, where the managed Role can be read, a report; after a failing
\* call nothing or only one of them.
PushOutcome(n, s, r) ==
    LET name == NameOf[<<r, s>>]
        failed == allowSubset \/ errs[n] > 0
        noted == reported[n] = {r}
        unchanged == roles[n] = before.roles[n] /\ bindings[n] = before.bindings[n]
        bindingOnly == /\ roles[n] = before.roles[n]
                       /\ bindings[n] = before.bindings[n] \cup {name}
        roleOnly == roles[n][name] # None /\ bindings[n] = before.bindings[n]
    IN  \/ /\ Writable(n) /\ roles[n][name] # None /\ name \in bindings[n]
           /\ errs[n] = 0 /\ ~noted
        \/ ~Writable(n) /\ unchanged /\ failed /\ noted = (allowSubset /\ Readable(n))
        \/ /\ spent["fault"] > 0 /\ failed
           /\ \/ unchanged /\ ~noted
              \/ Writable(n) /\ roleOnly /\ ~noted
              \/ Writable(n) /\ allowSubset /\ (bindingOnly \/ unchanged) /\ noted

\* What NamespaceScope.Push says of one namespace, with one account and one Role
\* that can be copied without the managed Role.
PushesAsAbstracted ==
    \A n \in Ns, s \in Sa, r \in RoleName :
        accounts = {s} /\ phase = "pushing" /\ outer[n] = "done" /\ calm
          /\ bound[s] = {r} /\ r \in source /\ Copy[<<r, FALSE>>] # {} =>
        PushOutcome(n, s, r)

\* "Create role/rolebinding with service accounts from the pods who have label
\* selector restartLabels": the same as SuccessMeansBoundFromScratch, of every
\* namespace.
SuccessMeansBound ==
    Quiet /\ ~allowSubset /\ ~result.failed =>
        \A w \in Ns \X accounts : \A r \in bound[SaOf(w)] :
            NameOf[<<r, SaOf(w)>>] \in bindings[NsOf(w)]
=============================================================================
