---------------------------- MODULE StatusHistory ----------------------------
(***************************************************************************)
(* Who writes the status of one NamespaceScope: Reconcile three times      *)
(* (validated members, unprojected Roles, the outcome with its history),   *)
(* each time a whole status under the resourceVersion of a copy; the CSV   *)
(* controller, a patch of its own fields without one; users the spec       *)
(* beside it.  The copies come from the informer.  An outcome that cannot  *)
(* be written is logged and forgotten.                                     *)
(***************************************************************************)
EXTENDS Naturals, Sequences

CONSTANTS
    MaxHistory,     \* 3 entries in status.reconcileHistory
    MaxTiming,      \* 5 entries in status.operationTiming
    MaxReconciles,  \* bound on reconciles
    MaxEdits,       \* bound on writes of others
    MaxFaults       \* bound on failing API calls and crashes

ASSUME HistoryOK ==
    MaxReconciles \in Nat /\ MaxTiming \in Nat /\ MaxHistory \in 1..MaxTiming

VARIABLES
    stored,     \* the object: version, spec flag, status
    cached,     \* the informer's copy
    inst,       \* the instance Reconcile works on
    wanted,     \* the members that would validate now
    projectable,\* every Role can be projected now
    pc,         \* place in Reconcile
    missing,    \* unprojected Roles the push returned
    number,     \* reconciles so far
    last,       \* outcome of the last one that ended
    queued, timer, \* the key is due; it will be in 60 seconds
    spent       \* steps used of each bound

vars == <<stored, cached, inst, wanted, projectable, pc, missing, number, last,
          queued, timer, spent>>

-----------------------------------------------------------------------------
(* Helpers                                                                 *)

Spend(kind, max) == spent[kind] < max /\ spent' = [spent EXCEPT ![kind] = @ + 1]

\* Variant of Current: no resourceVersion is compared.
CurrentAlways(copy) == TRUE

\* The API server takes an Update only of the latest version.
Current(copy) == copy.rev = stored.rev

\* A write of this object; the informer's copy, and with it the key in the queue,
\* comes with CatchUp.
Store(obj) ==
    stored' = [obj EXCEPT !.rev = stored.rev + 1] /\ UNCHANGED <<cached, queued>>

\* Variant of Prepend: the oldest entries are kept.
PrependOldest(entry, s, max) ==
    IF Len(s) < max THEN <<entry>> \o s ELSE s

\* Variant of Prepend: cut one too late.
PrependOneMore(entry, s, max) ==
    IF Len(s) <= max THEN <<entry>> \o s ELSE <<entry>> \o SubSeq(s, 1, max)

\* The newest entry first, no more than max of them.
Prepend(entry, s, max) ==
    IF Len(s) < max THEN <<entry>> \o s ELSE <<entry>> \o SubSeq(s, 1, max - 1)

GoTo(where) == pc' = where
Unchanged == UNCHANGED <<wanted, projectable>>

-----------------------------------------------------------------------------
(* Reconcile                                                               *)

Start ==
    /\ pc = "idle" /\ queued /\ number < MaxReconciles
    /\ number' = number + 1 /\ queued' = FALSE /\ inst' = cached
    /\ GoTo("updateStatus") /\ missing' = FALSE
    /\ UNCHANGED <<stored, cached, last, timer, spent>> /\ Unchanged

\* A status write through `inst`, whose answer it becomes; a conflict is an error.
Writes(obj, next) ==
    \/ Current(inst) /\ Store(obj) /\ inst' = stored' /\ GoTo(next)
    \/ ~Current(inst) /\ GoTo("failed") /\ UNCHANGED <<stored, cached, queued, inst>>

UpdateStatus ==
    /\ pc = "updateStatus"
    /\ IF inst.members # wanted THEN Writes([inst EXCEPT !.members = wanted], "push")
       ELSE GoTo("push") /\ UNCHANGED <<stored, cached, queued, inst>>
    /\ UNCHANGED <<missing, number, last, timer, spent>> /\ Unchanged

\* PushRbacToNamespace: what cannot be projected is returned or fails the call.
Push ==
    /\ pc = "push" /\ missing' = (~projectable /\ inst.subset)
    /\ GoTo(IF projectable \/ inst.subset THEN "unprojected" ELSE "failed")
    /\ UNCHANGED <<stored, cached, queued, inst, number, last, timer, spent>> /\ Unchanged

\* Variant of UpdateUnprojected: only with allowSubsetProjection.
UpdateUnprojectedIfAsked ==
    /\ pc = "unprojected"
    /\ IF inst.subset /\ inst.unprojected # missing
       THEN Writes([inst EXCEPT !.unprojected = missing], "completed")
       ELSE GoTo("completed") /\ UNCHANGED <<stored, cached, queued, inst>>
    /\ UNCHANGED <<missing, number, last, timer, spent>> /\ Unchanged

\* UpdateUnprojectedRolesStatus; what follows does not touch the status.
UpdateUnprojected ==
    /\ pc = "unprojected"
    /\ IF inst.unprojected # missing
       THEN Writes([inst EXCEPT !.unprojected = missing], "completed")
       ELSE GoTo("completed") /\ UNCHANGED <<stored, cached, queued, inst>>
    /\ UNCHANGED <<missing, number, last, timer, spent>> /\ Unchanged

\* What is recorded; a runtime Role that fails is a failure, though no error is
\* returned and the key comes back as after a success.
verdict == IF pc = "completed" THEN "completed" ELSE "failed"

\* recordOperationTimingAndStatus: read again from the informer, updated, and
\* forgotten if that is refused.
Record ==
    /\ pc \in {"failed", "runtimeFailed", "completed"}
    /\ LET entry == <<number, verdict>>
           new == [cached EXCEPT !.phase = verdict,
                      !.history = Prepend(entry, @, MaxHistory),
                      !.timing = Prepend(entry, @, MaxTiming)]
       IN  \/ /\ Current(cached) /\ stored' = [new EXCEPT !.rev = stored.rev + 1]
              /\ UNCHANGED spent
           \/ ~Current(cached) /\ UNCHANGED <<stored, spent>>
           \/ Spend("fault", MaxFaults) /\ UNCHANGED stored
    /\ last' = verdict /\ GoTo("idle")
    /\ timer' = (timer \/ pc # "failed") /\ queued' = (queued \/ pc = "failed")
    /\ UNCHANGED <<cached, inst, missing, number>> /\ Unchanged

\* Any other call fails, or the process dies and starts anew.
CallFails ==
    /\ pc \in {"updateStatus", "push", "unprojected", "completed"}
    /\ Spend("fault", MaxFaults)
    /\ GoTo("failed") \/ (pc = "completed" /\ GoTo("runtimeFailed"))
    /\ UNCHANGED <<stored, cached, inst, missing, number, last, queued, timer>> /\ Unchanged

Crash ==
    /\ pc # "idle" /\ Spend("fault", MaxFaults) /\ GoTo("idle")
    /\ cached' = stored /\ queued' = TRUE /\ timer' = FALSE /\ last' = "none"
    /\ UNCHANGED <<stored, inst, missing, number>> /\ Unchanged

TimerFires ==
    /\ timer /\ timer' = FALSE /\ queued' = TRUE
    /\ UNCHANGED <<stored, cached, inst, pc, missing, number, last, spent>> /\ Unchanged

-----------------------------------------------------------------------------
(* Others                                                                  *)

CatchUp ==
    /\ cached # stored /\ cached' = stored /\ queued' = TRUE
    /\ UNCHANGED <<stored, inst, pc, missing, number, last, timer, spent>> /\ Unchanged

Other == Spend("edit", MaxEdits) /\ UNCHANGED <<inst, pc, missing, number, last, timer>>

\* CheckListDifference of the CSV controller: a merge patch, without a version.
CsvPatches == Other /\ Store([stored EXCEPT !.csvLists = 1 - @]) /\ Unchanged

\* A user changes allowSubsetProjection.
UserEdits == Other /\ Store([stored EXCEPT !.subset = ~@]) /\ Unchanged

ClusterChanges ==
    /\ Other /\ wanted' \in {wanted, 1 - wanted} /\ projectable' \in BOOLEAN
    /\ UNCHANGED <<stored, cached, queued>>

Init ==
    /\ stored = [rev |-> 0, subset |-> TRUE, members |-> 0, unprojected |-> FALSE,
                 csvLists |-> 0, phase |-> "none", history |-> <<>>, timing |-> <<>>]
    /\ cached = stored /\ inst = stored /\ wanted = 1 /\ projectable \in BOOLEAN
    /\ pc = "idle" /\ missing = FALSE /\ number = 0 /\ last = "none"
    /\ queued = TRUE /\ timer = FALSE /\ spent = [k \in {"edit", "fault"} |-> 0]

Next ==
    \/ Start \/ UpdateStatus \/ Push \/ UpdateUnprojected \/ Record
    \/ CallFails \/ Crash \/ TimerFires \/ CatchUp
    \/ CsvPatches \/ UserEdits \/ ClusterChanges

Spec == Init /\ [][Next]_vars

-----------------------------------------------------------------------------
(* Properties                                                              *)

Outcome == {"failed", "completed"}
Object == [rev: Nat, subset: BOOLEAN, members: {0, 1}, unprojected: BOOLEAN,
           csvLists: {0, 1}, phase: Outcome \cup {"none"},
           history: Seq((1..MaxReconciles) \X Outcome),
           timing: Seq((1..MaxReconciles) \X Outcome)]

\* The object has its type in every copy, no copy is ahead of it, and its lists
\* are no longer than the API promises.
TypeOK ==
    /\ stored \in Object /\ cached \in Object /\ inst \in Object
    /\ cached.rev <= stored.rev /\ inst.rev <= stored.rev
    /\ Len(stored.history) <= MaxHistory /\ Len(stored.timing) <= MaxTiming
    /\ pc \in {"idle", "updateStatus", "push", "unprojected", "runtimeFailed"} \cup Outcome

\* status, reconcileHistory and operationTiming tell one story whatever copies
\* they were made from: newest first, each reconcile at most once, the history
\* is the head of the timing and the status its first entry.
OneStory ==
    LET t == stored.timing
    IN  /\ \A i \in 1..Len(t) - 1 : t[i][1] > t[i + 1][1]
        /\ Len(stored.history) = IF Len(t) < MaxHistory THEN Len(t) ELSE MaxHistory
        /\ \A i \in 1..Len(stored.history) : stored.history[i] = t[i]
        /\ stored.phase = IF t = <<>> THEN "none" ELSE t[1][2]

\* Whatever copy Reconcile writes the status from, it undoes neither the lists of
\* the CSV controller nor an outcome that is already there; only the oldest
\* entry may fall off.
NothingUndone ==
    [][/\ stored'.csvLists # stored.csvLists => CsvPatches
       /\ stored'.timing # stored.timing =>
             \A i \in 1..Len(stored.timing) :
                 i < MaxTiming => stored'.timing[i + 1] = stored.timing[i]]_vars

\* "Only populated when AllowSubsetProjection is enabled": a reconcile that read
\* the flag off and completed leaves no unprojected Roles.
CompletedMeansCleared ==
    pc = "idle" /\ last = "completed" /\ ~inst.subset => ~stored.unprojected
=============================================================================
