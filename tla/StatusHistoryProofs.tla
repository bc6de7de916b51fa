------------------------ MODULE StatusHistoryProofs ------------------------
(***************************************************************************)
(* The status, its history and its timing tell one story, for lists of any *)
(* length and any number of reconciles, writes of others and faults.       *)
(***************************************************************************)
EXTENDS StatusHistory, SequenceTheorems, TLAPS

Entry == (1..MaxReconciles) \X Outcome

\* A copy with the latest version is the latest object: no write leaves the
\* version alone.
CopiesInv ==
    /\ Current(cached) => cached = stored
    /\ Current(inst) => inst = stored

\* What the worker counts and decides on has its type.
WorkInv ==
    /\ number \in 0..MaxReconciles /\ (pc # "idle" => number > 0)
    /\ wanted \in {0, 1} /\ missing \in BOOLEAN /\ projectable \in BOOLEAN

\* The outcome of the running reconcile is not in the timing yet.
NumbersInv ==
    stored.timing # <<>> =>
        /\ stored.timing[1][1] <= number
        /\ pc # "idle" => stored.timing[1][1] < number

\* A copy that shows the flag off shows what unprojected Roles there are: they
\* were written for a copy that showed it on.
FlagInv ==
    /\ pc # "idle" /\ Current(inst) => cached.subset = inst.subset
    /\ stored.unprojected /\ ~cached.subset => cached.unprojected
    /\ stored.unprojected /\ ~inst.subset => inst.unprojected
    /\ missing => inst.subset
    /\ pc = "completed" /\ ~inst.subset => ~inst.unprojected

IInv == /\ TypeOK /\ CopiesInv /\ WorkInv /\ NumbersInv /\ OneStory
        /\ FlagInv /\ CompletedMeansCleared

-----------------------------------------------------------------------------
(* The lists                                                               *)

\* Prepend puts the entry first, keeps the order and cuts at max.
LEMMA PrependProperties ==
    ASSUME NEW e \in Entry, NEW s \in Seq(Entry), NEW max \in Nat \ {0}
    PROVE  /\ Prepend(e, s, max) \in Seq(Entry)
           /\ Len(Prepend(e, s, max)) = IF Len(s) < max THEN Len(s) + 1 ELSE max
           /\ Prepend(e, s, max)[1] = e
           /\ \A i \in 1..Len(s) : i < max => Prepend(e, s, max)[i + 1] = s[i]
<1>1. <<e>> \in Seq(Entry) /\ Len(<<e>>) = 1 /\ <<e>>[1] = e /\ Len(s) \in Nat
  BY LenProperties
<1>2. CASE Len(s) < max
  BY <1>1, <1>2, ConcatProperties DEF Prepend
<1>3. CASE ~(Len(s) < max)
  <2> DEFINE r == SubSeq(s, 1, max - 1)
  <2>1. \A i \in 1..max - 1 : s[i] \in Entry
    BY <1>1, <1>3, ElementOfSeq
  <2>2. /\ r \in Seq(Entry) /\ Len(r) = max - 1
        /\ \A i \in 1..max - 1 : r[i] = s[i]
    BY <2>1, SubSeqProperties
  <2>3. Prepend(e, s, max) = <<e>> \o r
    BY <1>3 DEF Prepend
  <2> HIDE DEF r
  <2>4. /\ <<e>> \o r \in Seq(Entry) /\ Len(<<e>> \o r) = max
        /\ \A i \in 1..max : (<<e>> \o r)[i] = IF i <= 1 THEN <<e>>[i] ELSE r[i - 1]
    BY <1>1, <2>2, ConcatProperties
  <2> QED BY <1>1, <1>3, <2>2, <2>3, <2>4
<1> QED BY <1>2, <1>3

\* Both lists after one more outcome: they tell the same story as before.
Story(h, t) ==
    /\ \A k \in 1..Len(t) - 1 : t[k][1] > t[k + 1][1]
    /\ Len(h) = IF Len(t) < MaxHistory THEN Len(t) ELSE MaxHistory
    /\ \A k \in 1..Len(h) : h[k] = t[k]

LEMMA PrependTells ==
    ASSUME NEW e \in Entry, NEW h \in Seq(Entry), NEW t \in Seq(Entry),
           Len(h) <= MaxHistory, Len(t) <= MaxTiming, Story(h, t),
           t # <<>> => t[1][1] < e[1]
    PROVE  LET hh == Prepend(e, h, MaxHistory)
               tt == Prepend(e, t, MaxTiming)
           IN  /\ hh \in Seq(Entry) /\ tt \in Seq(Entry)
               /\ Len(hh) <= MaxHistory /\ Len(tt) <= MaxTiming
               /\ Story(hh, tt) /\ tt # <<>> /\ tt[1] = e
<1>1. /\ MaxHistory \in Nat \ {0} /\ MaxTiming \in Nat \ {0} /\ MaxHistory <= MaxTiming
      /\ Len(h) \in Nat /\ Len(t) \in Nat
  BY HistoryOK, LenProperties
<1> DEFINE hh == Prepend(e, h, MaxHistory)
           tt == Prepend(e, t, MaxTiming)
<1>2. /\ hh \in Seq(Entry) /\ hh[1] = e
      /\ Len(hh) = IF Len(h) < MaxHistory THEN Len(h) + 1 ELSE MaxHistory
      /\ \A k \in 1..Len(h) : k < MaxHistory => hh[k + 1] = h[k]
  <2>1. PICK max \in Nat \ {0} : max = MaxHistory
    BY <1>1
  <2>2. /\ Prepend(e, h, max) \in Seq(Entry) /\ Prepend(e, h, max)[1] = e
        /\ Len(Prepend(e, h, max)) = IF Len(h) < max THEN Len(h) + 1 ELSE max
        /\ \A k \in 1..Len(h) : k < max => Prepend(e, h, max)[k + 1] = h[k]
    BY PrependProperties
  <2> QED BY <2>1, <2>2
<1>3. /\ tt \in Seq(Entry) /\ tt[1] = e
      /\ Len(tt) = IF Len(t) < MaxTiming THEN Len(t) + 1 ELSE MaxTiming
      /\ \A k \in 1..Len(t) : k < MaxTiming => tt[k + 1] = t[k]
  <2>1. PICK max \in Nat \ {0} : max = MaxTiming
    BY <1>1
  <2>2. /\ Prepend(e, t, max) \in Seq(Entry) /\ Prepend(e, t, max)[1] = e
        /\ Len(Prepend(e, t, max)) = IF Len(t) < max THEN Len(t) + 1 ELSE max
        /\ \A k \in 1..Len(t) : k < max => Prepend(e, t, max)[k + 1] = t[k]
    BY PrependProperties
  <2> QED BY <2>1, <2>2
<1> HIDE DEF hh, tt
<1>4. tt # <<>>
  BY <1>1, <1>3, EmptySeq
<1>5. ASSUME NEW k \in 1..Len(tt) - 1 PROVE tt[k][1] > tt[k + 1][1]
  <2>1. CASE k = 1
    <3>1. tt[k + 1] = t[1] /\ 1 \in 1..Len(t)
      BY <1>1, <1>3, <2>1
    <3>2. t # <<>> /\ t[1] \in Entry
      BY <1>1, <3>1, EmptySeq, ElementOfSeq
    <3>3. t[1][1] \in Nat /\ e[1] \in Nat
      BY <3>2, HistoryOK DEF Entry
    <3> QED BY <1>3, <2>1, <3>1, <3>2, <3>3
  <2>2. CASE k > 1
    <3>1. k - 1 \in 1..Len(t) - 1 /\ k - 1 < MaxTiming /\ k \in 1..Len(t) /\ k < MaxTiming
      BY <1>1, <1>3, <2>2
    <3>2. tt[(k - 1) + 1] = t[k - 1] /\ tt[k + 1] = t[k]
      BY <1>1, <1>3, <3>1
    <3>3. t[k - 1][1] > t[(k - 1) + 1][1]
      BY <3>1 DEF Story
    <3> QED BY <3>1, <3>2, <3>3
  <2> QED BY <1>1, <1>3, <2>1, <2>2
<1>6. Len(hh) = IF Len(tt) < MaxHistory THEN Len(tt) ELSE MaxHistory
  BY <1>1, <1>2, <1>3 DEF Story
<1>7. ASSUME NEW k \in 1..Len(hh) PROVE hh[k] = tt[k]
  <2>1. CASE k = 1
    BY <1>2, <1>3, <2>1
  <2>2. CASE k > 1
    <3>1. /\ k - 1 \in 1..Len(h) /\ k - 1 < MaxHistory
          /\ k - 1 \in 1..Len(t) /\ k - 1 < MaxTiming
      BY <1>1, <1>2, <2>2 DEF Story
    <3>2. hh[(k - 1) + 1] = h[k - 1] /\ tt[(k - 1) + 1] = t[k - 1] /\ h[k - 1] = t[k - 1]
      BY <1>2, <1>3, <3>1 DEF Story
    <3> QED BY <2>2, <3>1, <3>2
  <2> QED BY <1>1, <1>2, <2>1, <2>2
<1>8. Len(hh) <= MaxHistory /\ Len(tt) <= MaxTiming
  BY <1>1, <1>2, <1>3
<1>9. Story(hh, tt)
  BY <1>5, <1>6, <1>7 DEF Story
<1> QED BY <1>2, <1>3, <1>4, <1>8, <1>9 DEF hh, tt

-----------------------------------------------------------------------------
(* The writes                                                              *)

\* What a write makes of the object it is made from.
MembersWritten(o, v, r) == [o EXCEPT !.members = v, !.rev = r]
UnprojectedWritten(o, v, r) == [o EXCEPT !.unprojected = v, !.rev = r]
ListsWritten(o, v, r) == [o EXCEPT !.csvLists = v, !.rev = r]
FlagWritten(o, v, r) == [o EXCEPT !.subset = v, !.rev = r]
OutcomeWritten(o, p, h, t, r) ==
    [o EXCEPT !.phase = p, !.history = h, !.timing = t, !.rev = r]

SameLists(o, n) == n.history = o.history /\ n.timing = o.timing /\ n.phase = o.phase

LEMMA WriteMembers ==
    ASSUME NEW o \in Object, NEW v \in {0, 1}, NEW r \in Nat
    PROVE  LET n == MembersWritten(o, v, r)
           IN  /\ n \in Object /\ n.rev = r /\ SameLists(o, n)
               /\ n.unprojected = o.unprojected /\ n.subset = o.subset
               /\ n.csvLists = o.csvLists
BY DEF Object, MembersWritten, SameLists

LEMMA WriteUnprojected ==
    ASSUME NEW o \in Object, NEW v \in BOOLEAN, NEW r \in Nat
    PROVE  LET n == UnprojectedWritten(o, v, r)
           IN  /\ n \in Object /\ n.rev = r /\ SameLists(o, n)
               /\ n.unprojected = v /\ n.subset = o.subset
               /\ n.csvLists = o.csvLists
BY DEF Object, UnprojectedWritten, SameLists

LEMMA WriteLists ==
    ASSUME NEW o \in Object, NEW v \in {0, 1}, NEW r \in Nat
    PROVE  LET n == ListsWritten(o, v, r)
           IN  /\ n \in Object /\ n.rev = r /\ SameLists(o, n)
               /\ n.unprojected = o.unprojected /\ n.subset = o.subset
BY DEF Object, ListsWritten, SameLists

LEMMA WriteFlag ==
    ASSUME NEW o \in Object, NEW v \in BOOLEAN, NEW r \in Nat
    PROVE  LET n == FlagWritten(o, v, r)
           IN  /\ n \in Object /\ n.rev = r /\ SameLists(o, n)
               /\ n.unprojected = o.unprojected /\ n.csvLists = o.csvLists
BY DEF Object, FlagWritten, SameLists

\* What Record stores.
Recorded ==
    OutcomeWritten(stored, verdict, Prepend(<<number, verdict>>, stored.history, MaxHistory),
                   Prepend(<<number, verdict>>, stored.timing, MaxTiming), stored.rev + 1)

\* Every step leaves the object alone or is one of these writes, made from what
\* is stored: a stale copy reaches nothing.
LEMMA StepWrites ==
    ASSUME IInv, [Next]_vars
    PROVE  \/ UNCHANGED stored
           \/ UpdateStatus /\ stored' = MembersWritten(stored, wanted, stored.rev + 1)
           \/ UpdateUnprojected /\ stored' = UnprojectedWritten(stored, missing, stored.rev + 1)
           \/ Record /\ stored' = Recorded
           \/ CsvPatches /\ stored' = ListsWritten(stored, 1 - stored.csvLists, stored.rev + 1)
           \/ UserEdits /\ stored' = FlagWritten(stored, ~stored.subset, stored.rev + 1)
<1> USE DEF IInv, CopiesInv
<1>1. CASE UpdateStatus
  BY <1>1 DEF UpdateStatus, Writes, Store, MembersWritten, TypeOK, Object
<1>2. CASE UpdateUnprojected
  BY <1>2 DEF UpdateUnprojected, Writes, Store, UnprojectedWritten, TypeOK, Object
<1>3. CASE Record
  BY <1>3 DEF Record, Recorded, OutcomeWritten, TypeOK, Object
<1>4. CASE CsvPatches
  BY <1>4 DEF CsvPatches, Store, ListsWritten, TypeOK, Object
<1>5. CASE UserEdits
  BY <1>5 DEF UserEdits, Store, FlagWritten, TypeOK, Object
<1>6. CASE Start \/ Push \/ CallFails \/ Crash \/ TimerFires \/ CatchUp \/ ClusterChanges \/ UNCHANGED vars
  BY <1>6 DEF Start, Push, CallFails, Crash, TimerFires, CatchUp, ClusterChanges, vars
<1> QED BY <1>1, <1>2, <1>3, <1>4, <1>5, <1>6 DEF Next

\* The outcome that Record writes is the latest in both lists.
LEMMA RecordTells ==
    ASSUME IInv, pc # "idle", verdict \in Outcome, NEW n, n = Recorded
    PROVE  /\ n \in Object /\ n.rev = stored.rev + 1 /\ n.phase = verdict
           /\ n.unprojected = stored.unprojected /\ n.subset = stored.subset
           /\ n.csvLists = stored.csvLists
           /\ Len(n.history) <= MaxHistory /\ Len(n.timing) <= MaxTiming
           /\ Story(n.history, n.timing)
           /\ n.timing = Prepend(<<number, verdict>>, stored.timing, MaxTiming)
           /\ n.timing # <<>> /\ n.timing[1] = <<number, verdict>>
<1>1. PICK e \in Entry : e = <<number, verdict>> /\ e[1] = number
  <2>1. number \in 1..MaxReconciles /\ verdict \in Outcome
    BY HistoryOK DEF IInv, WorkInv, Outcome
  <2>2. <<number, verdict>> \in Entry /\ <<number, verdict>>[1] = number
    BY <2>1 DEF Entry
  <2> QED BY <2>2
<1>2. PICK h \in Seq(Entry), t \in Seq(Entry) :
        /\ h = stored.history /\ t = stored.timing /\ stored \in Object
        /\ Len(h) <= MaxHistory /\ Len(t) <= MaxTiming
        /\ Story(h, t) /\ (t # <<>> => t[1][1] < number)
  BY DEF IInv, TypeOK, Object, Entry, OneStory, Story, NumbersInv, Outcome
<1>3. PICK hh \in Seq(Entry), tt \in Seq(Entry) :
        /\ hh = Prepend(e, h, MaxHistory) /\ tt = Prepend(e, t, MaxTiming)
        /\ Len(hh) <= MaxHistory /\ Len(tt) <= MaxTiming
        /\ Story(hh, tt) /\ tt # <<>> /\ tt[1] = e
  <2> DEFINE hh == Prepend(e, h, MaxHistory)
             tt == Prepend(e, t, MaxTiming)
  <2>1. /\ hh \in Seq(Entry) /\ tt \in Seq(Entry)
        /\ Len(hh) <= MaxHistory /\ Len(tt) <= MaxTiming
        /\ Story(hh, tt) /\ tt # <<>> /\ tt[1] = e
    BY <1>1, <1>2, PrependTells
  <2> QED BY <2>1
<1>4. PICK o \in Object, p \in Outcome, r \in Nat : o = stored /\ p = verdict /\ r = stored.rev + 1
  BY <1>2 DEF Object
<1>5. n = OutcomeWritten(o, p, hh, tt, r)
  BY <1>1, <1>2, <1>3, <1>4 DEF Recorded
<1>6. /\ n \in Object /\ n.rev = r /\ n.phase = p /\ n.history = hh /\ n.timing = tt
      /\ n.unprojected = o.unprojected /\ n.subset = o.subset /\ n.csvLists = o.csvLists
  BY <1>5 DEF Object, OutcomeWritten, Entry
<1> QED BY <1>1, <1>2, <1>3, <1>4, <1>6

-----------------------------------------------------------------------------
(* Every step keeps the invariant                                          *)

LEMMA WorkNext == ASSUME IInv, [Next]_vars PROVE WorkInv'
<1> DEFINE Counted == number \in 0..MaxReconciles /\ (pc # "idle" => number > 0) /\ wanted \in {0, 1}
           Known == missing \in BOOLEAN /\ projectable \in BOOLEAN
<1>1. Counted /\ MaxReconciles \in Nat
  BY HistoryOK DEF IInv, WorkInv
<1>2. Known /\ inst.subset \in BOOLEAN
  BY DEF IInv, WorkInv, TypeOK, Object
<1>3. CASE Start
  <2>1. Counted'
    BY <1>1, <1>3 DEF Start, Unchanged
  <2>2. Known'
    BY <1>2, <1>3, Zenon DEF Start, Unchanged
  <2> QED BY <2>1, <2>2, Zenon DEF WorkInv
<1>4. CASE Push
  <2>1. Counted'
    BY <1>1, <1>4 DEF Push, Unchanged
  <2>2. missing' \in BOOLEAN /\ projectable' = projectable
    BY <1>4, Zenon DEF Push, Unchanged
  <2> QED BY <1>2, <2>1, <2>2, Zenon DEF WorkInv
<1>5. CASE ClusterChanges
  <2>1. Counted'
    BY <1>1, <1>5 DEF ClusterChanges, Other
  <2>2. Known'
    BY <1>2, <1>5, Zenon DEF ClusterChanges, Other
  <2> QED BY <2>1, <2>2, Zenon DEF WorkInv
<1>6. CASE \/ UpdateStatus \/ UpdateUnprojected \/ Record \/ CallFails \/ Crash
           \/ TimerFires \/ CatchUp \/ CsvPatches \/ UserEdits \/ UNCHANGED vars
  <2>1. /\ UNCHANGED <<number, missing, wanted, projectable>>
        /\ pc' = "idle" \/ pc # "idle" \/ pc' = pc
    BY <1>6 DEF UpdateStatus, UpdateUnprojected, Record, CallFails, Crash,
                TimerFires, CatchUp, CsvPatches, UserEdits, Other, Unchanged, GoTo, vars
  <2>2. Counted'
    BY <1>1, <2>1
  <2>3. Known'
    BY <1>2, <2>1, Zenon
  <2> QED BY <2>2, <2>3, Zenon DEF WorkInv
<1> QED BY <1>3, <1>4, <1>5, <1>6, Zenon DEF Next

\* What is stored keeps its type, is a newer version where it changed, and all
\* writes but Record leave lists and outcome alone.
LEMMA StoredNext ==
    ASSUME IInv, [Next]_vars
    PROVE  /\ stored' \in Object
           /\ UNCHANGED stored \/ stored'.rev = stored.rev + 1
           /\ (Record /\ pc # "idle" /\ verdict \in Outcome /\ stored' = Recorded) \/ SameLists(stored, stored')
           /\ UpdateUnprojected \/ stored'.unprojected = stored.unprojected
           /\ UserEdits \/ stored'.subset = stored.subset
           /\ CsvPatches \/ stored'.csvLists = stored.csvLists
<1>1. PICK o \in Object, r \in Nat : o = stored /\ r = stored.rev + 1
  BY DEF IInv, TypeOK, Object
<1>2. wanted \in {0, 1} /\ missing \in BOOLEAN /\ 1 - o.csvLists \in {0, 1}
  BY <1>1 DEF IInv, WorkInv, Object
<1>3. CASE Record /\ stored' = Recorded
  <2>1. pc # "idle" /\ verdict \in Outcome
    BY <1>3 DEF Record, Outcome, verdict
  <2>2. PICK n : n = stored' /\ n = Recorded
    BY <1>3
  <2>3. n \in Object /\ n.rev = stored.rev + 1 /\ n.unprojected = stored.unprojected
        /\ n.subset = stored.subset /\ n.csvLists = stored.csvLists
    BY <2>1, <2>2, RecordTells
  <2> QED BY <1>3, <2>1, <2>2, <2>3
<1>4. CASE UNCHANGED stored
  BY <1>1, <1>4 DEF SameLists
<1>5. CASE UpdateStatus /\ stored' = MembersWritten(stored, wanted, stored.rev + 1)
  <2>1. PICK v \in {0, 1} : stored' = MembersWritten(o, v, r)
    BY <1>1, <1>2, <1>5
  <2> QED BY <1>1, <2>1, WriteMembers
<1>6. CASE UpdateUnprojected /\ stored' = UnprojectedWritten(stored, missing, stored.rev + 1)
  <2>1. PICK v \in BOOLEAN : stored' = UnprojectedWritten(o, v, r)
    BY <1>1, <1>2, <1>6
  <2> QED BY <1>1, <1>6, <2>1, WriteUnprojected
<1>7. CASE CsvPatches /\ stored' = ListsWritten(stored, 1 - stored.csvLists, stored.rev + 1)
  <2>1. PICK v \in {0, 1} : stored' = ListsWritten(o, v, r)
    BY <1>1, <1>2, <1>7
  <2>2. /\ stored' \in Object /\ stored'.rev = r /\ SameLists(o, stored')
        /\ stored'.unprojected = o.unprojected /\ stored'.subset = o.subset
    BY <2>1, WriteLists
  <2> QED BY <1>1, <1>7, <2>2
<1>8. CASE UserEdits /\ stored' = FlagWritten(stored, ~stored.subset, stored.rev + 1)
  <2>1. PICK v \in BOOLEAN : stored' = FlagWritten(o, v, r)
    <3>1. (~stored.subset) \in BOOLEAN
      OBVIOUS
    <3> QED BY <1>1, <1>8, <3>1, Zenon
  <2> QED BY <1>1, <1>8, <2>1, WriteFlag
<1> QED BY <1>3, <1>4, <1>5, <1>6, <1>7, <1>8, StepWrites

\* A copy is what it was or what is stored now; the instance may also be the
\* informer's copy.
LEMMA CopiesMove ==
    ASSUME IInv, [Next]_vars
    PROVE  /\ UNCHANGED cached \/ (cached' = stored /\ UNCHANGED <<stored, inst>>)
           /\ \/ UNCHANGED inst
              \/ Start /\ inst' = cached /\ UNCHANGED <<stored, cached>>
              \/ (UpdateStatus \/ UpdateUnprojected) /\ inst' = stored' /\ Current(inst)
<1>1. CASE UpdateStatus
  BY <1>1 DEF UpdateStatus, Writes, Store
<1>2. CASE UpdateUnprojected
  BY <1>2 DEF UpdateUnprojected, Writes, Store
<1>3. CASE CsvPatches \/ UserEdits \/ ClusterChanges
  BY <1>3 DEF CsvPatches, UserEdits, ClusterChanges, Other, Store
<1>4. CASE Start
  BY <1>4 DEF Start
<1>5. CASE Push \/ Record \/ CallFails \/ Crash \/ TimerFires \/ CatchUp \/ UNCHANGED vars
  BY <1>5 DEF Push, Record, CallFails, Crash, TimerFires, CatchUp, vars
<1> QED BY <1>1, <1>2, <1>3, <1>4, <1>5 DEF Next

LEMMA CopiesNext == ASSUME IInv, [Next]_vars PROVE CopiesInv'
<1>1. /\ stored.rev \in Nat /\ cached.rev \in Nat /\ inst.rev \in Nat
      /\ cached.rev <= stored.rev /\ inst.rev <= stored.rev
  BY DEF IInv, TypeOK, Object
<1>2. UNCHANGED stored \/ stored'.rev = stored.rev + 1
  BY StoredNext
<1> QED BY <1>1, <1>2, CopiesMove DEF IInv, CopiesInv, Current

LEMMA PlacesNext ==
    ASSUME IInv, [Next]_vars
    PROVE  pc' \in {"idle", "updateStatus", "push", "unprojected", "runtimeFailed"} \cup Outcome
<1> USE DEF IInv, TypeOK, Outcome, GoTo
<1>1. CASE UpdateStatus \/ UpdateUnprojected
  BY <1>1 DEF UpdateStatus, UpdateUnprojected, Writes
<1>2. CASE CsvPatches \/ UserEdits \/ ClusterChanges
  BY <1>2 DEF CsvPatches, UserEdits, ClusterChanges, Other
<1>3. CASE Start \/ Push \/ Record \/ CallFails \/ Crash \/ TimerFires \/ CatchUp \/ UNCHANGED vars
  BY <1>3 DEF Start, Push, Record, CallFails, Crash, TimerFires, CatchUp, vars
<1> QED BY <1>1, <1>2, <1>3 DEF Next

\* Both lists stay within their bounds and tell one story.
LEMMA StoryNext ==
    ASSUME IInv, [Next]_vars
    PROVE  /\ OneStory'
           /\ Len(stored'.history) <= MaxHistory /\ Len(stored'.timing) <= MaxTiming
<1>1. CASE Record /\ pc # "idle" /\ verdict \in Outcome /\ stored' = Recorded
  <2>1. PICK n : n = stored' /\ n = Recorded
    BY <1>1
  <2>2. /\ n.phase = verdict /\ Story(n.history, n.timing)
        /\ Len(n.history) <= MaxHistory /\ Len(n.timing) <= MaxTiming
        /\ n.timing # <<>> /\ n.timing[1] = <<number, verdict>>
    BY <1>1, <2>1, RecordTells
  <2> QED BY <2>1, <2>2 DEF OneStory, Story
<1>2. CASE SameLists(stored, stored')
  BY <1>2 DEF IInv, OneStory, SameLists, TypeOK
<1> QED BY <1>1, <1>2, StoredNext

LEMMA TypeNext == ASSUME IInv, [Next]_vars PROVE TypeOK'
<1>1. /\ stored.rev \in Nat /\ cached.rev \in Nat /\ inst.rev \in Nat
      /\ cached.rev <= stored.rev /\ inst.rev <= stored.rev
      /\ cached \in Object /\ inst \in Object /\ stored \in Object
  BY DEF IInv, TypeOK, Object
<1>2. stored' \in Object /\ (UNCHANGED stored \/ stored'.rev = stored.rev + 1)
  BY StoredNext
<1>3. /\ cached' \in Object /\ inst' \in Object
      /\ cached'.rev <= stored'.rev /\ inst'.rev <= stored'.rev
  <2>1. stored'.rev \in Nat /\ stored.rev <= stored'.rev
    BY <1>1, <1>2
  <2> QED BY <1>1, <1>2, <2>1, CopiesMove
<1> QED BY <1>2, <1>3, StoryNext, PlacesNext DEF TypeOK

\* A new reconcile takes a new number.
LEMMA Counts ==
    ASSUME IInv, [Next]_vars
    PROVE  \/ number' = number + 1
           \/ number' = number /\ (pc' = "idle" \/ pc # "idle" \/ UNCHANGED pc)
<1>1. CASE Start
  BY <1>1 DEF Start
<1>2. CASE UpdateStatus \/ UpdateUnprojected \/ Push \/ Record \/ CallFails
  BY <1>2 DEF UpdateStatus, Push, UpdateUnprojected, Record, CallFails
<1>3. CASE \/ Crash \/ TimerFires \/ CatchUp \/ CsvPatches \/ UserEdits
           \/ ClusterChanges \/ UNCHANGED vars
  BY <1>3 DEF Crash, TimerFires, CatchUp, CsvPatches, UserEdits, ClusterChanges,
              Other, vars, GoTo
<1> QED BY <1>1, <1>2, <1>3 DEF Next

LEMMA NumbersNext == ASSUME IInv, [Next]_vars PROVE NumbersInv'
<1>1. number \in Nat /\ (stored.timing # <<>> => stored.timing[1][1] \in Nat)
  <2>1. PICK t \in Seq(Entry) : t = stored.timing
    BY DEF IInv, TypeOK, Object, Entry
  <2>2. ASSUME t # <<>> PROVE t[1] \in Entry
    <3>1. Len(t) \in Nat \ {0}
      BY <2>2, EmptySeq
    <3> QED BY <3>1, ElementOfSeq
  <2>3. number \in Nat
    BY HistoryOK DEF IInv, WorkInv
  <2> QED BY <2>1, <2>2, <2>3, HistoryOK DEF Entry
<1>2. CASE Record /\ pc # "idle" /\ verdict \in Outcome /\ stored' = Recorded
  <2>1. PICK n : n = stored' /\ n = Recorded
    BY <1>2
  <2>2. n.timing[1] = <<number, verdict>>
    BY <1>2, <2>1, RecordTells
  <2>3. pc' = "idle" /\ number' = number
    BY <1>2 DEF Record, GoTo
  <2> QED BY <1>1, <2>1, <2>2, <2>3 DEF NumbersInv
<1>3. CASE SameLists(stored, stored')
  BY <1>1, <1>3, Counts DEF IInv, NumbersInv, SameLists
<1> QED BY <1>2, <1>3, StoredNext

-----------------------------------------------------------------------------
(* The flag and the unprojected Roles                                      *)

\* Everything but a new instance, a push and a write of the worker.
Elsewhere ==
    /\ UNCHANGED <<inst, missing>> /\ stored'.unprojected = stored.unprojected
    /\ UNCHANGED cached \/ (cached' = stored /\ UNCHANGED stored)
    /\ UNCHANGED stored \/ stored'.rev = stored.rev + 1
    /\ pc' # "idle" => pc # "idle"
    /\ pc' = "completed" /\ ~inst.subset => ~inst.unprojected

LEMMA FlagElsewhere == ASSUME IInv, Elsewhere PROVE FlagInv'
<1> USE DEF Elsewhere
<1>1. /\ stored.rev \in Nat /\ inst.rev \in Nat /\ inst.rev <= stored.rev
      /\ Current(inst) => inst = stored
  BY DEF IInv, TypeOK, Object, CopiesInv
<1>2. Current(inst)' => Current(inst) /\ UNCHANGED stored
  BY <1>1 DEF Current
<1>3. FlagInv
  BY DEF IInv
<1> QED BY <1>1, <1>2, <1>3, Zenon DEF FlagInv

\* A write of the worker, which is made from what is stored.
LEMMA FlagWrite ==
    ASSUME IInv, UNCHANGED <<cached, missing>>, pc # "idle", Current(inst),
           inst' = stored', stored'.subset = stored.subset,
           \/ stored'.unprojected = stored.unprojected /\ pc' = "push"
           \/ stored'.unprojected = missing
    PROVE  FlagInv'
<1>1. inst = stored /\ cached.subset = stored.subset /\ (missing => stored.subset) /\ FlagInv
  BY DEF IInv, CopiesInv, FlagInv
<1> QED BY <1>1, Zenon DEF FlagInv

\* What UpdateUnprojected writes.
LEMMA UnprojectedStored ==
    ASSUME IInv, UpdateUnprojected, ~UNCHANGED inst
    PROVE  /\ stored'.unprojected = missing /\ stored'.subset = stored.subset
           /\ inst' = stored' /\ Current(inst) /\ UNCHANGED cached
<1>1. /\ inst' = stored' /\ Current(inst) /\ UNCHANGED cached
      /\ stored' = UnprojectedWritten(stored, missing, stored.rev + 1)
  BY DEF UpdateUnprojected, Writes, Store, UnprojectedWritten, IInv, CopiesInv, TypeOK, Object
<1>2. PICK o \in Object, v \in BOOLEAN, r \in Nat : o = stored /\ v = missing /\ r = stored.rev + 1
  BY DEF IInv, TypeOK, Object, WorkInv
<1>3. stored' = UnprojectedWritten(o, v, r)
  BY <1>1, <1>2
<1> QED BY <1>1, <1>2, <1>3, WriteUnprojected

LEMMA FlagNext == ASSUME IInv, [Next]_vars PROVE FlagInv'
<1> USE DEF GoTo
<1>1. FlagInv /\ (UNCHANGED stored \/ stored'.rev = stored.rev + 1)
  BY StoredNext DEF IInv
<1>2. UpdateUnprojected \/ stored'.unprojected = stored.unprojected
  BY StoredNext
<1>3. CASE Start
  BY <1>1, <1>3, Zenon DEF Start, FlagInv
<1>4. CASE Push
  <2>1. /\ UNCHANGED <<stored, cached, inst>> /\ (missing' => inst.subset)
        /\ pc # "idle" /\ pc' # "completed"
    BY <1>4 DEF Push
  <2> QED BY <1>1, <2>1, Zenon DEF FlagInv, Current
<1>5. CASE UpdateStatus
  <2>1. /\ UNCHANGED <<cached, missing>> /\ pc # "idle" /\ pc' \in {"push", "failed"}
        /\ \/ UNCHANGED inst
           \/ inst' = stored' /\ Current(inst) /\ pc' = "push"
    BY <1>5 DEF UpdateStatus, Writes, Store
  <2>2. stored'.unprojected = stored.unprojected /\ stored'.subset = stored.subset
    <3>1. ~UpdateUnprojected /\ ~UserEdits
      BY <1>5, <2>1 DEF UpdateStatus, UpdateUnprojected, UserEdits, Other
    <3> QED BY <3>1, StoredNext
  <2>3. CASE UNCHANGED inst
    <3>1. Elsewhere
      BY <1>1, <2>1, <2>2, <2>3 DEF Elsewhere
    <3> QED BY <3>1, FlagElsewhere
  <2>4. CASE inst' = stored' /\ Current(inst) /\ pc' = "push"
    BY <2>1, <2>2, <2>4, FlagWrite
  <2> QED BY <2>1, <2>3, <2>4
<1>6. CASE UpdateUnprojected
  <2>1. pc # "idle" /\ UNCHANGED <<cached, missing>>
    BY <1>6 DEF UpdateUnprojected, Writes, Store
  <2>2. CASE ~UNCHANGED inst
    BY <1>6, <2>1, <2>2, UnprojectedStored, FlagWrite
  <2>3. CASE UNCHANGED inst /\ UNCHANGED stored
    <3>1. pc' = "completed" => inst.unprojected = missing
      <4>1. CASE inst.unprojected = missing
        BY <4>1
      <4>2. CASE inst.unprojected # missing
        <5>1. ASSUME Current(inst) PROVE FALSE
          <6>1. stored'.rev = stored.rev + 1 /\ stored.rev \in Nat
            BY <1>6, <4>2, <5>1
            DEF UpdateUnprojected, Writes, Store, Current, IInv, TypeOK, Object, CopiesInv
          <6> QED BY <2>3, <6>1
        <5>2. pc' = "failed"
          BY <1>6, <4>2, <5>1 DEF UpdateUnprojected, Writes
        <5> QED BY <5>2
      <4> QED BY <4>1, <4>2
    <3>2. pc' = "completed" /\ ~inst.subset => ~inst.unprojected
      BY <1>1, <3>1, Zenon DEF FlagInv
    <3>3. Elsewhere
      BY <2>1, <2>3, <3>2 DEF Elsewhere
    <3> QED BY <3>3, FlagElsewhere
  <2>4. CASE UNCHANGED inst /\ ~UNCHANGED stored
    <3>1. Current(inst) /\ inst' = stored'
      BY <1>6, <2>4 DEF UpdateUnprojected, Writes
    <3>2. inst = stored
      BY <3>1 DEF IInv, CopiesInv
    <3> QED BY <2>4, <3>1, <3>2
  <2> QED BY <2>2, <2>3, <2>4
<1>7. CASE Record \/ CallFails \/ Crash
  <2>1. UNCHANGED <<inst, missing>> /\ pc # "idle" /\ pc' # "completed"
    BY <1>7 DEF Record, CallFails, Crash
  <2>2. stored'.unprojected = stored.unprojected
    BY <1>2, <1>7 DEF UpdateUnprojected, Record, CallFails, Crash
  <2>3. Elsewhere
    BY <1>1, <2>1, <2>2, CopiesMove DEF Elsewhere
  <2> QED BY <2>3, FlagElsewhere
<1>8. CASE TimerFires \/ CatchUp \/ CsvPatches \/ UserEdits \/ ClusterChanges \/ UNCHANGED vars
  <2>1. UNCHANGED <<inst, missing, pc>>
    BY <1>8 DEF TimerFires, CatchUp, CsvPatches, UserEdits, ClusterChanges, Other, vars
  <2>2. stored'.unprojected = stored.unprojected
    BY <1>2, <2>1 DEF UpdateUnprojected, Writes
  <2>3. pc' = "completed" /\ ~inst.subset => ~inst.unprojected
    BY <1>1, <2>1, Zenon DEF FlagInv
  <2>4. Elsewhere
    BY <1>1, <2>1, <2>2, <2>3, CopiesMove DEF Elsewhere
  <2> QED BY <2>4, FlagElsewhere
<1> QED BY <1>3, <1>4, <1>5, <1>6, <1>7, <1>8 DEF Next

LEMMA ClearedNext == ASSUME IInv, [Next]_vars PROVE CompletedMeansCleared'
<1> USE DEF GoTo
<1>1. FlagInv /\ CompletedMeansCleared
  BY DEF IInv
<1>2. UpdateUnprojected \/ stored'.unprojected = stored.unprojected
  BY StoredNext
<1>3. CASE Start \/ UpdateStatus \/ Push \/ UpdateUnprojected \/ CallFails
  <2>1. pc' # "idle"
    BY <1>3 DEF Start, UpdateStatus, Push, UpdateUnprojected, CallFails, Writes
  <2> QED BY <2>1 DEF CompletedMeansCleared
<1>4. CASE Crash
  BY <1>4 DEF Crash, CompletedMeansCleared
<1>5. CASE Record
  <2>1. /\ UNCHANGED inst /\ (last' = "completed" => pc = "completed")
        /\ stored'.unprojected = stored.unprojected
    BY <1>2, <1>5 DEF Record, UpdateUnprojected, verdict
  <2> QED BY <1>1, <2>1, Zenon DEF FlagInv, CompletedMeansCleared
<1>6. CASE TimerFires \/ CatchUp \/ CsvPatches \/ UserEdits \/ ClusterChanges \/ UNCHANGED vars
  <2>1. UNCHANGED <<inst, pc, last>>
    BY <1>6 DEF TimerFires, CatchUp, CsvPatches, UserEdits, ClusterChanges, Other, vars
  <2>2. pc = "idle" => stored'.unprojected = stored.unprojected
    BY <1>2 DEF UpdateUnprojected
  <2> QED BY <1>1, <2>1, <2>2, Zenon DEF CompletedMeansCleared
<1> QED BY <1>3, <1>4, <1>5, <1>6 DEF Next

-----------------------------------------------------------------------------
(* The theorems                                                            *)

LEMMA Begins == Init => IInv
<1> SUFFICES ASSUME Init PROVE IInv
  OBVIOUS
<1> USE HistoryOK DEF Init
<1>1. <<>> \in Seq(Entry) /\ Len(<<>>) = 0
  BY EmptySeq
<1>2. TypeOK
  BY <1>1 DEF TypeOK, Object, Outcome, Entry
<1>3. CopiesInv
  BY DEF CopiesInv
<1>4. WorkInv
  <2>1. number \in 0..MaxReconciles /\ pc = "idle" /\ wanted \in {0, 1}
    OBVIOUS
  <2>2. missing \in BOOLEAN /\ projectable \in BOOLEAN
    BY Zenon
  <2> QED BY <2>1, <2>2, Zenon DEF WorkInv
<1>5. NumbersInv
  BY DEF NumbersInv
<1>6. OneStory
  BY <1>1 DEF OneStory
<1>7. FlagInv /\ CompletedMeansCleared
  BY DEF FlagInv, CompletedMeansCleared
<1> QED BY <1>2, <1>3, <1>4, <1>5, <1>6, <1>7 DEF IInv

LEMMA IInvNext == IInv /\ [Next]_vars => IInv'
BY TypeNext, CopiesNext, WorkNext, NumbersNext, StoryNext, FlagNext, ClearedNext DEF IInv

\* Every reachable status is well-typed, and its lists are never longer than the
\* API promises.
THEOREM StatusTyped == Spec => []TypeOK
<1>1. IInv => TypeOK
  BY DEF IInv
<1> QED BY Begins, IInvNext, <1>1, PTL DEF Spec

\* Status, history and timing tell one story, however many writes are refused,
\* repeated or made from old copies.
THEOREM StatusTellsOneStory == Spec => []OneStory
<1>1. IInv => OneStory
  BY DEF IInv
<1> QED BY Begins, IInvNext, <1>1, PTL DEF Spec

\* A reconcile that read allowSubsetProjection off and completed leaves no
\* unprojected Roles, even if its copy was old.
THEOREM CompletedClears == Spec => []CompletedMeansCleared
<1>1. IInv => CompletedMeansCleared
  BY DEF IInv
<1> QED BY Begins, IInvNext, <1>1, PTL DEF Spec

\* No write of Reconcile undoes what the CSV controller wrote, and none drops an
\* outcome while there is room for it.
THEOREM StatusKeeps == Spec => NothingUndone
<1> DEFINE Kept ==
      /\ stored'.csvLists # stored.csvLists => CsvPatches
      /\ stored'.timing # stored.timing =>
            \A i \in 1..Len(stored.timing) :
                i < MaxTiming => stored'.timing[i + 1] = stored.timing[i]
<1>1. ASSUME IInv, [Next]_vars PROVE Kept
  <2>1. CsvPatches \/ stored'.csvLists = stored.csvLists
    BY <1>1, StoredNext
  <2>2. CASE SameLists(stored, stored')
    BY <2>1, <2>2 DEF SameLists
  <2>3. CASE Record /\ pc # "idle" /\ verdict \in Outcome /\ stored' = Recorded
    <3>1. PICK n : n = stored' /\ n = Recorded
      BY <2>3
    <3>2. /\ n.timing = Prepend(<<number, verdict>>, stored.timing, MaxTiming)
          /\ <<number, verdict>> \in Entry /\ stored.timing \in Seq(Entry)
          /\ MaxTiming \in Nat \ {0}
      <4>1. number \in 1..MaxReconciles
        BY <1>1, <2>3, HistoryOK DEF IInv, WorkInv, Outcome
      <4>2. <<number, verdict>> \in Entry
        BY <2>3, <4>1 DEF Entry
      <4>3. stored.timing \in Seq(Entry)
        BY <1>1 DEF IInv, TypeOK, Object, Entry
      <4>4. n.timing = Prepend(<<number, verdict>>, stored.timing, MaxTiming)
        BY <1>1, <2>3, <3>1, RecordTells
      <4> QED BY <4>2, <4>3, <4>4, HistoryOK
    <3>3. PICK e \in Entry, t \in Seq(Entry), max \in Nat \ {0} :
            e = <<number, verdict>> /\ t = stored.timing /\ max = MaxTiming
      BY <3>2
    <3>4. \A i \in 1..Len(t) : i < max => Prepend(e, t, max)[i + 1] = t[i]
      BY PrependProperties
    <3> QED BY <2>1, <3>1, <3>2, <3>3, <3>4
  <2> QED BY <1>1, <2>2, <2>3, StoredNext
<1>2. IInv /\ [Next]_vars => [Kept]_vars
  BY <1>1
<1> QED BY Begins, IInvNext, <1>2, PTL DEF Spec, NothingUndone
=============================================================================
