------------------------- MODULE IndexRefresh_proofs -------------------------
(***************************************************************************)
(* Theorems about IndexRefresh, for every set of segments, indexes and     *)
(* intervals and every retry schedule.                                     *)
(*                                                                         *)
(* The workers' requests to one index interleave freely.  What makes the   *)
(* memory sound all the same is that a worker changes an index from its    *)
(* original in the very step in which it records what it read (Original):  *)
(* either that is the original, or the index had been changed before, by a *)
(* worker of which the same can be said.                                   *)
(***************************************************************************)
EXTENDS IndexRefresh, TLAPS, WellFoundedInduction, FiniteSetTheorems

\* The values there are for an index.
Values ==
  /\ \A i \in Index :
       /\ cluster[i] \in {initial[i], Disabled, Default, RightValue(i)}
       /\ hook = "waiting" => cluster[i] \in {initial[i], Disabled}
  /\ \A s \in Segment :
       /\ wpc[s] = "create" => initial[cur[s]] = Absent
       /\ wpc[s] = "disable" => original[s] \in {Default, RightValue(cur[s])}

\* Some worker remembers the original of index i.
Known(i) == \E t \in Segment : touched[t][i] = RightValue(i)

\* An original that is not in the cluster any more is remembered.
Original ==
  /\ \A i \in Index :
       /\ hook = "waiting" /\ cluster[i] # initial[i] =>
            Known(i) \/ RightValue(i) = Default
       /\ \A s \in Segment : touched[s][i] # None => Known(i)
  /\ \A s \in Segment :
       wpc[s] = "disable" /\ original[s] # RightValue(cur[s]) => Known(cur[s])

\* What a worker has in hand and what it has saved.
Saved ==
  \A s \in Segment :
    /\ wpc[s] \in {"idle", "hooked", "succeeded"} => cur[s] = None
    /\ wpc[s] \in {"hooked", "succeeded"} => file[s] = touched[s]
    /\ wpc[s] \in {"idle"} \union Ensuring => file[s] = NoMemory
    /\ file[s] = NoMemory \/ file[s] = touched[s]
    /\ wpc[s] \in Ensuring => touched[s][cur[s]] = None

\* Who may have disabled an index.
Blamed ==
  \A i \in Index : cluster[i] = Disabled =>
    \/ initial[i] = Disabled
    \/ \E s \in Segment : touched[s][i] # None \/ cur[s] = i

\* The hook begins when the workers have ended, with what their files hold.
Restoring ==
  /\ hook = "waiting" => merged = NoMemory /\ toRestore = {}
  /\ hook = "done" => toRestore = {}
  /\ hook # "waiting" =>
       /\ \A s \in Segment : wpc[s] \in Settled
       /\ \A i \in toRestore : merged[i] # None
       /\ \A i \in Index :
            /\ merged[i] = None \/ \E s \in Segment : merged[i] = file[s][i]
            /\ merged[i] # None /\ i \notin toRestore /\ i \notin unrestored =>
                 cluster[i] = merged[i]
            /\ \A s \in Segment : file[s][i] # None /\ s \notin unread =>
                 merged[i] # None

Inv ==
  /\ TypeOK
  /\ MemoryIsSound
  /\ Values
  /\ Original
  /\ Saved
  /\ Blamed
  /\ Restoring

-----------------------------------------------------------------------------
(* The first file *)

\* Of finitely many numbered files one comes first.
LEMMA FirstExists ==
  ASSUME NEW H, IsFiniteSet(H), H # {}, NEW order, \A s \in H : order[s] \in Nat
  PROVE  \E s \in H : \A t \in H : order[s] <= order[t]
<1> DEFINE UpTo(s) == {t \in H : order[t] <= order[s]}
           T == {UpTo(s) : s \in H}
<1>1. IsWellFoundedOn(StrictSubsetOrdering(H), SUBSET H)
  BY FS_StrictSubsetOrderingWellFounded, FS_FiniteSubsetsOfFinite
<1>2. T \subseteq SUBSET H /\ T # {}
  OBVIOUS
<1>3. PICK X \in T : \A Y \in T : ~ (<<Y, X>> \in StrictSubsetOrdering(H))
  <2> HIDE DEF T
  <2> QED
    BY <1>1, <1>2, WFMin
<1>4. PICK s \in H : X = UpTo(s)
  OBVIOUS
<1>5. ASSUME NEW t \in H, ~(order[s] <= order[t]) PROVE FALSE
  <2>1. UpTo(t) \subseteq UpTo(s) /\ s \in UpTo(s) /\ s \notin UpTo(t)
    BY <1>5
  <2>2. <<UpTo(t), UpTo(s)>> \in StrictSubsetOrdering(H)
    BY <2>1 DEF StrictSubsetOrdering
  <2>3. QED
    BY <1>3, <1>4, <2>2
<1>6. QED
  BY <1>5

\* What the merge finds for an index is what some file holds for it, and it finds
\* something when a readable file holds something.
LEMMA FirstWriterHolds ==
  ASSUME NEW S \in SUBSET Segment, NEW order \in Orders(S), NEW i \in Index
  PROVE  /\ FirstWriter(order, i) = None
              \/ \E s \in S : FirstWriter(order, i) = file[s][i]
         /\ \A s \in S : file[s][i] # None => FirstWriter(order, i) # None
<1> DEFINE H == {s \in S : file[s][i] # None}
<1>1. IsFiniteSet(S) /\ IsFiniteSet(H)
  BY RefreshAssumption, FS_Subset
<1>2. \A s \in H : order[s] \in Nat
  BY <1>1, FS_CardinalityType DEF Orders
<1>3. DOMAIN order = S
  BY DEF Orders
<1>4. H = {} => FirstWriter(order, i) = None
  BY <1>3 DEF FirstWriter
<1>5. ASSUME H # {}
      PROVE  \E s \in H : FirstWriter(order, i) = file[s][i]
  <2> DEFINE first == CHOOSE s \in H : \A t \in H : order[s] <= order[t]
  <2>1. \E s \in H : \A t \in H : order[s] <= order[t]
    <3> HIDE DEF H
    <3> QED
      BY <1>1, <1>2, <1>5, FirstExists
  <2>2. first \in H
    BY <2>1
  <2>3. FirstWriter(order, i) = file[first][i]
    BY <1>3, <1>5 DEF FirstWriter
  <2>4. QED
    BY <2>2, <2>3
<1>6. QED
  BY <1>4, <1>5

-----------------------------------------------------------------------------
(* Types *)

\* What is to be restored was found in a file.
Restorable == \A i \in toRestore : merged[i] # None

\* A step keeps the types, given that there is something to restore.
LEMMA TypeNext == TypeOK /\ Restorable /\ [Next]_vars => TypeOK' /\ Restorable'
<1> USE RefreshAssumption DEF Setting, Remembered, Ensuring, Settled, NoMemory
<1> SUFFICES ASSUME TypeOK, Restorable, [Next]_vars
             PROVE  TypeOK' /\ Restorable'
  OBVIOUS
<1> USE DEF TypeOK, Restorable, worker, after, GoTo
<1>1. ASSUME NEW s \in Segment, NEW i \in Index, EnsureIndex(s, i)
      PROVE  TypeOK' /\ Restorable'
  BY <1>1 DEF EnsureIndex
<1>2. ASSUME NEW s \in Segment, IndexExists(s) PROVE TypeOK' /\ Restorable'
  BY <1>2 DEF IndexExists
<1>3. ASSUME NEW s \in Segment, ReadSettings(s) PROVE TypeOK' /\ Restorable'
  BY <1>3 DEF ReadSettings, OriginalRefresh
<1>4. ASSUME NEW s \in Segment, DisableRefresh(s) PROVE TypeOK' /\ Restorable'
  BY <1>4 DEF DisableRefresh, Record
<1>5. ASSUME NEW s \in Segment, CreateIndex(s) PROVE TypeOK' /\ Restorable'
  BY <1>5 DEF CreateIndex, Record
<1>6. ASSUME NEW s \in Segment, Retry(s) PROVE TypeOK' /\ Restorable'
  <2>1. cur[s] \in Index
    BY <1>6 DEF Retry
  <2>2. cluster' \in [Index -> Setting]
    BY <1>6, <2>1 DEF Retry
  <2>3. attempt' \in [Segment -> 0..MaxRetries]
    <3>1. CASE attempt[s] < MaxRetries
      <4>1. attempt' = [attempt EXCEPT ![s] = attempt[s] + 1]
        BY <1>6, <3>1 DEF Retry
      <4>2. attempt[s] + 1 \in 0..MaxRetries
        BY <3>1
      <4>3. QED
        BY <4>1, <4>2
    <3>2. CASE ~(attempt[s] < MaxRetries)
      BY <1>6, <3>2 DEF Retry
    <3>3. QED
      BY <3>1, <3>2
  <2>4. wpc' = [wpc EXCEPT ![s] = "exists"] \/ wpc' = [wpc EXCEPT ![s] = "failed"]
    BY <1>6 DEF Retry
  <2>5. UNCHANGED <<cur, original, touched, file, after, initial>> /\ wpc[s] # "disable"
    BY <1>6 DEF Retry
  <2>6. QED
    BY <2>1, <2>2, <2>3, <2>4, <2>5
<1>7. ASSUME NEW s \in Segment, AfterShard(s) PROVE TypeOK' /\ Restorable'
  BY <1>7 DEF AfterShard
<1>8. ASSUME NEW s \in Segment, Succeed(s) \/ Fail(s) PROVE TypeOK' /\ Restorable'
  BY <1>8 DEF Succeed, Fail
<1>9. CASE LoadTouchedIndexes
  <2>1. PICK readable \in SUBSET {s \in Segment : HasFile(s)} :
          /\ unread' = {s \in Segment : HasFile(s)} \ readable
          /\ \E order \in Orders(readable) :
               merged' = [i \in Index |-> FirstWriter(order, i)]
    BY <1>9 DEF LoadTouchedIndexes
  <2>2. PICK order \in Orders(readable) :
          merged' = [i \in Index |-> FirstWriter(order, i)]
    BY <2>1
  <2>3. \A i \in Index : FirstWriter(order, i) \in Remembered
    BY FirstWriterHolds
  <2>4. QED
    BY <1>9, <2>1, <2>2, <2>3 DEF LoadTouchedIndexes
<1>10. ASSUME NEW i \in Index, RestoreRefresh(i) PROVE TypeOK' /\ Restorable'
  BY <1>10 DEF RestoreRefresh
<1>11. CASE UNCHANGED vars
  BY <1>11 DEF vars
<1>12. QED
  BY <1>1, <1>2, <1>3, <1>4, <1>5, <1>6, <1>7, <1>8, <1>9, <1>10, <1>11
  DEF Next, WorkerStep, HookStep, Finished

\* The variables keep their types, whatever the segments, indexes and intervals.
THEOREM TypeCorrect == Spec => []TypeOK
<1>1. Init => TypeOK /\ Restorable
  BY RefreshAssumption
  DEF Init, TypeOK, Restorable, Setting, Remembered, Ensuring, Settled, NoMemory
<1>2. QED
  BY <1>1, TypeNext, PTL DEF Spec

-----------------------------------------------------------------------------
(* The inductive invariant *)

\* Before the run nothing is changed or remembered.
LEMMA InvInit == Init => Inv
<1> SUFFICES ASSUME Init PROVE Inv
  OBVIOUS
<1> USE RefreshAssumption DEF Init, NoMemory
<1>1. TypeOK
  BY DEF TypeOK, Setting, Remembered, Ensuring, Settled
<1>2. MemoryIsSound /\ Values /\ Original
  BY DEF MemoryIsSound, Values, Original
<1>3. Saved /\ Blamed /\ Restoring
  BY DEF Saved, Blamed, Restoring, Ensuring
<1>4. QED
  BY <1>1, <1>2, <1>3 DEF Inv

\* EnsureIndex keeps the invariant: a worker turns to an index it has no
\* memory of.
LEMMA EnsureIndexInv ==
  ASSUME Inv, TypeOK', NEW s \in Segment, NEW i \in Index, EnsureIndex(s, i)
  PROVE  Inv'
<1> USE RefreshAssumption
        DEF Inv, TypeOK, EnsureIndex, GoTo, Ensuring, Settled, worker, after, RightValue
<1>1. hook = "waiting"
  BY DEF Restoring
<1>2. MemoryIsSound'
  BY <1>1 DEF MemoryIsSound
<1>3. Values'
  BY <1>1 DEF Values
<1>4. Original'
  <2> USE DEF EnsureIndex
  <2>1. \A j \in Index : Known(j)' = Known(j)
    BY DEF Known
  <2>2. QED
    BY <1>1, <2>1 DEF Original
<1>5. Saved'
  BY <1>1 DEF Saved
<1>6. Blamed'
  <2> SUFFICES ASSUME NEW j \in Index, cluster[j] = Disabled, initial[j] # Disabled
               PROVE  \E t \in Segment : touched[t][j] # None \/ cur'[t] = j
    BY DEF Blamed, EnsureIndex
  <2>1. PICK t \in Segment : touched[t][j] # None \/ cur[t] = j
    BY DEF Blamed
  <2>2. cur[s] # j
    BY DEF Saved, EnsureIndex
  <2>3. QED
    BY <2>1, <2>2 DEF EnsureIndex
<1>7. Restoring'
  BY <1>1 DEF Restoring
<1>8. QED
  BY <1>2, <1>3, <1>4, <1>5, <1>6, <1>7

\* IndexExists keeps the invariant: only an index that was never there is
\* created.
LEMMA IndexExistsInv ==
  ASSUME Inv, TypeOK', NEW s \in Segment, IndexExists(s)
  PROVE  Inv'
<1> USE RefreshAssumption
        DEF Inv, TypeOK, IndexExists, GoTo, Ensuring, Settled, worker, after, RightValue
<1>1. hook = "waiting"
  BY DEF Restoring
<1>2. MemoryIsSound'
  BY <1>1 DEF MemoryIsSound
<1>3. Values'
  BY <1>1 DEF Values
<1>4. Original'
  BY <1>1 DEF Original, Known
<1>5. Saved'
  BY <1>1 DEF Saved
<1>6. Blamed'
  BY <1>1 DEF Blamed
<1>7. Restoring'
  BY <1>1 DEF Restoring
<1>8. QED
  BY <1>2, <1>3, <1>4, <1>5, <1>6, <1>7

\* ReadSettings keeps the invariant: what is read is the original, or the
\* index was changed before.
LEMMA ReadSettingsInv ==
  ASSUME Inv, TypeOK', NEW s \in Segment, ReadSettings(s)
  PROVE  Inv'
<1> USE RefreshAssumption
        DEF Inv, TypeOK, ReadSettings, GoTo, Ensuring, Settled, worker, after, RightValue
<1>1. hook = "waiting"
  BY DEF Restoring
<1>2. MemoryIsSound'
  BY <1>1 DEF MemoryIsSound
<1>3. Values'
  <2>1. cur[s] \in Index /\ cluster[cur[s]] \in {initial[cur[s]], Disabled}
    BY <1>1 DEF Values, ReadSettings
  <2>2. original'[s] \in {Default, RightValue(cur[s])}
    BY <2>1 DEF ReadSettings, OriginalRefresh
  <2>3. QED
    BY <2>2 DEF Values, ReadSettings
<1>4. Original'
  <2>1. cur[s] \in Index
    BY DEF ReadSettings
  <2>2. cluster[cur[s]] = initial[cur[s]] => original'[s] = RightValue(cur[s])
    BY <2>1 DEF ReadSettings
  <2>3. cluster[cur[s]] # initial[cur[s]] =>
          Known(cur[s]) \/ original'[s] = RightValue(cur[s])
    <3> SUFFICES ASSUME cluster[cur[s]] # initial[cur[s]], ~Known(cur[s])
                 PROVE  original'[s] = RightValue(cur[s])
      OBVIOUS
    <3>1. RightValue(cur[s]) = Default
      BY <1>1, <2>1 DEF Original
    <3>2. cluster[cur[s]] = Disabled
      BY <1>1, <2>1 DEF Values
    <3>3. original'[s] = Default
      BY <2>1, <3>2 DEF ReadSettings, OriginalRefresh
    <3>4. QED
      BY <3>1, <3>3
  <2>4. \A j \in Index : Known(j)' = Known(j)
    BY DEF Known, ReadSettings
  <2>5. QED
    BY <1>1, <2>1, <2>2, <2>3, <2>4 DEF Original, ReadSettings
<1>5. Saved'
  BY <1>1 DEF Saved
<1>6. Blamed'
  BY <1>1 DEF Blamed
<1>7. Restoring'
  BY <1>1 DEF Restoring
<1>8. QED
  BY <1>2, <1>3, <1>4, <1>5, <1>6, <1>7

\* DisableRefresh keeps the invariant: the step that disables an index
\* records it.
LEMMA DisableRefreshInv ==
  ASSUME Inv, TypeOK', NEW s \in Segment, DisableRefresh(s)
  PROVE  Inv'
<1> USE RefreshAssumption
        DEF Inv, TypeOK, DisableRefresh, GoTo, Ensuring, Settled, worker, after, RightValue, Record
<1>1. hook = "waiting"
  BY DEF Restoring
<1>2. MemoryIsSound'
  <2>1. cur[s] \in Index /\ original[s] \in {Default, RightValue(cur[s])}
    BY DEF Values, DisableRefresh
  <2>2. touched' = [touched EXCEPT ![s][cur[s]] = original[s]]
    BY DEF DisableRefresh
  <2>3. UNCHANGED <<merged, initial>>
    BY DEF DisableRefresh
  <2>4. QED
    BY <2>1, <2>2, <2>3 DEF MemoryIsSound
<1>3. Values'
  <2>1. \A i \in Index : cluster'[i] \in {initial'[i], Disabled}
    BY <1>1 DEF Values
  <2>2. \A t \in Segment : t # s =>
          wpc'[t] = wpc[t] /\ cur'[t] = cur[t] /\ original'[t] = original[t]
    OBVIOUS
  <2>3. wpc'[s] = "idle"
    OBVIOUS
  <2>4. QED
    BY <2>1, <2>2, <2>3 DEF Values
<1>4. Original'
  <2>1. cur[s] \in Index /\ touched[s][cur[s]] = None
    BY DEF Saved, DisableRefresh
  <2>2. touched' = [touched EXCEPT ![s][cur[s]] = original[s]] /\ UNCHANGED initial
    BY DEF DisableRefresh
  <2>3. \A j \in Index : RightValue(j) # None
    BY DEF OriginalRefresh
  <2>4. \A j \in Index : Known(j) => Known(j)'
    BY <2>1, <2>2, <2>3 DEF Known
  <2>5. \A j \in Index : j = cur[s] => Known(j)'
    <3>1. CASE original[s] = RightValue(cur[s])
      BY <2>1, <2>2, <3>1 DEF Known
    <3>2. CASE original[s] # RightValue(cur[s])
      BY <2>1, <2>4, <3>2 DEF Original, DisableRefresh
    <3>3. QED
      BY <3>1, <3>2
  <2>6. ASSUME NEW j \in Index, hook' = "waiting", cluster'[j] # initial'[j]
        PROVE  Known(j)' \/ (RightValue(j) = Default)'
    BY <1>1, <2>1, <2>2, <2>4, <2>5, <2>6 DEF Original, DisableRefresh
  <2>7. ASSUME NEW j \in Index, NEW t \in Segment, touched'[t][j] # None
        PROVE  Known(j)'
    BY <2>1, <2>2, <2>4, <2>5, <2>7 DEF Original
  <2>8. ASSUME NEW t \in Segment, wpc'[t] = "disable",
               original'[t] # RightValue(cur[t])'
        PROVE  Known(cur[t])'
    <3>1. t # s /\ cur'[t] = cur[t] /\ cur[t] \in Index
      BY <2>8 DEF DisableRefresh
    <3>2. QED
      BY <2>2, <2>4, <2>8, <3>1 DEF Original, DisableRefresh
  <2>9. QED
    BY <2>6, <2>7, <2>8 DEF Original
<1>5. Saved'
  BY <1>1 DEF Saved
<1>6. Blamed'
  <2>1. /\ \A i \in Index : cluster'[i] # cluster[i] => i = cur[s]
        /\ \A t \in Segment : cur'[t] = cur[t] \/ t = s
        /\ initial' = initial
    OBVIOUS
  <2>2. /\ cur[s] \in Index => touched'[s][cur[s]] # None
        /\ \A t \in Segment, i \in Index : touched[t][i] # None =>
             touched'[t][i] # None
    BY DEF Values, OriginalRefresh
  <2>3. QED
    BY <2>1, <2>2 DEF Blamed
<1>7. Restoring'
  BY <1>1 DEF Restoring
<1>8. QED
  BY <1>2, <1>3, <1>4, <1>5, <1>6, <1>7

\* CreateIndex keeps the invariant: the default is right for an index that
\* was not there.
LEMMA CreateIndexInv ==
  ASSUME Inv, TypeOK', NEW s \in Segment, CreateIndex(s)
  PROVE  Inv'
<1> USE RefreshAssumption
        DEF Inv, TypeOK, CreateIndex, GoTo, Ensuring, Settled, worker, after, RightValue, Record
<1>1. hook = "waiting"
  BY DEF Restoring
<1>2. MemoryIsSound'
  BY <1>1 DEF MemoryIsSound
<1>3. Values'
  BY <1>1 DEF Values
<1>4. Original'
  <2>1. cur[s] \in Index /\ touched[s][cur[s]] = None
    BY DEF Saved, CreateIndex
  <2>2. touched' = [touched EXCEPT ![s][cur[s]] = Default] /\ UNCHANGED initial
    BY DEF CreateIndex
  <2>3. \A j \in Index : RightValue(j) # None
    BY DEF OriginalRefresh
  <2>4. \A j \in Index : Known(j) => Known(j)'
    BY <2>1, <2>2, <2>3 DEF Known
  <2>5. \A j \in Index : j = cur[s] => Known(j)'
    BY <2>1, <2>2 DEF Known, Values, OriginalRefresh, CreateIndex
  <2>6. ASSUME NEW j \in Index, hook' = "waiting", cluster'[j] # initial'[j]
        PROVE  Known(j)' \/ (RightValue(j) = Default)'
    BY <1>1, <2>1, <2>2, <2>4, <2>5, <2>6 DEF Original, CreateIndex
  <2>7. ASSUME NEW j \in Index, NEW t \in Segment, touched'[t][j] # None
        PROVE  Known(j)'
    BY <2>1, <2>2, <2>4, <2>5, <2>7 DEF Original
  <2>8. ASSUME NEW t \in Segment, wpc'[t] = "disable",
               original'[t] # RightValue(cur[t])'
        PROVE  Known(cur[t])'
    <3>1. t # s /\ cur'[t] = cur[t] /\ cur[t] \in Index
      BY <2>8 DEF CreateIndex
    <3>2. QED
      BY <2>2, <2>4, <2>8, <3>1 DEF Original, CreateIndex
  <2>9. QED
    BY <2>6, <2>7, <2>8 DEF Original
<1>5. Saved'
  BY <1>1 DEF Saved
<1>6. Blamed'
  BY <1>1 DEF Blamed
<1>7. Restoring'
  BY <1>1 DEF Restoring
<1>8. QED
  BY <1>2, <1>3, <1>4, <1>5, <1>6, <1>7

\* Retry keeps the invariant: an index may exist that no one has recorded,
\* and the default is right.
LEMMA RetryInv ==
  ASSUME Inv, TypeOK', NEW s \in Segment, Retry(s)
  PROVE  Inv'
<1> USE RefreshAssumption
        DEF Inv, TypeOK, Retry, GoTo, Ensuring, Settled, worker, after, RightValue
<1>1. hook = "waiting"
  BY DEF Restoring
<1>2. MemoryIsSound'
  BY <1>1 DEF MemoryIsSound
<1>3. Values'
  BY <1>1 DEF Values
<1>4. Original'
  <2>1. cur[s] \in Index /\ UNCHANGED <<touched, initial, cur, original, hook>>
    BY DEF Retry
  <2>2. wpc[s] = "create" => RightValue(cur[s]) = Default
    BY <2>1 DEF Values, OriginalRefresh
  <2>3. \A j \in Index : Known(j)' = Known(j)
    BY <2>1 DEF Known
  <2>4. \A j \in Index : cluster'[j] = cluster[j] \/ (j = cur[s] /\ wpc[s] = "create")
    BY <2>1 DEF Retry
  <2>5. \A t \in Segment : wpc'[t] = "disable" => wpc[t] = "disable"
    BY DEF Retry
  <2>6. \A t \in Segment : wpc[t] = "disable" => cur[t] \in Index
    OBVIOUS
  <2>7. ASSUME NEW j \in Index, hook' = "waiting", cluster'[j] # initial'[j]
        PROVE  Known(j)' \/ (RightValue(j) = Default)'
    BY <1>1, <2>1, <2>2, <2>3, <2>4, <2>7 DEF Original
  <2>8. ASSUME NEW j \in Index, NEW t \in Segment, touched'[t][j] # None
        PROVE  Known(j)'
    BY <2>1, <2>3, <2>8 DEF Original
  <2>9. ASSUME NEW t \in Segment, wpc'[t] = "disable",
               original'[t] # RightValue(cur[t])'
        PROVE  Known(cur[t])'
    BY <2>1, <2>3, <2>5, <2>6, <2>9 DEF Original
  <2>10. QED
    BY <2>7, <2>8, <2>9 DEF Original
<1>5. Saved'
  BY <1>1 DEF Saved
<1>6. Blamed'
  BY <1>1 DEF Blamed
<1>7. Restoring'
  BY <1>1 DEF Restoring
<1>8. QED
  BY <1>2, <1>3, <1>4, <1>5, <1>6, <1>7

\* AfterShard keeps the invariant: the memory is saved.
LEMMA AfterShardInv ==
  ASSUME Inv, TypeOK', NEW s \in Segment, AfterShard(s)
  PROVE  Inv'
<1> USE RefreshAssumption
        DEF Inv, TypeOK, AfterShard, GoTo, Ensuring, Settled, worker, after, RightValue
<1>1. hook = "waiting"
  BY DEF Restoring
<1>2. MemoryIsSound'
  BY <1>1 DEF MemoryIsSound
<1>3. Values'
  BY <1>1 DEF Values
<1>4. Original'
  BY <1>1 DEF Original, Known
<1>5. Saved'
  BY <1>1 DEF Saved
<1>6. Blamed'
  BY <1>1 DEF Blamed
<1>7. Restoring'
  BY <1>1 DEF Restoring
<1>8. QED
  BY <1>2, <1>3, <1>4, <1>5, <1>6, <1>7

\* Succeed keeps the invariant.
LEMMA SucceedInv ==
  ASSUME Inv, TypeOK', NEW s \in Segment, Succeed(s)
  PROVE  Inv'
<1> USE RefreshAssumption
        DEF Inv, TypeOK, Succeed, GoTo, Ensuring, Settled, worker, after, RightValue
<1>1. hook = "waiting"
  BY DEF Restoring
<1>2. MemoryIsSound'
  BY <1>1 DEF MemoryIsSound
<1>3. Values'
  BY <1>1 DEF Values
<1>4. Original'
  BY <1>1 DEF Original, Known
<1>5. Saved'
  BY <1>1 DEF Saved
<1>6. Blamed'
  BY <1>1 DEF Blamed
<1>7. Restoring'
  BY <1>1 DEF Restoring
<1>8. QED
  BY <1>2, <1>3, <1>4, <1>5, <1>6, <1>7

\* Fail keeps the invariant: what a dead worker had in hand is still its
\* own.
LEMMA FailInv ==
  ASSUME Inv, TypeOK', NEW s \in Segment, Fail(s)
  PROVE  Inv'
<1> USE RefreshAssumption
        DEF Inv, TypeOK, Fail, GoTo, Ensuring, Settled, worker, after, RightValue
<1>1. hook = "waiting"
  BY DEF Restoring
<1>2. MemoryIsSound'
  BY <1>1 DEF MemoryIsSound
<1>3. Values'
  BY <1>1 DEF Values
<1>4. Original'
  BY <1>1 DEF Original, Known
<1>5. Saved'
  BY <1>1 DEF Saved
<1>6. Blamed'
  BY <1>1 DEF Blamed
<1>7. Restoring'
  BY <1>1 DEF Restoring
<1>8. QED
  BY <1>2, <1>3, <1>4, <1>5, <1>6, <1>7

\* LoadTouchedIndexes keeps the invariant: the workers have ended, and what is
\* merged comes from their files.
LEMMA LoadTouchedIndexesInv ==
  ASSUME Inv, TypeOK', LoadTouchedIndexes
  PROVE  Inv'
<1> USE RefreshAssumption
        DEF Inv, TypeOK, Ensuring, Settled, worker, after, RightValue
<1> DEFINE Written == {s \in Segment : HasFile(s)}
<1>1. hook = "waiting" /\ \A s \in Segment : wpc[s] \in Settled
  BY DEF LoadTouchedIndexes, WorkersAwaited
<1>2. UNCHANGED <<cluster, worker, initial>>
  BY DEF LoadTouchedIndexes
<1>3. PICK readable \in SUBSET Written :
        /\ unread' = Written \ readable
        /\ \E order \in Orders(readable) :
             merged' = [i \in Index |-> FirstWriter(order, i)]
  BY DEF LoadTouchedIndexes
<1>4. PICK order \in Orders(readable) :
        merged' = [i \in Index |-> FirstWriter(order, i)]
  BY <1>3
<1>5. \A i \in Index :
        /\ merged'[i] = None \/ \E s \in Segment : merged'[i] = file[s][i]
        /\ \A s \in Segment : file[s][i] # None /\ s \notin unread' =>
             merged'[i] # None
  <2> SUFFICES ASSUME NEW i \in Index
               PROVE  /\ merged'[i] = None
                           \/ \E s \in Segment : merged'[i] = file[s][i]
                      /\ \A s \in Segment :
                           file[s][i] # None /\ s \notin unread' =>
                             merged'[i] # None
    OBVIOUS
  <2>1. merged'[i] = FirstWriter(order, i)
    BY <1>4
  <2>2. \A s \in Segment : file[s][i] # None => s \in Written
    BY DEF HasFile, NoMemory
  <2>3. QED
    BY <1>3, <2>1, <2>2, FirstWriterHolds
<1>6. MemoryIsSound'
  <2>1. ASSUME NEW i \in Index, NEW s \in Segment
        PROVE  file[s][i] \in {None, Default, RightValue(i)}
    <3>1. touched[s][i] \in {None, Default, RightValue(i)}
      BY DEF MemoryIsSound
    <3>2. file[s] = NoMemory \/ file[s] = touched[s]
      BY DEF Saved
    <3>3. QED
      BY <3>1, <3>2 DEF NoMemory
  <2>2. QED
    BY <1>2, <1>5, <2>1 DEF MemoryIsSound
<1>7. Values' /\ Saved' /\ Blamed'
  BY <1>1, <1>2 DEF Values, Saved, Blamed
<1>8. Original'
  BY <1>1, <1>2 DEF Original, Known
<1>9. Restoring'
  <2>1. hook' # "waiting" /\ toRestore' = {i \in Index : merged'[i] # None}
    BY DEF LoadTouchedIndexes
  <2>2. hook' = "done" => toRestore' = {}
    BY DEF LoadTouchedIndexes
  <2>3. QED
    BY <1>1, <1>2, <1>5, <2>1, <2>2 DEF Restoring
<1>10. QED
  BY <1>6, <1>7, <1>8, <1>9

\* RestoreRefresh keeps the invariant: what is put back is what was merged.
LEMMA RestoreRefreshInv ==
  ASSUME Inv, TypeOK', NEW i \in Index, RestoreRefresh(i)
  PROVE  Inv'
<1> USE RefreshAssumption
        DEF Inv, TypeOK, Ensuring, Settled, worker, after, RightValue, RestoreRefresh
<1>1. hook # "waiting" /\ \A s \in Segment : wpc[s] \in Settled
  BY DEF Restoring
<1>2. merged[i] # None /\ merged[i] \in {Default, RightValue(i)}
  BY DEF Restoring, MemoryIsSound
<1>3. MemoryIsSound'
  BY DEF MemoryIsSound
<1>4. Values'
  BY <1>1, <1>2 DEF Values
<1>5. Original'
  BY <1>1 DEF Original, Known
<1>6. Saved'
  BY DEF Saved
<1>7. Blamed'
  BY <1>2 DEF Blamed, OriginalRefresh
<1>8. Restoring'
  BY <1>1, <1>2 DEF Restoring
<1>9. QED
  BY <1>3, <1>4, <1>5, <1>6, <1>7, <1>8

\* Every step keeps the invariant.
LEMMA InvNext == Inv /\ [Next]_vars => Inv'
<1> SUFFICES ASSUME Inv, [Next]_vars PROVE Inv'
  OBVIOUS
<1>1. TypeOK'
  <2>1. Restorable
    BY DEF Inv, Restorable, Restoring
  <2>2. QED
    BY <2>1, TypeNext DEF Inv
<1>2. CASE UNCHANGED vars
  BY <1>1, <1>2
  DEF vars, worker, after, Inv, MemoryIsSound, Values, Original, Known, Saved,
      Blamed, Restoring, RightValue
<1>3. ASSUME NEW s \in Segment, WorkerStep(s) PROVE Inv'
  BY <1>1, <1>3, EnsureIndexInv, IndexExistsInv, ReadSettingsInv,
     DisableRefreshInv, CreateIndexInv, RetryInv, AfterShardInv, SucceedInv,
     FailInv
  DEF WorkerStep
<1>4. CASE HookStep
  BY <1>1, <1>4, LoadTouchedIndexesInv, RestoreRefreshInv DEF HookStep
<1>5. QED
  BY <1>2, <1>3, <1>4 DEF Next, Finished

\* The invariant holds in every state of every run.
THEOREM Invariance == Spec => []Inv
  BY InvInit, InvNext, PTL DEF Spec

-----------------------------------------------------------------------------
(* What follows from it *)

\* Whoever reads the settings of an index, in whatever order the workers get to
\* it, what is remembered or put back is the index's own original or the default.
THEOREM MemoryStaysSound == Spec => []MemoryIsSound
<1>1. Inv => MemoryIsSound
  BY DEF Inv
<1>2. QED
  BY <1>1, Invariance, PTL

\* When every worker ended well, some file has the original of each index that
\* anyone touched.
THEOREM OriginalIsSaved == Spec => []OriginalInSomeFile
<1>1. Inv => OriginalInSomeFile
  BY DEF Inv, OriginalInSomeFile, Original, Known, Saved
<1>2. QED
  BY <1>1, Invariance, PTL

\* An index that only one worker touched has its own value back after the hook.
THEOREM SoleWriterGetsItBack == Spec => []SoleWriterRestored
<1>1. Inv => SoleWriterRestored
  <2> SUFFICES ASSUME Inv, hook = "done",
                      NEW i \in Index \ unrestored, NEW s \in Segment \ unread,
                      wpc[s] = "succeeded", touched[s][i] # None,
                      \A t \in Segment \ {s} : cur[t] # i /\ touched[t][i] = None
               PROVE  cluster[i] = RightValue(i)
    BY DEF SoleWriterRestored
  <2> USE RefreshAssumption DEF Inv
  <2>1. touched[s][i] = RightValue(i)
    <3>1. RightValue(i) # None
      BY DEF RightValue, OriginalRefresh
    <3>2. QED
      BY <3>1 DEF Original, Known
  <2>2. file[s][i] # None
    BY DEF Saved
  <2>3. merged[i] # None
    BY <2>2 DEF Restoring
  <2>4. \A t \in Segment \ {s} : file[t][i] = None
    BY DEF Saved, NoMemory
  <2>5. merged[i] = file[s][i]
    BY <2>3, <2>4 DEF Restoring
  <2>6. file[s][i] = touched[s][i]
    BY DEF Saved
  <2>7. QED
    BY <2>1, <2>3, <2>5, <2>6 DEF Restoring
<1>2. QED
  BY <1>1, Invariance, PTL

\* The list of reasons for an index to be left disabled is complete.
THEOREM NothingElseStaysDisabled == Spec => []DisabledForAReason
<1>1. Inv => DisabledForAReason
  <2> SUFFICES ASSUME Inv, hook = "done", NEW i \in Index, cluster[i] = Disabled,
                      ~ (initial[i] = Disabled /\ \A s \in Segment : touched[s][i] = None),
                      i \notin unrestored,
                      \A s \in Segment : ~ (touched[s][i] # None /\ s \in unread),
                      \A s \in Segment : ~ (cur[s] = i /\ wpc[s] = "failed"),
                      \A s \in Segment : ~ (touched[s][i] # None /\ wpc[s] = "failed")
               PROVE  FALSE
    BY DEF DisabledForAReason
  <2> USE RefreshAssumption DEF Inv
  <2>0. PICK s \in Segment : touched[s][i] # None \/ cur[s] = i
    BY DEF Blamed
  <2>1. wpc[s] = "succeeded"
    BY <2>0 DEF Restoring, Settled
  <2>2. touched[s][i] # None /\ file[s] = touched[s]
    BY <2>0, <2>1 DEF Saved
  <2>3. merged[i] # None /\ cluster[i] = merged[i]
    BY <2>2 DEF Restoring
  <2>4. merged[i] \in Interval
    BY <2>3 DEF MemoryIsSound, RightValue, OriginalRefresh
  <2>5. QED
    BY <2>3, <2>4
<1>2. QED
  BY <1>1, Invariance, PTL

\* Once the hook has begun to put the intervals back, no step disables an index.
THEOREM HookIsNotUndone == Spec => NoDisablingBehindTheHook
<1>1. Inv /\ [Next]_vars =>
        (hook # "waiting" =>
           \A i \in Index : cluster'[i] = Disabled => cluster[i] = Disabled)
  <2> SUFFICES ASSUME Inv, [Next]_vars, hook # "waiting", NEW i \in Index,
                      cluster'[i] = Disabled
               PROVE  cluster[i] = Disabled
    OBVIOUS
  <2> USE RefreshAssumption DEF Inv
  <2>1. \A s \in Segment : wpc[s] \in Settled
    BY DEF Restoring
  <2>2. ASSUME NEW s \in Segment, WorkerStep(s) PROVE FALSE
    BY <2>1, <2>2
    DEF WorkerStep, EnsureIndex, IndexExists, ReadSettings, DisableRefresh,
        CreateIndex, Retry, AfterShard, Succeed, Fail, Settled
  <2>3. ASSUME NEW j \in Index, RestoreRefresh(j) PROVE cluster[i] = Disabled
    <3>1. merged[j] # Disabled
      BY <2>3
      DEF RestoreRefresh, Restoring, MemoryIsSound, RightValue, OriginalRefresh
    <3>2. QED
      BY <2>3, <3>1 DEF RestoreRefresh, TypeOK
  <2>4. CASE LoadTouchedIndexes \/ UNCHANGED vars
    BY <2>4 DEF LoadTouchedIndexes, vars
  <2>5. QED
    BY <2>2, <2>3, <2>4 DEF Next, HookStep, Finished
<1>2. QED
  BY <1>1, Invariance, PTL DEF Spec, NoDisablingBehindTheHook

==============================================================================
