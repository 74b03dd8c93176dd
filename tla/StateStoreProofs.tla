--------------------------- MODULE StateStoreProofs ---------------------------
(***************************************************************************)
(* Proofs about StateStore: as long as UpsertDelta calls do not overlap,   *)
(* what was stored stays, whatever fails or crashes, and snapshots only    *)
(* move forward.                                                           *)
(***************************************************************************)
EXTENDS StateStore, TLAPS

\* Before the first row the tables are empty.
Rows ==
    /\ rowExists \/ table = Nothing
    /\ \A w \in Writers : pc[w] = "writeEquipment" => rowExists

\* Without overlapping calls, the one writer in progress has the newest
\* delta and a copy of the tables as they are, merged with its delta once it
\* has read both.
WriterInv ==
    ~overlapped => \A w \in Writers : pc[w] # "idle" =>
        /\ \A v \in Writers \ {w} : pc[v] = "idle"
        /\ number[w] = deltas
        /\ pc[w] = "queryEquipment" =>
            \A f \in RowFields : copy[w][f] = table[f]
        /\ pc[w] = "writeRow" => \A f \in Fields :
            copy[w][f] = IF f \in named[w] THEN number[w] ELSE table[f]
        /\ pc[w] = "writeEquipment" =>
            /\ \A f \in Slots :
                copy[w][f] = IF f \in named[w] THEN number[w] ELSE table[f]
            /\ \A f \in RowFields \intersect named[w] : table[f] = number[w]

\* A reader has shown nothing newer than the tables and is due nothing newer.
ReaderInv ==
    ~overlapped => \A r \in Readers, f \in Fields :
        /\ shown[r][f] <= table[f]
        /\ due[r][f] <= table[f]
        /\ pc[r] = "queryEquipment" /\ f \in RowFields =>
            due[r][f] <= copy[r][f] /\ copy[r][f] <= table[f]

StoreInv == Rows /\ WriterInv /\ StoredIsKept /\ ReaderInv /\ SnapshotsMoveForward
-----------------------------------------------------------------------------
\* What the operators on snapshots return.
LEMMA OverrideType ==
    ASSUME NEW S, NEW A, NEW a \in [Fields -> S], NEW b \in [Fields -> S]
    PROVE  Override(A, a, b) \in [Fields -> S]
BY DEF Override

LEMMA NumbersGrow == deltas \in Nat => 0 \in Numbers /\ Numbers \subseteq 0..(deltas + 1)
BY DEF Numbers

LEMMA ReturnsType ==
    ASSUME TypeOK, NEW w \in Writers, Returns(w), deltas' = deltas
    PROVE  /\ acked' \in [Fields -> Numbers']
           /\ pc' = [pc EXCEPT ![w] = "idle"]
BY DEF TypeOK, Returns, Goto, Larger, Numbers, Snapshots

\* The fields of the next state that a step of each kind leaves typed.
LEMMA IngestTypes ==
    ASSUME TypeOK, NEW w \in Writers, NEW F \in SUBSET Fields, Ingest(w, F)
    PROVE  TypeOK'
<1> USE StoreAssumption DEF Procs
<1>1. deltas' \in 0..MaxDeltas /\ deltas' = deltas + 1 /\ deltas \in Nat
  BY DEF Ingest, TypeOK
<1>2. Numbers \subseteq Numbers' /\ deltas' \in Numbers'
  BY <1>1 DEF Numbers
<1>3. Snapshots \subseteq Snapshots'
  BY <1>2 DEF Snapshots
<1>4. number' \in [Writers -> Numbers']
  BY <1>1, <1>2 DEF Ingest, TypeOK
<1>5. /\ copy' \in [Procs -> Snapshots'] /\ shown' \in [Readers -> Snapshots']
      /\ due' \in [Readers -> Snapshots'] /\ table' \in Snapshots' /\ acked' \in Snapshots'
  BY <1>3 DEF Ingest, TypeOK, readerVars
<1>6. /\ pc' \in [Procs -> {"idle", "queryLatest", "queryRow", "queryEquipment",
                            "writeRow", "writeEquipment"}]
      /\ \A r \in Readers : pc'[r] \notin {"writeRow", "writeEquipment"}
  BY DEF Ingest, TypeOK, Goto
<1>7. named' \in [Writers -> SUBSET Fields] /\ overlapped' \in BOOLEAN /\ rowExists' \in BOOLEAN
  BY DEF Ingest, TypeOK
<1> QED BY <1>1, <1>4, <1>5, <1>6, <1>7 DEF TypeOK

THEOREM TypeCorrect == Spec => []TypeOK
<1> USE StoreAssumption DEF Procs
<1>1. Init => TypeOK
  <2> SUFFICES ASSUME Init PROVE TypeOK
    OBVIOUS
  <2>1. Nothing \in Snapshots /\ deltas \in 0..MaxDeltas /\ Numbers = {0}
    BY DEF Init, Nothing, Numbers, Snapshots
  <2> QED BY <2>1 DEF Init, TypeOK
<1>2. TypeOK /\ [Next]_vars => TypeOK'
  <2> SUFFICES ASSUME TypeOK, [Next]_vars PROVE TypeOK'
    OBVIOUS
  <2>0. Nothing \in Snapshots /\ deltas \in Nat
    BY DEF TypeOK, Nothing, Snapshots, Numbers
  <2>1. CASE deltas' = deltas /\ number' = number /\ named' = named
             /\ overlapped' = overlapped
    <3>0. Numbers' = Numbers /\ Snapshots' = Snapshots
      BY <2>1 DEF Numbers, Snapshots
    <3> USE DEF writerVars, readerVars, Goto
    <3>1. ASSUME NEW w \in Writers, NEW s \in Snapshots PROVE Merged(w, s) \in Snapshots
      BY OverrideType DEF Merged, Snapshots, TypeOK
    <3>2. ASSUME NEW w \in Writers, UpsertSteps(w) PROVE TypeOK'
      <4>1. CASE QueryNoRow(w)
        BY <4>1, <3>0, <3>1, <2>0 DEF QueryNoRow, TypeOK
      <4>2. CASE QueryRow(w)
        BY <4>2, <3>0, <2>0, OverrideType DEF QueryRow, TypeOK, Snapshots
      <4>3. CASE QueryEquipment(w)
        <5>1. Override(Slots, table, copy[w]) \in Snapshots
          BY OverrideType DEF TypeOK, Snapshots
        <5> QED BY <4>3, <5>1, <3>0, <3>1 DEF QueryEquipment, TypeOK
      <4>4. CASE WriteRow(w)
        <5>1. table' \in Snapshots
          BY <4>4, OverrideType DEF WriteRow, TypeOK, Snapshots
        <5>2. /\ acked' \in Snapshots
              /\ pc' \in {[pc EXCEPT ![w] = "idle"], [pc EXCEPT ![w] = "writeEquipment"]}
          BY <4>4, <2>1, <3>0, ReturnsType DEF WriteRow, TypeOK, Snapshots
        <5> QED BY <4>4, <5>1, <5>2, <3>0 DEF WriteRow, TypeOK
      <4>5. CASE WriteEquipment(w)
        <5>1. table' \in Snapshots
          BY <4>5, OverrideType DEF WriteEquipment, TypeOK, Snapshots
        <5>2. acked' \in Snapshots /\ pc' = [pc EXCEPT ![w] = "idle"]
          BY <4>5, <2>1, <3>0, ReturnsType DEF WriteEquipment, Snapshots
        <5> QED BY <4>5, <5>1, <5>2, <3>0 DEF WriteEquipment, TypeOK
      <4> QED BY <3>2, <4>1, <4>2, <4>3, <4>4, <4>5 DEF UpsertSteps
    <3>3. ASSUME NEW r \in Readers, Snapshot(r) \/ SnapshotSteps(r) PROVE TypeOK'
      <4>1. CASE Snapshot(r)
        <5>1. [f \in Fields |-> Larger(acked[f], shown[r][f])] \in Snapshots
          BY DEF TypeOK, Snapshots, Larger
        <5> QED BY <4>1, <5>1, <3>0 DEF Snapshot, TypeOK
      <4>2. CASE QueryLatest(r)
        BY <4>2, <3>0, <2>0 DEF QueryLatest, TypeOK
      <4>3. CASE QueryRow(r)
        BY <4>3, <3>0, <2>0, OverrideType DEF QueryRow, TypeOK, Snapshots
      <4>4. CASE SnapshotReturns(r)
        BY <4>4, <3>0, OverrideType DEF SnapshotReturns, TypeOK, Snapshots
      <4> QED BY <3>3, <4>1, <4>2, <4>3, <4>4 DEF SnapshotSteps
    <3>4. ASSUME NEW p \in Procs, StatementFails(p) PROVE TypeOK'
      BY <3>4, <3>0, <2>0 DEF StatementFails, TypeOK
    <3>5. CASE Crash
      BY <3>5, <3>0, <2>0 DEF Crash, TypeOK
    <3>6. CASE UNCHANGED vars
      BY <3>6, <3>0 DEF vars, TypeOK
    <3>7. ASSUME NEW w \in Writers, NEW F \in SUBSET Fields, Ingest(w, F) PROVE TypeOK'
      BY <3>7, IngestTypes
    <3> QED BY <3>2, <3>3, <3>4, <3>5, <3>6, <3>7 DEF Next, TypeOK
  <2>2. CASE \E w \in Writers, F \in SUBSET Fields : Ingest(w, F)
    BY <2>2, IngestTypes
  <2> QED
    BY <2>1, <2>2 DEF Next, vars, writerVars, UpsertSteps, SnapshotSteps, QueryNoRow,
        QueryRow, QueryEquipment, WriteRow, WriteEquipment, Snapshot, QueryLatest,
        SnapshotReturns, StatementFails, Crash
<1> QED BY <1>1, <1>2, PTL DEF Spec

-----------------------------------------------------------------------------
LEMMA NumbersOf ==
    ASSUME TypeOK
    PROVE  /\ deltas \in Nat
           /\ \A f \in Fields : table[f] \in Nat /\ table[f] <= deltas
           /\ \A f \in Fields : acked[f] \in Nat
           /\ \A p \in Procs, f \in Fields : copy[p][f] \in Nat
           /\ \A w \in Writers : number[w] \in Nat
           /\ \A r \in Readers, f \in Fields : shown[r][f] \in Nat /\ due[r][f] \in Nat
BY DEF TypeOK, Snapshots, Numbers

LEMMA OverrideAt ==
    ASSUME NEW A, NEW a, NEW b, NEW f \in Fields
    PROVE  Override(A, a, b)[f] = IF f \in A THEN a[f] ELSE b[f]
BY DEF Override

LEMMA LargerOfNats ==
    ASSUME NEW m \in Nat, NEW n \in Nat
    PROVE  Larger(m, n) \in {m, n} /\ m <= Larger(m, n) /\ n <= Larger(m, n)
BY DEF Larger

LEMMA StoreInvInit == Init => StoreInv
<1> SUFFICES ASSUME Init PROVE StoreInv
  OBVIOUS
<1> USE StoreAssumption DEF Procs
<1>1. Rows /\ WriterInv /\ StoredIsKept
  BY DEF Init, Rows, WriterInv, StoredIsKept, Nothing
<1>2. ReaderInv /\ SnapshotsMoveForward
  BY DEF Init, ReaderInv, SnapshotsMoveForward, Nothing
<1> QED BY <1>1, <1>2 DEF StoreInv

\* What readers know survives a writer's step that lowers no field.
LEMMA ReadersKeep ==
    ASSUME TypeOK, TypeOK', ReaderInv, SnapshotsMoveForward, UNCHANGED readerVars,
           ~overlapped' => ~overlapped,
           \A r \in Readers : pc'[r] = pc[r] /\ copy'[r] = copy[r],
           ~overlapped => \A f \in Fields : table'[f] >= table[f]
    PROVE  ReaderInv' /\ SnapshotsMoveForward'
<1> USE NumbersOf, StoreAssumption DEF Procs, readerVars
<1>1. /\ \A f \in Fields : table'[f] \in Nat
      /\ \A r \in Readers, f \in Fields : copy'[r][f] \in Nat
  BY DEF TypeOK, Snapshots, Numbers
<1>2. ReaderInv'
  BY <1>1 DEF ReaderInv, Fields
<1>3. SnapshotsMoveForward'
  BY DEF SnapshotsMoveForward
<1> QED BY <1>2, <1>3

-----------------------------------------------------------------------------
\* The writer's steps, one lemma each.  A step of w leaves the other
\* goroutines where they are.
LEMMA IngestKeeps ==
    ASSUME TypeOK, TypeOK', StoreInv,
           NEW w \in Writers, NEW F \in SUBSET Fields, Ingest(w, F)
    PROVE  StoreInv'
<1> USE StoreAssumption DEF Procs
<1>1. /\ pc' = [pc EXCEPT ![w] = "queryRow"] /\ pc[w] = "idle"
      /\ number' = [number EXCEPT ![w] = deltas'] /\ UNCHANGED <<rowExists, table, copy, acked, readerVars>>
      /\ ~overlapped' => ~overlapped /\ \A v \in Writers \ {w} : pc[v] = "idle"
  BY DEF Ingest, Goto
<1>2. /\ pc'[w] = "queryRow" /\ number'[w] = deltas'
      /\ \A p \in Procs \ {w} : pc'[p] = pc[p]
  BY <1>1 DEF TypeOK
<1>3. Rows'
  BY <1>1, <1>2 DEF StoreInv, Rows
<1>4. WriterInv'
  BY <1>1, <1>2 DEF WriterInv
<1>5. StoredIsKept'
  BY <1>1 DEF StoreInv, StoredIsKept
<1>6. ReaderInv' /\ SnapshotsMoveForward'
  BY <1>1, <1>2, ReadersKeep, NumbersOf DEF StoreInv
<1> QED BY <1>3, <1>4, <1>5, <1>6 DEF StoreInv

\* What every other step of a writer leaves alone.
WriterStep(w) ==
    /\ UNCHANGED <<named, number, deltas, overlapped, readerVars>>
    /\ \A p \in Procs \ {w} : pc'[p] = pc[p] /\ copy'[p] = copy[p]

LEMMA WriterStepKeeps ==
    ASSUME TypeOK, TypeOK', StoreInv, NEW w \in Writers, WriterStep(w), pc[w] # "idle",
           Rows', StoredIsKept',
           ~overlapped => \A f \in Fields : table'[f] >= table[f],
           ~overlapped /\ pc'[w] # "idle" =>
             /\ pc'[w] = "queryEquipment" =>
                \A f \in RowFields : copy'[w][f] = table'[f]
             /\ pc'[w] = "writeRow" => \A f \in Fields :
                copy'[w][f] = IF f \in named[w] THEN number[w] ELSE table'[f]
             /\ pc'[w] = "writeEquipment" =>
                /\ \A f \in Slots :
                    copy'[w][f] = IF f \in named[w] THEN number[w] ELSE table'[f]
                /\ \A f \in RowFields \intersect named[w] : table'[f] = number[w]
    PROVE  StoreInv'
<1> USE StoreAssumption DEF Procs
<1>1. WriterInv'
  <2>1. ~overlapped => \A v \in Writers \ {w} : pc'[v] = "idle"
    BY DEF StoreInv, WriterInv, WriterStep
  <2>2. ~overlapped => number[w] = deltas
    BY DEF StoreInv, WriterInv
  <2> QED BY <2>1, <2>2 DEF WriterInv, WriterStep
<1>2. ReaderInv' /\ SnapshotsMoveForward'
  BY ReadersKeep DEF StoreInv, WriterStep
<1> QED BY <1>1, <1>2 DEF StoreInv

\* Reading: the tables do not change.
LEMMA QueriesKeep ==
    ASSUME TypeOK, TypeOK', StoreInv, NEW w \in Writers,
           QueryNoRow(w) \/ QueryRow(w) \/ QueryEquipment(w)
    PROVE  StoreInv'
<1> USE StoreAssumption DEF Procs
<1>1. /\ UNCHANGED <<rowExists, table, acked>> /\ pc[w] # "idle"
      /\ WriterStep(w) /\ pc'[w] \in {"queryEquipment", "writeRow"}
  BY DEF QueryNoRow, QueryRow, QueryEquipment, WriterStep, writerVars, Goto, TypeOK
<1>2. Rows' /\ StoredIsKept'
  BY <1>1 DEF StoreInv, Rows, StoredIsKept, WriterStep
<1>3. ASSUME NEW s, NEW f \in Fields
      PROVE  Merged(w, s)[f] = IF f \in named[w] THEN number[w] ELSE s[f]
  BY OverrideAt DEF Merged
<1>4. CASE QueryNoRow(w)
  <2>1. table = Nothing /\ pc'[w] = "writeRow" /\ copy'[w] = Merged(w, Nothing)
    BY <1>4 DEF QueryNoRow, Goto, TypeOK, StoreInv, Rows
  <2>2. \A f \in Fields : copy'[w][f] = IF f \in named[w] THEN number[w] ELSE table'[f]
    BY <1>1, <1>3, <2>1
  <2> QED BY <1>1, <1>2, <2>1, <2>2, WriterStepKeeps, NumbersOf
<1>5. CASE QueryRow(w)
  <2>1. pc'[w] = "queryEquipment" /\ copy'[w] = Override(RowFields, table, Nothing)
    BY <1>5 DEF QueryRow, Goto, TypeOK
  <2>2. \A f \in RowFields : copy'[w][f] = table'[f]
    BY <1>1, <2>1, OverrideAt DEF Fields
  <2> QED BY <1>1, <1>2, <2>1, <2>2, WriterStepKeeps, NumbersOf
<1>6. CASE QueryEquipment(w)
  <2>1. /\ pc[w] = "queryEquipment" /\ pc'[w] = "writeRow"
        /\ copy'[w] = Merged(w, Override(Slots, table, copy[w]))
    BY <1>6 DEF QueryEquipment, Goto, TypeOK
  <2>2. ~overlapped => \A f \in RowFields : copy[w][f] = table[f]
    BY <2>1 DEF StoreInv, WriterInv
  <2>3. ~overlapped => \A f \in Fields : Override(Slots, table, copy[w])[f] = table[f]
    BY <2>2, OverrideAt DEF Fields
  <2>4. ~overlapped => \A f \in Fields :
            copy'[w][f] = IF f \in named[w] THEN number[w] ELSE table'[f]
    BY <1>1, <1>3, <2>1, <2>3
  <2> QED BY <1>1, <1>2, <2>1, <2>4, WriterStepKeeps, NumbersOf
<1> QED BY <1>4, <1>5, <1>6

\* A call returns when the fields of its delta hold its number.
LEMMA ReturnsKeeps ==
    ASSUME TypeOK, TypeOK', StoredIsKept, NEW w \in Writers, Returns(w), overlapped' = overlapped,
           ~overlapped => \A f \in Fields : table'[f] >= table[f],
           ~overlapped => \A f \in named[w] : table'[f] = number[w]
    PROVE  StoredIsKept' /\ pc' = [pc EXCEPT ![w] = "idle"]
<1>1. \A f \in Fields : acked'[f] = IF f \in named[w] THEN Larger(acked[f], number[w])
                                                  ELSE acked[f]
  BY DEF Returns
<1>2. /\ \A f \in Fields : acked[f] \in Nat /\ table[f] \in Nat /\ table'[f] \in Nat
      /\ number[w] \in Nat
  BY NumbersOf DEF TypeOK, Snapshots, Numbers
<1>3. ASSUME NEW f \in Fields, ~overlapped PROVE table'[f] >= acked'[f]
  <2>1. table[f] >= acked[f]
    BY <1>3 DEF StoredIsKept
  <2>2. acked'[f] = acked[f] \/ (f \in named[w] /\ acked'[f] = number[w])
    BY <1>1, <1>2, LargerOfNats
  <2> QED BY <1>2, <1>3, <2>1, <2>2
<1> QED BY <1>3 DEF StoredIsKept, Returns, Goto

LEMMA WriteRowKeeps ==
    ASSUME TypeOK, TypeOK', StoreInv, NEW w \in Writers, WriteRow(w)
    PROVE  StoreInv'
<1> USE StoreAssumption DEF Procs
<1>1. /\ pc[w] = "writeRow" /\ rowExists' /\ copy' = copy
      /\ UNCHANGED <<named, number, deltas, overlapped, readerVars>>
      /\ \A f \in Fields : table'[f] = IF f \in RowFields THEN copy[w][f] ELSE table[f]
  BY OverrideAt DEF WriteRow
<1>2. ASSUME ~overlapped
      PROVE  /\ number[w] = deltas
             /\ \A f \in Fields :
                copy[w][f] = IF f \in named[w] THEN number[w] ELSE table[f]
  BY <1>1, <1>2 DEF StoreInv, WriterInv
<1>3. ~overlapped => \A f \in Fields : table'[f] >= table[f]
  BY <1>1, <1>2, NumbersOf
<1>4. CASE Worn(w) # {}
  <2>1. /\ pc' = [pc EXCEPT ![w] = "writeEquipment"] /\ acked' = acked
        /\ pc'[w] = "writeEquipment"
    BY <1>4 DEF WriteRow, Goto, TypeOK
  <2>2. WriterStep(w) /\ Rows'
    BY <1>1, <2>1 DEF WriterStep, Rows
  <2>3. StoredIsKept'
    BY <1>1, <1>3, <2>1, NumbersOf DEF StoreInv, StoredIsKept, TypeOK, Snapshots, Numbers
  <2>4. ASSUME ~overlapped
        PROVE  /\ \A f \in Slots :
                   copy'[w][f] = IF f \in named[w] THEN number[w] ELSE table'[f]
               /\ \A f \in RowFields \intersect named[w] : table'[f] = number[w]
    BY <1>1, <1>2, <2>4 DEF Fields
  <2> QED BY <1>1, <1>3, <2>1, <2>2, <2>3, <2>4, WriterStepKeeps
<1>5. CASE Worn(w) = {}
  <2>1. Returns(w)
    BY <1>5 DEF WriteRow
  <2>2. ASSUME ~overlapped, NEW f \in named[w] PROVE table'[f] = number[w]
    <3>1. f \in Fields
      BY DEF TypeOK
    <3>2. CASE f \in RowFields
      BY <1>1, <1>2, <2>2, <3>1, <3>2
    <3>3. CASE f \in Slots
      <4>1. copy[w][f] = 0 /\ copy[w][f] = number[w] /\ number[w] = deltas
        BY <1>2, <1>5, <2>2, <3>1, <3>3 DEF Worn
      <4> QED BY <1>1, <3>1, <3>3, <4>1, NumbersOf
    <3> QED BY <3>1, <3>2, <3>3 DEF Fields
  <2>3. StoredIsKept' /\ pc' = [pc EXCEPT ![w] = "idle"]
    BY <1>1, <1>3, <2>1, <2>2, ReturnsKeeps DEF StoreInv
  <2>4. pc'[w] = "idle" /\ WriterStep(w) /\ Rows'
    BY <1>1, <2>3 DEF WriterStep, Rows, TypeOK
  <2> QED BY <1>1, <1>3, <2>3, <2>4, WriterStepKeeps
<1> QED BY <1>4, <1>5

LEMMA WriteEquipmentKeeps ==
    ASSUME TypeOK, TypeOK', StoreInv, NEW w \in Writers, WriteEquipment(w)
    PROVE  StoreInv'
<1> USE StoreAssumption DEF Procs
<1>1. /\ pc[w] = "writeEquipment" /\ rowExists' = rowExists /\ copy' = copy /\ Returns(w)
      /\ UNCHANGED <<named, number, deltas, overlapped, readerVars>>
      /\ \A f \in Fields : table'[f] = IF f \in Worn(w) THEN copy[w][f] ELSE table[f]
  BY OverrideAt DEF WriteEquipment
<1>2. ASSUME ~overlapped
      PROVE  /\ number[w] = deltas
             /\ \A f \in Slots :
                 copy[w][f] = IF f \in named[w] THEN number[w] ELSE table[f]
             /\ \A f \in RowFields \intersect named[w] : table[f] = number[w]
  BY <1>1, <1>2 DEF StoreInv, WriterInv
<1>3. ~overlapped => \A f \in Fields : table'[f] >= table[f]
  BY <1>1, <1>2, NumbersOf DEF Worn
<1>4. ASSUME ~overlapped, NEW f \in named[w] PROVE table'[f] = number[w]
  <2>1. f \in Fields
    BY DEF TypeOK
  <2>2. CASE f \in RowFields
    BY <1>1, <1>2, <1>4, <2>1, <2>2 DEF Worn
  <2>3. CASE f \in Slots
    BY <1>1, <1>2, <1>4, <2>1, <2>3, NumbersOf DEF Worn
  <2> QED BY <2>1, <2>2, <2>3 DEF Fields
<1>5. StoredIsKept' /\ pc' = [pc EXCEPT ![w] = "idle"]
  BY <1>1, <1>3, <1>4, ReturnsKeeps DEF StoreInv
<1>6. pc'[w] = "idle" /\ WriterStep(w) /\ Rows'
  BY <1>1, <1>5 DEF WriterStep, StoreInv, Rows, TypeOK
<1> QED BY <1>1, <1>3, <1>5, <1>6, WriterStepKeeps

-----------------------------------------------------------------------------
\* Steps that leave the tables and the writers' data alone and start no
\* statement of a writer keep what concerns writers.
LEMMA WritersKeep ==
    ASSUME TypeOK, StoreInv, UNCHANGED <<rowExists, table, writerVars>>,
           \A w \in Writers : pc'[w] # "idle" => pc'[w] = pc[w] /\ copy'[w] = copy[w]
    PROVE  Rows' /\ WriterInv' /\ StoredIsKept'
<1>1. Rows'
  BY DEF StoreInv, Rows
<1>2. WriterInv'
  BY DEF StoreInv, WriterInv, writerVars
<1>3. StoredIsKept'
  BY DEF StoreInv, StoredIsKept, writerVars
<1> QED BY <1>1, <1>2, <1>3

LEMMA SnapshotKeeps ==
    ASSUME TypeOK, TypeOK', StoreInv, NEW r \in Readers, Snapshot(r) \/ SnapshotSteps(r)
    PROVE  StoreInv'
<1> USE StoreAssumption, NumbersOf DEF Procs
<1>1. /\ UNCHANGED <<rowExists, table, writerVars>>
      /\ \A p \in Procs \ {r} : pc'[p] = pc[p] /\ copy'[p] = copy[p]
      /\ \A q \in Readers \ {r} : shown'[q] = shown[q] /\ due'[q] = due[q]
  BY DEF Snapshot, SnapshotSteps, QueryLatest, QueryRow, SnapshotReturns, Goto,
         readerVars, TypeOK
<1>2. Rows' /\ WriterInv' /\ StoredIsKept'
  BY <1>1, WritersKeep
<1>3. ASSUME ~overlapped, NEW f \in Fields
      PROVE  /\ table[f] >= acked[f] /\ shown[r][f] <= table[f] /\ due[r][f] <= table[f]
             /\ pc[r] = "queryEquipment" /\ f \in RowFields =>
                due[r][f] <= copy[r][f] /\ copy[r][f] <= table[f]
  BY <1>3 DEF StoreInv, StoredIsKept, ReaderInv
<1>4. ASSUME ~overlapped, NEW f \in Fields
      PROVE  /\ shown'[r][f] <= table[f] /\ due'[r][f] <= table[f]
             /\ pc'[r] = "queryEquipment" /\ f \in RowFields =>
                due'[r][f] <= copy'[r][f] /\ copy'[r][f] <= table[f]
             /\ pc'[r] = "idle" => shown'[r][f] >= due'[r][f]
  <2>1. CASE Snapshot(r)
    <3>1. /\ due'[r][f] = Larger(acked[f], shown[r][f])
          /\ shown' = shown /\ pc'[r] = "queryLatest"
      BY <2>1 DEF Snapshot, Goto, TypeOK
    <3> QED BY <1>3, <1>4, <3>1, LargerOfNats
  <2>2. CASE QueryLatest(r)
    <3>1. due' = due /\ copy' = copy
      BY <2>2 DEF QueryLatest
    <3>2. CASE rowExists
      <4>1. shown' = shown /\ pc'[r] = "queryRow"
        BY <2>2, <3>2 DEF QueryLatest, Goto, TypeOK
      <4> QED BY <1>3, <1>4, <3>1, <4>1
    <3>3. CASE ~rowExists
      <4>1. shown'[r] = Nothing /\ pc'[r] = "idle"
        BY <2>2, <3>3 DEF QueryLatest, Goto, TypeOK
      <4>2. table[f] = 0 /\ shown'[r][f] = 0
        BY <3>3, <4>1 DEF StoreInv, Rows, Nothing
      <4> QED BY <1>3, <1>4, <3>1, <4>1, <4>2
    <3> QED BY <3>2, <3>3
  <2>3. CASE QueryRow(r)
    <3>1. /\ due' = due /\ shown' = shown /\ pc'[r] = "queryEquipment"
          /\ copy'[r] = Override(RowFields, table, Nothing)
      BY <2>3 DEF QueryRow, Goto, readerVars, TypeOK
    <3>2. f \in RowFields => copy'[r][f] = table[f]
      BY <3>1, OverrideAt
    <3> QED BY <1>3, <1>4, <3>1, <3>2
  <2>4. CASE SnapshotReturns(r)
    <3>1. /\ pc[r] = "queryEquipment" /\ due' = due /\ pc'[r] = "idle"
          /\ shown'[r] = Override(Slots, table, copy[r])
      BY <2>4 DEF SnapshotReturns, Goto, TypeOK
    <3>2. shown'[r][f] = IF f \in Slots THEN table[f] ELSE copy[r][f]
      BY <3>1, OverrideAt
    <3> QED BY <1>3, <1>4, <3>1, <3>2 DEF Fields
  <2> QED BY <2>1, <2>2, <2>3, <2>4 DEF SnapshotSteps
<1>5. ReaderInv' /\ SnapshotsMoveForward'
  <2>1. ReaderInv'
    BY <1>1, <1>4 DEF StoreInv, ReaderInv, writerVars
  <2>2. SnapshotsMoveForward'
    BY <1>1, <1>4 DEF StoreInv, SnapshotsMoveForward, writerVars
  <2> QED BY <2>1, <2>2
<1> QED BY <1>2, <1>5 DEF StoreInv

\* A failed statement ends one call, a crash all of them; a call that ends
\* without a result is due nothing.
LEMMA FailuresKeep ==
    ASSUME TypeOK, TypeOK', StoreInv, Crash \/ \E p \in Procs : StatementFails(p)
    PROVE  StoreInv'
<1> USE StoreAssumption, NumbersOf DEF Procs
<1>1. /\ UNCHANGED <<rowExists, table, copy, writerVars, shown>>
      /\ \A p \in Procs : pc'[p] = "idle" \/ pc'[p] = pc[p]
      /\ \A r \in Readers : \/ due'[r] = Nothing
                            \/ due'[r] = due[r] /\ pc'[r] = pc[r]
  BY DEF Crash, StatementFails, Goto, TypeOK
<1>2. Rows' /\ WriterInv' /\ StoredIsKept'
  BY <1>1, WritersKeep
<1>3. \A f \in Fields : Nothing[f] = 0
  BY DEF Nothing
<1>4. ReaderInv'
  BY <1>1, <1>3 DEF StoreInv, ReaderInv, writerVars, Fields
<1>5. SnapshotsMoveForward'
  BY <1>1, <1>3 DEF StoreInv, SnapshotsMoveForward, writerVars
<1> QED BY <1>2, <1>4, <1>5 DEF StoreInv

LEMMA StoreInvHolds == Spec => []StoreInv
<1>1. TypeOK /\ TypeOK' /\ StoreInv /\ [Next]_vars => StoreInv'
  <2> SUFFICES ASSUME TypeOK, TypeOK', StoreInv, [Next]_vars PROVE StoreInv'
    OBVIOUS
  <2>1. ASSUME NEW w \in Writers, UpsertSteps(w) PROVE StoreInv'
    BY <2>1, QueriesKeep, WriteRowKeeps, WriteEquipmentKeeps DEF UpsertSteps
  <2>2. ASSUME NEW w \in Writers, NEW F \in SUBSET Fields, Ingest(w, F) PROVE StoreInv'
    BY <2>2, IngestKeeps
  <2>3. ASSUME NEW r \in Readers, Snapshot(r) \/ SnapshotSteps(r) PROVE StoreInv'
    BY <2>3, SnapshotKeeps
  <2>4. CASE Crash \/ \E p \in Procs : StatementFails(p)
    BY <2>4, FailuresKeep
  <2>5. CASE UNCHANGED vars
    BY <2>5 DEF vars, writerVars, readerVars, StoreInv, Rows, WriterInv, StoredIsKept,
        ReaderInv, SnapshotsMoveForward
  <2> QED BY <2>1, <2>2, <2>3, <2>4, <2>5 DEF Next
<1> QED BY <1>1, StoreInvInit, TypeCorrect, PTL DEF Spec

-----------------------------------------------------------------------------
\* What UpsertDelta acknowledged stays in the tables until it is replaced,
\* whatever statement fails and wherever the process crashes, as long as no
\* two calls overlap.
THEOREM StoredStays == Spec => []StoredIsKept
<1>1. StoreInv => StoredIsKept
  BY DEF StoreInv
<1> QED BY <1>1, StoreInvHolds, PTL

\* A reader's snapshots have all that was stored before each call and never
\* go back.
THEOREM ReadersMoveForward == Spec => []SnapshotsMoveForward
<1>1. StoreInv => SnapshotsMoveForward
  BY DEF StoreInv
<1> QED BY <1>1, StoreInvHolds, PTL

\* Also with overlapping calls, equipment is only stored for a session whose
\* row exists, from which every reader starts.
THEOREM EquipmentIsReachable == Spec => []EquipmentHasRow
<1>1. StoreInv => EquipmentHasRow
  BY DEF StoreInv, Rows, EquipmentHasRow, Nothing, Fields
<1> QED BY <1>1, StoreInvHolds, PTL
===============================================================================
