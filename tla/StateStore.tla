------------------------------ MODULE StateStore ------------------------------
(***************************************************************************)
(* backend/internal/state: the service that turns a chunk of terminal      *)
(* output into a delta and merges it into the SQLite tables.               *)
(*                                                                         *)
(* Writers are the readUpstream goroutines (two of them overlap around a   *)
(* reconnect), readers the suggestion jobs and GET /state/snapshot.  An    *)
(* action is one SQL statement or transaction: UpsertDelta is a query of   *)
(* the row, a query of the equipment, a write of the row and a transaction *)
(* of equipment rows, with no lock or transaction around them, and each    *)
(* may fail (a locked database, a full disk) or be the last one before a   *)
(* crash.  The process has one session id, s-1, also after a restart, so   *)
(* there is one row.                                                       *)
(*                                                                         *)
(* A delta is the set of fields it names and its number; a field's value   *)
(* is the number of the delta that set it, 0 if none did.                  *)
(***************************************************************************)
EXTENDS Integers, FiniteSets

CONSTANTS
    RowFields,      \* columns of state_snapshot: location, prompt, status tags
    Slots,          \* keys of state_equipment
    Writers,        \* goroutines that call Ingest
    Readers,        \* goroutines that call Snapshot
    MaxDeltas       \* bound of the model: deltas parsed

ASSUME StoreAssumption ==
    /\ RowFields \intersect Slots = {}
    /\ Writers \intersect Readers = {}
    /\ MaxDeltas \in Nat

Fields == RowFields \union Slots
Procs == Writers \union Readers
Nothing == [f \in Fields |-> 0]

VARIABLES
    rowExists,      \* the session's row is in state_snapshot
    table,          \* the stored fields
    pc,             \* where each goroutine is
    copy,           \* the Snapshot a goroutine has in memory
    named,          \* the fields of a writer's delta
    number,         \* its number
    deltas,         \* deltas parsed so far
    acked,          \* newest delta per field whose UpsertDelta returned nil
    shown,          \* what a reader's Snapshot returned last
    due,            \* what was stored or shown when its call in progress began
    overlapped      \* two UpsertDelta calls have overlapped

writerVars == <<named, number, deltas, acked, overlapped>>
readerVars == <<shown, due>>
vars == <<rowExists, table, pc, copy, writerVars, readerVars>>

Init ==
    /\ rowExists = FALSE
    /\ table = Nothing
    /\ pc = [p \in Procs |-> "idle"]
    /\ copy = [p \in Procs |-> Nothing]
    /\ named = [w \in Writers |-> {}]
    /\ number = [w \in Writers |-> 0]
    /\ deltas = 0
    /\ acked = Nothing
    /\ shown = [r \in Readers |-> Nothing]
    /\ due = [r \in Readers |-> Nothing]
    /\ overlapped = FALSE

Goto(p, label) == pc' = [pc EXCEPT ![p] = label]

\* What f takes from a in A and from b elsewhere.
Override(A, a, b) == [f \in Fields |-> IF f \in A THEN a[f] ELSE b[f]]

Larger(m, n) == IF m > n THEN m ELSE n

(***************************************************************************)
(* Ingest: the parser's delta, empty ones aside, and UpsertDelta.          *)
(***************************************************************************)
Ingest(w, F) ==
    /\ pc[w] = "idle"
    /\ F # {}
    /\ deltas < MaxDeltas
    /\ deltas' = deltas + 1
    /\ number' = [number EXCEPT ![w] = deltas + 1]
    /\ named' = [named EXCEPT ![w] = F]
    /\ overlapped' = (overlapped \/ \E v \in Writers \ {w} : pc[v] # "idle")
    /\ Goto(w, "queryRow")
    /\ UNCHANGED <<rowExists, table, copy, acked, readerVars>>

\* Mutant of Merged: the delta replaces the snapshot.
MergedReplaces(w, snapshot) ==
    Override(named[w], [f \in Fields |-> number[w]], Nothing)

\* mergeSnapshot
Merged(w, snapshot) ==
    Override(named[w], [f \in Fields |-> number[w]], snapshot)

\* GetBySession finds no row: it does not look for equipment.
QueryNoRow(w) ==
    /\ pc[w] = "queryRow"
    /\ ~rowExists
    /\ copy' = [copy EXCEPT ![w] = Merged(w, Nothing)]
    /\ Goto(w, "writeRow")
    /\ UNCHANGED <<rowExists, table, writerVars, readerVars>>

\* The first query of GetBySession, for a writer or a reader.
QueryRow(p) ==
    /\ pc[p] = "queryRow"
    /\ rowExists
    /\ copy' = [copy EXCEPT ![p] = Override(RowFields, table, Nothing)]
    /\ Goto(p, "queryEquipment")
    /\ UNCHANGED <<rowExists, table, writerVars, readerVars>>

\* loadEquipment, and the merge into what was read.
QueryEquipment(w) ==
    /\ pc[w] = "queryEquipment"
    /\ copy' = [copy EXCEPT ![w] = Merged(w, Override(Slots, table, @))]
    /\ Goto(w, "writeRow")
    /\ UNCHANGED <<rowExists, table, writerVars, readerVars>>

Returns(w) ==
    /\ acked' = [f \in Fields |->
        IF f \in named[w] THEN Larger(acked[f], number[w]) ELSE acked[f]]
    /\ Goto(w, "idle")

Worn(w) == {s \in Slots : copy[w][s] # 0}

\* Mutant of WriteRow: UPDATE instead of INSERT ... ON CONFLICT.
WriteRowUpdates(w) ==
    /\ pc[w] = "writeRow"
    /\ table' = IF rowExists THEN Override(RowFields, copy[w], table) ELSE table
    /\ IF Worn(w) # {}
       THEN Goto(w, "writeEquipment") /\ UNCHANGED acked
       ELSE Returns(w)
    /\ UNCHANGED <<rowExists, copy, named, number, deltas, overlapped, readerVars>>

\* upsertSnapshot: every column of the row.  Without equipment UpsertDelta is
\* done.
WriteRow(w) ==
    /\ pc[w] = "writeRow"
    /\ rowExists' = TRUE
    /\ table' = Override(RowFields, copy[w], table)
    /\ IF Worn(w) # {}
       THEN Goto(w, "writeEquipment") /\ UNCHANGED acked
       ELSE Returns(w)
    /\ UNCHANGED <<copy, named, number, deltas, overlapped, readerVars>>

\* upsertEquipment: every slot of the merged snapshot, also those that the
\* delta does not name.
WriteEquipment(w) ==
    /\ pc[w] = "writeEquipment"
    /\ table' = Override(Worn(w), copy[w], table)
    /\ Returns(w)
    /\ UNCHANGED <<rowExists, copy, named, number, deltas, overlapped, readerVars>>

\* A statement fails and changes nothing; the error goes to the log.
StatementFails(p) ==
    /\ pc[p] # "idle"
    /\ Goto(p, "idle")
    /\ due' = [r \in Readers |-> IF r = p THEN Nothing ELSE due[r]]
    /\ UNCHANGED <<rowExists, table, copy, writerVars, shown>>

UpsertSteps(w) ==
    QueryNoRow(w) \/ QueryRow(w) \/ QueryEquipment(w) \/ WriteRow(w) \/ WriteEquipment(w)

(***************************************************************************)
(* Snapshot: GetLatest finds the session with the newest row, GetBySession *)
(* reads it.                                                               *)
(***************************************************************************)
Snapshot(r) ==
    /\ pc[r] = "idle"
    /\ due' = [due EXCEPT ![r] =
        [f \in Fields |-> Larger(acked[f], shown[r][f])]]
    /\ Goto(r, "queryLatest")
    /\ UNCHANGED <<rowExists, table, copy, writerVars, shown>>

QueryLatest(r) ==
    /\ pc[r] = "queryLatest"
    /\ IF rowExists
       THEN Goto(r, "queryRow") /\ UNCHANGED shown
       ELSE Goto(r, "idle") /\ shown' = [shown EXCEPT ![r] = Nothing]
    /\ UNCHANGED <<rowExists, table, copy, writerVars, due>>

\* Mutant of SnapshotReturns: the equipment is read once.
SnapshotReturnsCached(r) ==
    /\ pc[r] = "queryEquipment"
    /\ shown' = [shown EXCEPT ![r] = Override(Slots, IF shown[r] = Nothing
                                         THEN table ELSE shown[r], copy[r])]
    /\ Goto(r, "idle")
    /\ UNCHANGED <<rowExists, table, copy, writerVars, due>>

SnapshotReturns(r) ==
    /\ pc[r] = "queryEquipment"
    /\ shown' = [shown EXCEPT ![r] = Override(Slots, table, copy[r])]
    /\ Goto(r, "idle")
    /\ UNCHANGED <<rowExists, table, copy, writerVars, due>>

SnapshotSteps(r) == QueryLatest(r) \/ QueryRow(r) \/ SnapshotReturns(r)

\* The process ends at any point and is started again on the same file.
Crash ==
    /\ pc' = [p \in Procs |-> "idle"]
    /\ due' = [r \in Readers |-> Nothing]
    /\ UNCHANGED <<rowExists, table, copy, writerVars, shown>>

Next ==
    \/ \E w \in Writers : UpsertSteps(w) \/ \E F \in SUBSET Fields : Ingest(w, F)
    \/ \E r \in Readers : Snapshot(r) \/ SnapshotSteps(r)
    \/ \E p \in Procs : StatementFails(p)
    \/ Crash

Spec == Init /\ [][Next]_vars
-----------------------------------------------------------------------------
Numbers == 0..deltas
Snapshots == [Fields -> Numbers]

TypeOK ==
    /\ rowExists \in BOOLEAN
    /\ deltas \in 0..MaxDeltas
    /\ table \in Snapshots
    /\ pc \in [Procs -> {"idle", "queryLatest", "queryRow", "queryEquipment",
                         "writeRow", "writeEquipment"}]
    /\ \A r \in Readers : pc[r] \notin {"writeRow", "writeEquipment"}
    /\ copy \in [Procs -> Snapshots]
    /\ named \in [Writers -> SUBSET Fields]
    /\ number \in [Writers -> Numbers]
    /\ acked \in Snapshots
    /\ shown \in [Readers -> Snapshots]
    /\ due \in [Readers -> Snapshots]
    /\ overlapped \in BOOLEAN

\* As long as no two UpsertDelta calls overlapped, a delta that was stored
\* stays stored until a newer one replaces its fields: failures between the
\* two writes, crashes and restarts do not undo it, and a delta never erases
\* what it does not name.
StoredIsKept ==
    ~overlapped => \A f \in Fields : table[f] >= acked[f]

\* A snapshot has every delta that was stored before it was asked for and
\* nothing older than the caller's previous one, although its two halves are
\* read at two moments (plan.md:336).
SnapshotsMoveForward ==
    ~overlapped => \A r \in Readers, f \in Fields :
        pc[r] = "idle" => shown[r][f] >= due[r][f]

\* Equipment belongs to a row: a reader that starts from the row sees it all.
EquipmentHasRow == (\E s \in Slots : table[s] # 0) => rowExists
=============================================================================
