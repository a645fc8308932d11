---------------------- MODULE GrammarEngineStockProofs ----------------------
(* Further proofs about the engine, in two parts: what a rollback leaves    *)
(* behind; and removals, commits and scans against the stock.               *)
EXTENDS GrammarEngineProofs

(* Proofs about references and rollback: everything that refers to a bin or *)
(* an item refers to one that exists, and a session that was rolled back    *)
(* leaves nothing behind.                                                   *)
(*                                                                          *)
(* Only a rollback deletes bins and items; every other call keeps those     *)
(* that exist and creates the rest for its own session (Kept, CreatedOwn).  *)
(* A rollback deletes all that its session created because nothing that     *)
(* survives it can refer to them: a row of another session was written when *)
(* they did not exist (OwnCreations).                                       *)

(* What a pending list holds exists in a table of items.                    *)
ListExists(list, table) ==
    \A e \in Entries : list[e] > 0 =>
        table[e[1]] # Absent /\ (e[2] # NoPack => table[e[2]] # Absent)

RowsExist     == \A r \in buffered_operations \cup audit_log : Exists(r)
SessionsExist == \A b \in OpenBinSessions :
                     bins[b] # Absent /\ ListExists(session_items[b], items)
StagedExist   == ListExists(unassigned_items, items)
MonoExist     == \A b \in DOMAIN MonoItem :
                     bins[b] # Absent => items[MonoItem[b]] # Absent

LEMMA DanglingParts ==
    NoDanglingReferences <=> RowsExist /\ SessionsExist /\ StagedExist /\ MonoExist
<1>1. \A b, e : Exists([bin |-> b, item |-> e[1], via |-> e[2]])
         <=> /\ bins[b] # Absent /\ items[e[1]] # Absent
             /\ e[2] # NoPack => items[e[2]] # Absent
  BY DEF Exists
<1> QED
  BY <1>1 DEF NoDanglingReferences, RowsExist, SessionsExist, StagedExist, MonoExist,
     ListExists

(* The items that were there at the start stay; packs hold nothing else.    *)
FirstItemsStay == \A i \in Items0 : items[i] = 0

Kept ==
    /\ \A b \in Bins : bins[b] # Absent => bins'[b] = bins[b]
    /\ \A i \in Items : items[i] # Absent => items'[i] = items[i]

CreatedOwn ==
    /\ \A b \in Bins : bins'[b] \in {bins[b], work_session_id}
    /\ \A i \in Items : items'[i] \in {items[i], work_session_id}

LEMMA CreationStep ==
    ASSUME TypeOK, [Next]_vars, ~RollbackSession
    PROVE  Kept /\ CreatedOwn
<1>0. bins \in [Bins -> Provenance] /\ items \in [Items -> Provenance]
  BY DEF TypeOK
<1>1. UNCHANGED <<bins, items>> => Kept /\ CreatedOwn
  BY DEF Kept, CreatedOwn
<1>2. ASSUME NEW i \in Items, ScanItem(i) PROVE Kept /\ CreatedOwn
  <2>1. /\ bins' = bins
        /\ items' = [items EXCEPT ![i] = IF items[i] = Absent THEN work_session_id
                                                               ELSE items[i]]
    BY <1>2 DEF ScanItem
  <2> QED
    BY <1>0, <2>1 DEF Kept, CreatedOwn
<1>3. ASSUME NEW b \in Bins, CreateBin(b) PROVE Kept /\ CreatedOwn
  <2>1. /\ items' = items
        /\ bins' = [bins EXCEPT ![b] =
              IF bins[b] = Absent
                    /\ (b \in DOMAIN MonoItem => items[MonoItem[b]] # Absent)
              THEN work_session_id ELSE bins[b]]
    BY <1>3 DEF CreateBin
  <2> QED
    BY <1>0, <2>1 DEF Kept, CreatedOwn
<1>4. [Next]_vars /\ ~RollbackSession =>
         \/ UNCHANGED <<bins, items>>
         \/ \E i \in Items : ScanItem(i)
         \/ \E b \in Bins : CreateBin(b)
  BY DEF Next, ScanUnknownBin, ToggleClose, OpenBinSession, RefocusBin, StageItem,
     AccumulateItem, RefuseRemoval, OpenSession, RestoreSession, CommitSession,
     ManualOperation, DeleteOperation, UpdateOperationQuantity, Tick, Ticker,
     Restart, CrashInClose, CrashInManual, tables, vars
<1> QED
  BY <1>1, <1>2, <1>3, <1>4

-----------------------------------------------------------------------------
(* Rows.                                                                    *)

LEMMA InsertableExist ==
    ASSUME NEW R, NEW r \in Insertable(R)
    PROVE  Exists(r)
BY DEF Insertable, Exists

LEMMA ClosedRowsExist ==
    ASSUME NEW n, NEW b, NEW r \in ClosedRows(n, b)
    PROVE  Exists(r)
BY InsertableExist DEF ClosedRows

LEMMA NewRowsExist ==
    ASSUME TypeOK, RowsExist, [Next]_vars, NEW r \in buffered_operations'
    PROVE  Exists(r)
<1>1. CASE r \in buffered_operations
  BY <1>1 DEF RowsExist
<1>2. CASE r \notin buffered_operations
  <2>1. ASSUME NEW S, CloseBinSessions(S) PROVE Exists(r)
    BY <1>2, <2>1, ClosedRowsExist DEF CloseBinSessions
  <2>2. ASSUME CommitSession PROVE Exists(r)
    <3>1. PICK n : buffered_operations' = buffered_operations \cup FoldedRows(n)
      BY <2>2 DEF CommitSession
    <3> QED
      BY <1>2, <3>1, ClosedRowsExist DEF FoldedRows
  <2>3. ASSUME NEW op, NEW b, NEW i, NEW q,
               ManualOperation(op, b, i, q) \/ CrashInManual(op, b, i, q)
        PROVE  Exists(r)
    BY <1>2, <2>3, InsertableExist DEF ManualOperation, CrashInManual
  <2>4. ASSUME NEW o \in buffered_operations, NEW q, UpdateOperationQuantity(o, q)
        PROVE  Exists(r)
    <3>1. r = [o EXCEPT !.qty = q]
      BY <1>2, <2>4 DEF UpdateOperationQuantity
    <3>2. o \in Rows
      BY DEF TypeOK
    <3>3. r.bin = o.bin /\ r.item = o.item /\ r.via = o.via
      BY <3>1, <3>2 DEF Rows
    <3> QED
      BY <3>3 DEF RowsExist, Exists
  <2>5. ASSUME CrashInClose PROVE Exists(r)
    <3>1. PICK n \in Batches, b \in OpenBinSessions :
             \E done \in SUBSET (OpenBinSessions \ {b}), part \in SUBSET ClosedRows(n, b) :
                buffered_operations' = buffered_operations \cup part
                                          \cup UNION {ClosedRows(n, c) : c \in done}
      BY <2>5 DEF CrashInClose
    <3>2. PICK c : r \in ClosedRows(n, c)
      BY <1>2, <3>1
    <3> QED
      BY <3>2, ClosedRowsExist
  <2>6. \/ \E S : CloseBinSessions(S)
        \/ CommitSession
        \/ \E op, b, i, q : ManualOperation(op, b, i, q) \/ CrashInManual(op, b, i, q)
        \/ \E o \in buffered_operations : \E q : UpdateOperationQuantity(o, q)
        \/ CrashInClose
    BY <1>2 DEF Next, ScanUnknownBin, ToggleClose, OpenBinSession, RefocusBin,
       StageItem, AccumulateItem, RefuseRemoval, ScanItem, OpenSession,
       RestoreSession, RollbackSession, DeleteOperation, CreateBin, Tick, Ticker,
       Restart, tables, vars
  <2> QED
    BY <2>1, <2>2, <2>3, <2>4, <2>5, <2>6
<1> QED
  BY <1>1, <1>2

LEMMA NewAuditExist ==
    ASSUME TypeOK, SessionMirrorsTable, BatchOfOneSession, RowsExist, [Next]_vars,
           NEW r \in audit_log'
    PROVE  Exists(r)
<1>1. CASE ~CommitSession
  BY <1>1, OwnEditStep DEF RowsExist
<1>2. CASE CommitSession
  <2>1. PICK n : audit_log' = audit_log \cup AuditOf(SessionRows(n))
    BY <1>2 DEF CommitSession, ApplyRows
  <2>2. \A t \in SessionRows(n) : Exists(t)
    BY ClosedRowsExist DEF SessionRows, FoldedRows, BufferedOf, RowsExist
  <2>3. \A a \in AuditOf(SessionRows(n)) : Exists(a)
    BY <2>2 DEF AuditOf, Exists
  <2> QED
    BY <2>1, <2>3 DEF RowsExist
<1> QED
  BY <1>1, <1>2

(* What exists is kept, but by a rollback.                                  *)
LEMMA RowsExistStep ==
    ASSUME TypeOK, TypeOK', SessionMirrorsTable, BatchOfOneSession, RowsExist,
           [Next]_vars, ~RollbackSession
    PROVE  RowsExist'
<1> SUFFICES ASSUME NEW r \in buffered_operations' \cup audit_log' PROVE Exists(r)'
  BY DEF RowsExist
<1>1. Exists(r)
  BY NewRowsExist, NewAuditExist
<1>2. r.bin \in Bins /\ r.item \in Items /\ r.via \in Vias
  BY DEF TypeOK, Rows, AuditRows
<1>3. Kept
  BY CreationStep
<1> QED
  BY <1>1, <1>2, <1>3 DEF Exists, Kept, Vias

-----------------------------------------------------------------------------
(* Memory.                                                                  *)

LEMMA EmptyListExists ==
    ASSUME NEW table
    PROVE  ListExists(EmptyList, table)
BY DEF ListExists, EmptyList

LEMMA AccumulateExists ==
    ASSUME NEW table, NEW l \in [Entries -> Nat], NEW m \in [Entries -> Nat],
           ListExists(l, table), ListExists(m, table)
    PROVE  ListExists(Accumulate(l, m), table)
<1> SUFFICES ASSUME NEW e \in Entries, Accumulate(l, m)[e] > 0
             PROVE  table[e[1]] # Absent /\ (e[2] # NoPack => table[e[2]] # Absent)
  BY DEF ListExists
<1>1. l[e] + m[e] > 0 /\ l[e] \in Nat /\ m[e] \in Nat
  BY DEF Accumulate
<1>2. ASSUME NEW x \in Nat, NEW y \in Nat, x + y > 0 PROVE x > 0 \/ y > 0
  BY <1>2
<1>3. l[e] > 0 \/ m[e] > 0
  BY <1>1, <1>2
<1> QED
  BY <1>3 DEF ListExists

LEMMA ExpandExists ==
    ASSUME NEW table, \A j \in Items0 : table[j] = 0,
           NEW i \in Items, table[i] # Absent
    PROVE  ListExists(Expand(i, 1), table)
<1> SUFFICES ASSUME NEW e \in Entries, Expand(i, 1)[e] > 0
             PROVE  table[e[1]] # Absent /\ (e[2] # NoPack => table[e[2]] # Absent)
  BY DEF ListExists
<1>1. CASE i \in DOMAIN Contents
  <2>1. e[1] \in Items
    BY DEF Entries
  <2>2. Contents[i][e[1]] \in Nat
    BY <1>1, <2>1, ConstantsAssumption
  <2>3. (IF e[2] = i THEN Contents[i][e[1]] * 1 ELSE 0) > 0
    BY <1>1 DEF Expand
  <2>4. e[2] = i /\ Contents[i][e[1]] > 0
    BY <2>2, <2>3
  <2>5. e[1] \in Items0
    BY <1>1, <2>1, <2>4, ConstantsAssumption
  <2> QED
    BY <2>4, <2>5 DEF Absent
<1>2. CASE i \notin DOMAIN Contents
  <2>1. e = <<i, NoPack>>
    BY <1>2 DEF Expand
  <2> QED
    BY <2>1
<1> QED
  BY <1>1, <1>2

LEMMA KeptList ==
    ASSUME Kept, NEW l, ListExists(l, items)
    PROVE  ListExists(l, items')
BY DEF Kept, ListExists, Entries, Vias

LEMMA FirstItemsStep ==
    ASSUME FirstItemsStay, Kept
    PROVE  FirstItemsStay'
BY ConstantsAssumption DEF FirstItemsStay, Kept, Absent

LEMMA ScannedExists ==
    ASSUME TypeOK, FirstItemsStay, Kept, NEW i \in Items, ScanItem(i)
    PROVE  ListExists(Expand(i, 1), items')
<1>1. items'[i] # Absent
  <2>1. work_session_id \in Sessions
    BY DEF ScanItem, ScanAccepted, IsOpen, TypeOK
  <2>2. work_session_id # Absent
    BY <2>1 DEF Sessions, Absent
  <2> QED
    BY <2>2 DEF ScanItem, TypeOK
<1>2. \A j \in Items0 : items'[j] = 0
  BY FirstItemsStep DEF FirstItemsStay
<1> QED
  BY <1>1, <1>2, ExpandExists

LEMMA MemoryStep ==
    ASSUME TypeOK, FocusHasSession, FirstItemsStay, SessionsExist, StagedExist,
           [Next]_vars, ~RollbackSession
    PROVE  SessionsExist' /\ StagedExist'
<1>0. Kept
  BY CreationStep
<1>t. /\ session_items \in [Bins -> [Entries -> Nat]]
      /\ session_op \in [Bins -> {"none", "add", "remove"}]
      /\ unassigned_items \in [Entries -> Nat]
      /\ \A i \in Items : Expand(i, 1) \in [Entries -> Nat]
  BY ExpandType DEF TypeOK
<1>k. \A b \in OpenBinSessions : bins'[b] # Absent /\ ListExists(session_items[b], items')
  BY <1>0, KeptList DEF Kept, SessionsExist, OpenBinSessions
<1>u. ListExists(unassigned_items, items')
  BY <1>0, KeptList DEF StagedExist
<1>1. CASE UNCHANGED <<session_op, session_items, unassigned_items>>
  BY <1>1, <1>k, <1>u DEF SessionsExist, StagedExist, OpenBinSessions
<1>2. ASSUME NEW S, DropSessions(S), UNCHANGED unassigned_items
      PROVE  SessionsExist' /\ StagedExist'
  <2>1. ASSUME NEW b \in OpenBinSessions'
        PROVE  b \in OpenBinSessions /\ session_items'[b] = session_items[b]
    BY <1>2 DEF DropSessions, OpenBinSessions
  <2> QED
    BY <1>2, <2>1, <1>k, <1>u DEF SessionsExist, StagedExist
<1>3. CASE LoseMemory
  <2>1. OpenBinSessions' = {}
    BY <1>3 DEF LoseMemory, OpenBinSessions
  <2> QED
    BY <1>3, <2>1, EmptyListExists DEF LoseMemory, SessionsExist, StagedExist
<1>4. ASSUME NEW b \in Bins, OpenBinSession(b) PROVE SessionsExist' /\ StagedExist'
  <2>1. StagedExist'
    BY <1>4, EmptyListExists DEF OpenBinSession, StagedExist
  <2>2. bins'[b] # Absent
    BY <1>0, <1>4 DEF OpenBinSession, Kept
  <2>3. ASSUME NEW c \in OpenBinSessions'
        PROVE  bins'[c] # Absent /\ ListExists(session_items'[c], items')
    <3>1. CASE c = b
      BY <1>4, <1>t, <1>u, <2>2, <3>1 DEF OpenBinSession
    <3>2. CASE c # b
      BY <1>4, <1>t, <1>k, <3>2 DEF OpenBinSession, OpenBinSessions
    <3> QED
      BY <3>1, <3>2
  <2> QED
    BY <2>1, <2>3 DEF SessionsExist
<1>5. ASSUME NEW i \in Items, StageItem(i) PROVE SessionsExist' /\ StagedExist'
  <2>1. UNCHANGED <<session_op, session_items>>
    BY <1>5 DEF StageItem, ScanItem
  <2>2. ListExists(Expand(i, 1), items')
    BY <1>0, <1>5, ScannedExists DEF StageItem
  <2>3. StagedExist'
    BY <1>5, <1>t, <1>u, <2>2, AccumulateExists DEF StageItem, StagedExist
  <2> QED
    BY <2>1, <2>3, <1>k DEF SessionsExist, OpenBinSessions
<1>6. ASSUME NEW i \in Items, AccumulateItem(i) PROVE SessionsExist' /\ StagedExist'
  <2> DEFINE b == focused_bin_id
  <2>1. /\ b \in OpenBinSessions
        /\ UNCHANGED <<session_op, unassigned_items>>
        /\ session_items' = [session_items EXCEPT ![b] =
                                Accumulate(session_items[b], Expand(i, 1))]
    BY <1>6 DEF AccumulateItem, ScanItem, FocusHasSession
  <2>2. ListExists(Expand(i, 1), items')
    BY <1>0, <1>6, ScannedExists DEF AccumulateItem
  <2>3. b \in Bins /\ session_items[b] \in [Entries -> Nat]
    BY <1>t, <2>1 DEF OpenBinSessions
  <2>4. ListExists(Accumulate(session_items[b], Expand(i, 1)), items')
    <3>1. ListExists(session_items[b], items')
      BY <1>k, <2>1
    <3> QED
      BY <1>t, <2>2, <2>3, <3>1, AccumulateExists
  <2>5. ASSUME NEW c \in OpenBinSessions'
        PROVE  bins'[c] # Absent /\ ListExists(session_items'[c], items')
    <3>1. c \in OpenBinSessions
      BY <2>1 DEF OpenBinSessions
    <3> QED
      BY <1>t, <1>k, <2>1, <2>3, <2>4, <3>1
  <2> QED
    BY <2>1, <2>5, <1>u DEF SessionsExist, StagedExist
<1>7. [Next]_vars /\ ~RollbackSession =>
         \/ UNCHANGED <<session_op, session_items, unassigned_items>>
         \/ \E S : DropSessions(S) /\ UNCHANGED unassigned_items
         \/ LoseMemory
         \/ \E b \in Bins : OpenBinSession(b)
         \/ \E i \in Items : StageItem(i) \/ AccumulateItem(i)
  BY DEF Next, ScanUnknownBin, ToggleClose, CloseBinSessions, RefocusBin,
     RefuseRemoval, ScanItem, OpenSession, RestoreSession, CommitSession,
     ManualOperation, DeleteOperation, UpdateOperationQuantity, CreateBin, Tick,
     Ticker, Restart, Reattach, CrashInClose, CrashInManual, grammar, vars
<1> QED
  BY <1>1, <1>2, <1>3, <1>4, <1>5, <1>6, <1>7

-----------------------------------------------------------------------------
(* Bins and their mono items.                                               *)

LEMMA MonoExistStep ==
    ASSUME TypeOK, MonoExist, [Next]_vars, ~RollbackSession
    PROVE  MonoExist'
<1>0. Kept /\ \A b \in DOMAIN MonoItem : b \in Bins /\ MonoItem[b] \in Items
  BY CreationStep, ConstantsAssumption
<1>1. CASE UNCHANGED bins
  BY <1>0, <1>1 DEF MonoExist, Kept
<1>2. ASSUME NEW b \in Bins, CreateBin(b) PROVE MonoExist'
  BY <1>0, <1>2 DEF CreateBin, MonoExist, Kept, TypeOK
<1>3. [Next]_vars /\ ~RollbackSession => UNCHANGED bins \/ \E b \in Bins : CreateBin(b)
  BY DEF Next, ScanUnknownBin, ToggleClose, OpenBinSession, RefocusBin, StageItem,
     AccumulateItem, RefuseRemoval, ScanItem, OpenSession, RestoreSession,
     CommitSession, ManualOperation, DeleteOperation, UpdateOperationQuantity, Tick,
     Ticker, Restart, CrashInClose, CrashInManual, tables, vars
<1> QED
  BY <1>1, <1>2, <1>3

-----------------------------------------------------------------------------
(* Rollback.                                                                *)

LEMMA DeleteCreatedKeeps ==
    ASSUME NEW D, NEW table \in [D -> Provenance], NEW held, NEW x \in D,
           x \in held \/ table[x] # work_session_id
    PROVE  DeleteCreated(table, held)[x] = table[x]
BY DEF DeleteCreated

LEMMA DeleteCreatedOnly ==
    ASSUME NEW D, NEW table \in [D -> Provenance], NEW held, NEW x \in D
    PROVE  DeleteCreated(table, held)[x] \in {table[x], Absent}
BY DEF DeleteCreated

(* Nothing held: all is deleted.                                            *)
LEMMA DeleteCreatedAll ==
    ASSUME NEW D, NEW table \in [D -> Provenance], NEW held, NEW x \in D,
           \A y \in D \cap held : table[y] # work_session_id,
           work_session_id # Absent
    PROVE  DeleteCreated(table, held)[x] # work_session_id
BY DEF DeleteCreated

LEMMA RollbackTables ==
    ASSUME TypeOK, RollbackSession
    PROVE  /\ bins \in [Bins -> Provenance] /\ items \in [Items -> Provenance]
           /\ work_session_id \in Sessions /\ work_session_id # Absent
           /\ buffered_operations' = buffered_operations \ BufferedOf(work_session_id)
           /\ audit_log' = audit_log
           /\ bins' = DeleteCreated(bins, {b \in Bins : BinHeld(b, buffered_operations')})
           /\ items' = DeleteCreated(items,
                         {i \in Items : ItemHeld(i, buffered_operations', bins')})
<1>1. work_session_id \in Sessions
  BY DEF RollbackSession, TypeOK
<1>2. work_session_id # Absent
  BY <1>1 DEF Sessions, Absent
<1> QED
  BY <1>1, <1>2 DEF RollbackSession, TypeOK

LEMMA RollbackExistStep ==
    ASSUME TypeOK, RowsExist, MonoExist, FirstItemsStay, RollbackSession
    PROVE  RowsExist' /\ SessionsExist' /\ StagedExist' /\ MonoExist' /\ FirstItemsStay'
<1> USE RollbackTables
<1> DEFINE rows == buffered_operations'
<1>1. ASSUME NEW b \in Bins, BinHeld(b, rows) PROVE bins'[b] = bins[b]
  BY <1>1, DeleteCreatedKeeps
<1>2. ASSUME NEW i \in Items, ItemHeld(i, rows, bins') PROVE items'[i] = items[i]
  BY <1>2, DeleteCreatedKeeps
<1>3. RowsExist'
  <2> SUFFICES ASSUME NEW r \in buffered_operations' \cup audit_log'
               PROVE  Exists(r)'
    BY DEF RowsExist
  <2>1. r \in buffered_operations \cup audit_log
    OBVIOUS
  <2>2. r.bin \in Bins /\ r.item \in Items /\ r.via \in Vias
    BY <2>1 DEF TypeOK, Rows, AuditRows
  <2>3. BinHeld(r.bin, rows) /\ ItemHeld(r.item, rows, bins') /\ ItemHeld(r.via, rows, bins')
    BY DEF BinHeld, ItemHeld
  <2> QED
    BY <1>1, <1>2, <2>1, <2>2, <2>3 DEF RowsExist, Exists, Vias
<1>4. MonoExist'
  <2> SUFFICES ASSUME NEW b \in DOMAIN MonoItem, bins'[b] # Absent
               PROVE  items'[MonoItem[b]] # Absent
    BY DEF MonoExist
  <2>1. b \in Bins /\ MonoItem[b] \in Items
    BY ConstantsAssumption
  <2>2. bins[b] # Absent
    BY <2>1, DeleteCreatedOnly
  <2>3. ItemHeld(MonoItem[b], rows, bins')
    BY DEF ItemHeld
  <2> QED
    BY <1>2, <2>1, <2>2, <2>3 DEF MonoExist
<1>5. FirstItemsStay'
  <2> SUFFICES ASSUME NEW i \in Items0 PROVE items'[i] = 0
    BY DEF FirstItemsStay
  <2>1. i \in Items /\ items[i] = 0
    BY ConstantsAssumption DEF FirstItemsStay
  <2>2. items[i] # work_session_id
    BY <2>1 DEF Sessions
  <2> QED
    BY <2>1, <2>2, DeleteCreatedKeeps
<1>6. SessionsExist' /\ StagedExist'
  <2>1. LoseMemory
    BY DEF RollbackSession
  <2>2. OpenBinSessions' = {}
    BY <2>1 DEF LoseMemory, OpenBinSessions
  <2> QED
    BY <2>1, <2>2, EmptyListExists DEF LoseMemory, SessionsExist, StagedExist
<1> QED
  BY <1>3, <1>4, <1>5, <1>6

-----------------------------------------------------------------------------
(* The first theorem.                                                       *)

ReferenceInv == NoDanglingReferences /\ FirstItemsStay

LEMMA ReferenceStep ==
    TypeOK /\ TypeOK' /\ FocusHasSession /\ SessionMirrorsTable /\ BatchOfOneSession
           /\ ReferenceInv /\ [Next]_vars
        => ReferenceInv'
<1> SUFFICES ASSUME TypeOK, TypeOK', FocusHasSession, SessionMirrorsTable,
                    BatchOfOneSession, ReferenceInv, [Next]_vars
             PROVE  ReferenceInv'
  OBVIOUS
<1>1. RowsExist /\ SessionsExist /\ StagedExist /\ MonoExist /\ FirstItemsStay
  BY DanglingParts DEF ReferenceInv
<1>2. RowsExist' /\ SessionsExist' /\ StagedExist' /\ MonoExist' /\ FirstItemsStay'
  <2>1. CASE RollbackSession
    BY <1>1, <2>1, RollbackExistStep
  <2>2. CASE ~RollbackSession
    BY <1>1, <2>2, RowsExistStep, MemoryStep, MonoExistStep, CreationStep, FirstItemsStep
  <2> QED
    BY <2>1, <2>2
<1>3. RowsExist' /\ SessionsExist' /\ StagedExist' /\ MonoExist' => NoDanglingReferences'
  BY DanglingParts, PTL
<1> QED
  BY <1>2, <1>3 DEF ReferenceInv

LEMMA ReferenceInvariant == Spec => []ReferenceInv
<1>1. Init => ReferenceInv
  <2> SUFFICES ASSUME Init PROVE ReferenceInv
    OBVIOUS
  <2>1. \A i \in Items0 : items[i] = 0
    BY ConstantsAssumption DEF Init
  <2>2. \A b \in DOMAIN MonoItem : bins[b] # Absent => items[MonoItem[b]] # Absent
    BY <2>1, ConstantsAssumption DEF Init, Absent
  <2>3. OpenBinSessions = {} /\ buffered_operations \cup audit_log = {}
    BY DEF Init, OpenBinSessions
  <2>4. \A e \in Entries : unassigned_items[e] = 0
    BY DEF Init, EmptyList
  <2> QED
    BY <2>1, <2>2, <2>3, <2>4 DEF ReferenceInv, NoDanglingReferences, FirstItemsStay
<1>2. AuditInv /\ AuditInv' /\ ReferenceInv /\ [Next]_vars => ReferenceInv'
  BY ReferenceStep DEF AuditInv, TypeInv
<1> QED
  BY <1>1, <1>2, AuditInvariant, PTL DEF Spec

(***************************************************************************)
(* Everything that refers to a bin or an item refers to one that exists,   *)
(* whatever was rolled back: no insert of scanned items fails on its       *)
(* foreign keys, and no committed row loses the bin or item it names.      *)
(***************************************************************************)
THEOREM ReferencesCorrect == Spec => []NoDanglingReferences
<1>1. ReferenceInv => NoDanglingReferences
  BY DEF ReferenceInv
<1> QED
  BY <1>1, ReferenceInvariant, PTL

-----------------------------------------------------------------------------
(* Who created what.                                                        *)

(* No bin or item was created in a session that has not been opened yet.    *)
CreatedInOpened ==
    /\ \A b \in Bins : bins[b] \in Sessions => work_sessions[bins[b]] # "absent"
    /\ \A i \in Items : items[i] \in Sessions => work_sessions[items[i]] # "absent"

(* What the session has created is used in the session only.                *)
OwnCreations ==
    work_session_id # 0 =>
        /\ \A r \in buffered_operations : r.ws # work_session_id =>
              /\ bins[r.bin] # work_session_id
              /\ items[r.item] # work_session_id
              /\ r.via # NoPack => items[r.via] # work_session_id
        /\ \A b \in DOMAIN MonoItem : bins[b] \notin {Absent, work_session_id} =>
              items[MonoItem[b]] # work_session_id

LEMMA CreatedInOpenedStep ==
    ASSUME TypeOK, SessionMirrorsTable, CreatedInOpened, [Next]_vars
    PROVE  CreatedInOpened'
<1>1. ASSUME NEW p, NEW q, q \in {p, work_session_id, Absent},
             p \in Sessions => work_sessions[p] # "absent", q \in Sessions
      PROVE  work_sessions'[q] # "absent"
  <2>1. q # Absent
    BY <1>1 DEF Sessions, Absent
  <2>2. work_sessions[q] # "absent"
    <3>1. CASE q = p
      BY <1>1, <3>1
    <3>2. CASE q = work_session_id
      <4>1. work_session_id # 0
        BY <1>1, <3>2 DEF Sessions
      <4> QED
        BY <3>2, <4>1, SessionNotCommitted
    <3> QED
      BY <1>1, <2>1, <3>1, <3>2
  <2> QED
    BY <1>1, <2>2, OpenedStaysOpened
<1>2. /\ \A b \in Bins : bins'[b] \in {bins[b], work_session_id, Absent}
      /\ \A i \in Items : items'[i] \in {items[i], work_session_id, Absent}
  <2>1. CASE RollbackSession
    BY <2>1, RollbackTables, DeleteCreatedOnly
  <2>2. CASE ~RollbackSession
    BY <2>2, CreationStep DEF CreatedOwn
  <2> QED
    BY <2>1, <2>2
<1> QED
  BY <1>1, <1>2 DEF CreatedInOpened

(* The session in memory stays, ends or is a new one.                       *)
LEMMA SessionStep ==
    ASSUME SessionMirrorsTable, SessionMirrorsTable', [Next]_vars
    PROVE  OpenSession \/ work_session_id' = 0 \/ work_session_id' = work_session_id
<1>1. \/ OpenSession
      \/ work_session_id' = 0
      \/ work_session_id' = work_session_id
      \/ UNCHANGED work_sessions
  BY DEF Next, ScanUnknownBin, ToggleClose, OpenBinSession, RefocusBin, StageItem,
     AccumulateItem, RefuseRemoval, ScanItem, RestoreSession, CommitSession,
     RollbackSession, ManualOperation, DeleteOperation, UpdateOperationQuantity,
     CreateBin, Tick, Ticker, Restart, CrashInClose, CrashInManual, tables, session, vars
<1> QED
  BY <1>1, SameTableSamePhase

LEMMA OwnCreationsStep ==
    ASSUME TypeOK, TypeOK', SessionMirrorsTable, SessionMirrorsTable', BatchOfOneSession,
           RowsExist, MonoExist, CreatedInOpened, OwnCreations, [Next]_vars
    PROVE  OwnCreations'
<1>0. \A r \in buffered_operations : r.bin \in Bins /\ r.item \in Items /\ r.via \in Vias
  BY DEF TypeOK, Rows
<1>m. \A b \in DOMAIN MonoItem : b \in Bins /\ MonoItem[b] \in Items
  BY ConstantsAssumption
<1>1. CASE work_session_id' = 0
  BY <1>1 DEF OwnCreations
<1>2. CASE OpenSession
  <2>1. /\ UNCHANGED <<buffered_operations, bins, items>>
        /\ work_session_id' \in Sessions
        /\ work_sessions[work_session_id'] = "absent"
    BY <1>2 DEF OpenSession
  <2>2. /\ \A b \in Bins : bins[b] # work_session_id'
        /\ \A i \in Items : items[i] # work_session_id'
    BY <2>1 DEF CreatedInOpened
  <2> QED
    BY <1>0, <1>m, <2>1, <2>2 DEF OwnCreations, Vias
<1>3. CASE work_session_id' = work_session_id /\ work_session_id # 0
  <2>1. ~RollbackSession
    BY <1>3 DEF RollbackSession
  <2>2. Kept /\ CreatedOwn
    BY <2>1, CreationStep
  <2>3. OwnEdit
    BY CommitOwnEdit, OwnEditStep
  <2>4. ASSUME NEW r \in buffered_operations', r.ws # work_session_id
        PROVE  /\ bins'[r.bin] # work_session_id
               /\ items'[r.item] # work_session_id
               /\ r.via # NoPack => items'[r.via] # work_session_id
    <3>1. r \in buffered_operations
      BY <2>3, <2>4 DEF OwnEdit
    <3>2. Exists(r)
      BY <3>1 DEF RowsExist
    <3> QED
      BY <1>0, <1>3, <2>2, <2>4, <3>1, <3>2 DEF OwnCreations, Exists, Kept, Vias
  <2>5. ASSUME NEW b \in DOMAIN MonoItem, bins'[b] \notin {Absent, work_session_id}
        PROVE  items'[MonoItem[b]] # work_session_id
    <3>1. bins'[b] = bins[b]
      BY <1>m, <2>2, <2>5 DEF CreatedOwn
    <3>2. items[MonoItem[b]] \notin {Absent, work_session_id}
      BY <1>3, <2>5, <3>1 DEF OwnCreations, MonoExist
    <3> QED
      BY <1>m, <2>2, <3>2 DEF Kept
  <2> QED
    BY <1>3, <2>4, <2>5 DEF OwnCreations
<1> QED
  BY <1>1, <1>2, <1>3, SessionStep

-----------------------------------------------------------------------------
(* Rollback is a full undo.                                                 *)

(* The audit log, too, refers to nothing the session has created.           *)
LEMMA AuditNotOwn ==
    ASSUME TypeOK, SessionMirrorsTable, AuditIsCommittedBuffer, OwnCreations,
           work_session_id # 0, NEW a \in audit_log
    PROVE  /\ bins[a.bin] # work_session_id
           /\ items[a.item] # work_session_id
           /\ a.via # NoPack => items[a.via] # work_session_id
<1>1. PICK r \in Committed : a = Audited(r)
  BY DEF AuditIsCommittedBuffer, AuditOf, Audited
<1>2. r \in buffered_operations /\ r.ws # work_session_id
  BY SessionNotCommitted DEF Committed
<1>3. a.bin = r.bin /\ a.item = r.item /\ a.via = r.via
  BY <1>1 DEF Audited
<1> QED
  BY <1>2, <1>3 DEF OwnCreations

LEMMA RollbackErases ==
    ASSUME TypeOK, SessionMirrorsTable, AuditIsCommittedBuffer, OwnCreations,
           RollbackSession
    PROVE  /\ \A b \in Bins : bins'[b] # work_session_id
           /\ \A i \in Items : items'[i] # work_session_id
<1> USE RollbackTables
<1> DEFINE rows == buffered_operations'
<1>0. work_session_id # 0
  BY DEF RollbackSession
<1>1. ASSUME NEW r \in rows \cup audit_log
      PROVE  /\ bins[r.bin] # work_session_id
             /\ items[r.item] # work_session_id
             /\ r.via # NoPack => items[r.via] # work_session_id
  BY <1>0, AuditNotOwn DEF OwnCreations, BufferedOf
<1>2. \A b \in Bins : BinHeld(b, rows) => bins[b] # work_session_id
  BY <1>1 DEF BinHeld
<1>3. \A b \in Bins : bins'[b] # work_session_id
  BY <1>2, DeleteCreatedAll
<1>4. ASSUME NEW i \in Items, ItemHeld(i, rows, bins')
      PROVE  items[i] # work_session_id
  <2>1. ASSUME NEW r \in rows \cup audit_log, i \in {r.item, r.via}
        PROVE  items[i] # work_session_id
    BY <1>1, <2>1, ConstantsAssumption
  <2>2. ASSUME NEW b \in DOMAIN MonoItem, bins'[b] # Absent, MonoItem[b] = i
        PROVE  items[i] # work_session_id
    <3>1. b \in Bins
      BY ConstantsAssumption
    <3>2. bins[b] \notin {Absent, work_session_id}
      BY <1>3, <2>2, <3>1, DeleteCreatedOnly
    <3> QED
      BY <1>0, <2>2, <3>2 DEF OwnCreations
  <2> QED
    BY <1>4, <2>1, <2>2 DEF ItemHeld
<1>5. \A i \in Items : items'[i] # work_session_id
  BY <1>4, DeleteCreatedAll
<1> QED
  BY <1>3, <1>5

LEMMA RolledBackBefore ==
    ASSUME TypeOK, [Next]_vars, NEW s \in Sessions, work_sessions'[s] = "rolled_back",
           ~(RollbackSession /\ s = work_session_id)
    PROVE  work_sessions[s] = "rolled_back"
<1>0. work_sessions \in [Sessions -> Status]
  BY DEF TypeOK
<1>1. ASSUME NEW t, NEW st, st # "rolled_back" \/ t # s,
             work_sessions' = [work_sessions EXCEPT ![t] = st]
      PROVE  work_sessions[s] = "rolled_back"
  BY <1>0, <1>1
<1>2. CASE OpenSession
  BY <1>1, <1>2 DEF OpenSession
<1>3. CASE RestoreSession
  BY <1>1, <1>3 DEF RestoreSession
<1>4. CASE CommitSession
  BY <1>1, <1>4 DEF CommitSession
<1>5. CASE RollbackSession
  BY <1>1, <1>5 DEF RollbackSession
<1>6. CASE Ticker
  BY <1>1, <1>6 DEF Ticker
<1>7. \/ UNCHANGED work_sessions
      \/ OpenSession \/ RestoreSession \/ CommitSession \/ RollbackSession \/ Ticker
  BY DEF Next, ScanUnknownBin, ToggleClose, OpenBinSession, RefocusBin, StageItem,
     AccumulateItem, RefuseRemoval, ScanItem, ManualOperation, DeleteOperation,
     UpdateOperationQuantity, CreateBin, Tick, Restart, CrashInClose, CrashInManual,
     tables, vars
<1> QED
  BY <1>2, <1>3, <1>4, <1>5, <1>6, <1>7

LEMMA NoTraceStep ==
    ASSUME TypeOK, TypeOK', SessionMirrorsTable, BatchOfOneSession,
           AuditIsCommittedBuffer, OwnCreations, NoTraceOfRolledBack, [Next]_vars
    PROVE  NoTraceOfRolledBack'
<1> SUFFICES ASSUME NEW s \in Sessions, work_sessions'[s] = "rolled_back"
             PROVE  /\ \A r \in buffered_operations' : r.ws # s
                    /\ \A b \in Bins : bins'[b] # s
                    /\ \A i \in Items : items'[i] # s
  BY DEF NoTraceOfRolledBack, BufferedOf
<1>1. CASE RollbackSession /\ s = work_session_id
  BY <1>1, RollbackErases, RollbackTables DEF BufferedOf
<1>2. CASE ~(RollbackSession /\ s = work_session_id)
  <2>1. work_sessions[s] = "rolled_back"
    BY <1>2, RolledBackBefore
  <2>2. /\ \A r \in buffered_operations : r.ws # s
        /\ \A b \in Bins : bins[b] # s
        /\ \A i \in Items : items[i] # s
    BY <2>1 DEF NoTraceOfRolledBack, BufferedOf
  <2>3. work_session_id # s /\ Absent # s
    BY <2>1, SessionNotCommitted DEF Sessions, Absent
  <2>4. OwnEdit
    BY CommitOwnEdit, OwnEditStep
  <2>5. \A r \in buffered_operations' : r.ws # s
    BY <2>2, <2>3, <2>4 DEF OwnEdit
  <2>6. /\ \A b \in Bins : bins'[b] \in {bins[b], work_session_id, Absent}
        /\ \A i \in Items : items'[i] \in {items[i], work_session_id, Absent}
    <3>1. CASE RollbackSession
      BY <3>1, RollbackTables, DeleteCreatedOnly
    <3>2. CASE ~RollbackSession
      BY <3>2, CreationStep DEF CreatedOwn
    <3> QED
      BY <3>1, <3>2
  <2> QED
    BY <2>2, <2>3, <2>5, <2>6
<1> QED
  BY <1>1, <1>2

TraceInv ==
    /\ AuditInv /\ ReferenceInv
    /\ CreatedInOpened /\ OwnCreations /\ NoTraceOfRolledBack

LEMMA TraceInvariant == Spec => []TraceInv
<1>1. Init => CreatedInOpened /\ OwnCreations /\ NoTraceOfRolledBack
  <2> SUFFICES ASSUME Init PROVE CreatedInOpened /\ OwnCreations /\ NoTraceOfRolledBack
    OBVIOUS
  <2>1. /\ \A b \in Bins : bins[b] \in {0, Absent}
        /\ \A i \in Items : items[i] \in {0, Absent}
    BY DEF Init
  <2>2. 0 \notin Sessions /\ Absent \notin Sessions
    BY DEF Sessions, Absent
  <2>3. work_session_id = 0 /\ \A s \in Sessions : work_sessions[s] = "absent"
    BY DEF Init
  <2> QED
    BY <2>1, <2>2, <2>3 DEF CreatedInOpened, OwnCreations, NoTraceOfRolledBack
<1>2. /\ AuditInv /\ AuditInv' /\ ReferenceInv
      /\ CreatedInOpened /\ OwnCreations /\ NoTraceOfRolledBack
      /\ [Next]_vars
      => CreatedInOpened' /\ OwnCreations' /\ NoTraceOfRolledBack'
  <2> SUFFICES ASSUME AuditInv, AuditInv', ReferenceInv, CreatedInOpened, OwnCreations,
                      NoTraceOfRolledBack, [Next]_vars
               PROVE  CreatedInOpened' /\ OwnCreations' /\ NoTraceOfRolledBack'
    OBVIOUS
  <2>1. /\ TypeOK /\ TypeOK' /\ SessionMirrorsTable /\ SessionMirrorsTable'
        /\ BatchOfOneSession /\ AuditIsCommittedBuffer
    BY DEF AuditInv, TypeInv
  <2>2. RowsExist /\ MonoExist
    BY DanglingParts DEF ReferenceInv
  <2> QED
    BY <2>1, <2>2, CreatedInOpenedStep, OwnCreationsStep, NoTraceStep
<1> QED
  BY <1>1, <1>2, AuditInvariant, ReferenceInvariant, PTL DEF Spec, TraceInv

(***************************************************************************)
(* A rollback is a full undo: no row, bin or item of a work session that   *)
(* was rolled back is left, then or later, although each DELETE may be     *)
(* refused by a foreign key and its result is ignored.                     *)
(***************************************************************************)
THEOREM RollbackCorrect == Spec => []NoTraceOfRolledBack
<1>1. TraceInv => NoTraceOfRolledBack
  BY DEF TraceInv
<1> QED
  BY <1>1, TraceInvariant, PTL

-----------------------------------------------------------------------------
(* Proofs that scanning cannot take more out of a bin than it holds, and    *)
(* that what is scanned reaches the stock.                                  *)
(*                                                                          *)
(* What a work session claims of an item in a bin is what its rows remove   *)
(* and what a removal in the bin holds.  A scan adds to the claim at most   *)
(* what the guard says is left; closing a bin-session, in full or cut short *)
(* by a crash, moves at most as much from its list to the rows; a commit    *)
(* takes out at most what was claimed.                                      *)
(*                                                                          *)
(* That a close moves a whole list needs more: every row it writes must be  *)
(* accepted by the foreign keys (SessionsExist), and be new to the buffer.  *)

(* Only scans remove: nobody uses the panel to remove items or to change    *)
(* the quantity of a row, neither of which looks at the live bin-sessions.  *)
ScansOnly == "manual" \notin Calls /\ "update" \notin Calls

Removing(b, i) == IF session_op[b] = "remove" THEN ListQty(session_items[b], i) ELSE 0
Claimed(b, i)  == BufferedRemovedSum(b, i) + Removing(b, i)

Covered ==
    \A b \in Bins, i \in Items :
        /\ bin_stock[<<b, i>>] >= 0
        /\ work_session_id # 0 => Claimed(b, i) <= bin_stock[<<b, i>>]

LEMMA CoveredParts == ScanRemovalCovered <=> Covered
BY DEF ScanRemovalCovered, Covered, Claimed, Removing

-----------------------------------------------------------------------------
(* Quantities of rows.                                                      *)

LEMMA SelectFinite ==
    ASSUME NEW R \in SUBSET Rows, IsFiniteSet(R), NEW op, NEW b, NEW i
    PROVE  IsFiniteSet(Select(R, op, b, i)) /\ HaveQty(Select(R, op, b, i))
<1>1. Select(R, op, b, i) \in SUBSET R
  BY DEF Select
<1> QED
  BY <1>1, FS_Subset DEF HaveQty, Rows

LEMMA QtyMonotone ==
    ASSUME NEW R, IsFiniteSet(R), HaveQty(R), NEW S \in SUBSET R
    PROVE  Qty(S) \in Nat /\ Qty(R) \in Nat /\ Qty(S) <= Qty(R)
<1>1. IsFiniteSet(S) /\ HaveQty(S)
  BY FS_Subset DEF HaveQty
<1>2. RowUnits(S) \in SUBSET RowUnits(R)
  BY DEF RowUnits
<1>3. IsFiniteSet(RowUnits(R))
  BY UnitsFinite
<1>4. Cardinality(RowUnits(S)) <= Cardinality(RowUnits(R))
  BY <1>2, <1>3, FS_Subset
<1> QED
  BY <1>1, <1>4, QtyType DEF Qty

LEMMA SelectUnion ==
    ASSUME NEW R \in SUBSET Rows, IsFiniteSet(R), NEW X \in SUBSET Rows, IsFiniteSet(X),
           NEW op, NEW b, NEW i
    PROVE  Qty(Select(R \cup X, op, b, i)) <= Qty(Select(R, op, b, i)) + Qty(Select(X, op, b, i))
<1> DEFINE old == Select(R, op, b, i)
           new == Select(X, op, b, i) \ old
<1>1. Select(R \cup X, op, b, i) = old \cup new /\ old \cap new = {}
  BY DEF Select
<1>2. IsFiniteSet(old) /\ HaveQty(old)
  BY SelectFinite
<1>3. /\ IsFiniteSet(Select(X, op, b, i)) /\ HaveQty(Select(X, op, b, i))
      /\ new \in SUBSET Select(X, op, b, i)
  BY SelectFinite
<1>4. IsFiniteSet(new) /\ HaveQty(new)
  BY <1>3, FS_Subset DEF HaveQty
<1> HIDE DEF old, new
<1>5. Qty(old \cup new) = Qty(old) + Qty(new)
  BY <1>1, <1>2, <1>4, QtyDisjointUnion
<1>6. Qty(new) <= Qty(Select(X, op, b, i))
  BY <1>3, QtyMonotone
<1>7. Qty(old) \in Nat /\ Qty(new) \in Nat /\ Qty(Select(X, op, b, i)) \in Nat
  BY <1>2, <1>3, <1>4, QtyType
<1>8. ASSUME NEW a \in Nat, NEW c \in Nat, NEW d \in Nat, c <= d PROVE a + c <= a + d
  BY <1>8
<1>9. Qty(old \cup new) <= Qty(old) + Qty(Select(X, op, b, i))
  BY <1>5, <1>6, <1>7, <1>8
<1> QED
  BY <1>1, <1>9 DEF old

-----------------------------------------------------------------------------
(* Quantities of pending lists.                                             *)

LEMMA ListUnitsFinite ==
    ASSUME NEW l \in [Entries -> Nat], NEW i \in Items
    PROVE  IsFiniteSet(ListUnits(l, i))
<1> DEFINE f == [v \in Vias |-> {v} \X (1 .. l[<<i, v>>])]
           T == {f[v] : v \in Vias}
<1>1. IsFiniteSet(Vias)
  BY ConstantsAssumption, FS_AddElement DEF Vias
<1>2. f \in [Vias -> T]
  OBVIOUS
<1>3. IsFiniteSet({f[v] : v \in Vias})
  <2> HIDE DEF f, T
  <2> QED BY <1>1, <1>2, ValuesFinite
<1>4. {f[v] : v \in Vias} = {{v} \X (1 .. l[<<i, v>>]) : v \in Vias}
  OBVIOUS
<1>5. IsFiniteSet({{v} \X (1 .. l[<<i, v>>]) : v \in Vias})
  BY <1>3, <1>4
<1>6. ASSUME NEW v \in Vias PROVE IsFiniteSet({v} \X (1 .. l[<<i, v>>]))
  <2>1. <<i, v>> \in Entries
    BY DEF Entries
  <2>2. l[<<i, v>>] \in Int
    BY <2>1
  <2>3. IsFiniteSet(1 .. l[<<i, v>>])
    BY <2>2, FS_Interval
  <2> QED
    BY <2>3, FS_Singleton, FS_Product
<1> QED
  BY <1>5, <1>6, FS_UNION DEF ListUnits

LEMMA ListQtyType ==
    ASSUME NEW l \in [Entries -> Nat], NEW i \in Items
    PROVE  ListQty(l, i) \in Nat
BY ListUnitsFinite, FS_CardinalityType DEF ListQty

LEMMA ListQtyEmpty ==
    ASSUME NEW i \in Items
    PROVE  ListQty(EmptyList, i) = 0
<1>1. \A v \in Vias : EmptyList[<<i, v>>] = 0
  BY DEF EmptyList, Entries
<1>2. 1 .. 0 = {}
  OBVIOUS
<1>3. ListUnits(EmptyList, i) = {}
  BY <1>1, <1>2 DEF ListUnits
<1> QED
  BY <1>3, FS_EmptySet DEF ListQty

(* Of each item a scan adds one entry only: loose, or by its pack.          *)
LEMMA ListQtyAdded ==
    ASSUME NEW l \in [Entries -> Nat], NEW m \in [Entries -> Nat], NEW i \in Items,
           NEW v \in Vias, \A w \in Vias \ {v} : m[<<i, w>>] = 0
    PROVE  ListQty(Accumulate(l, m), i) = ListQty(l, i) + m[<<i, v>>]
<1> DEFINE x == l[<<i, v>>]
           k == m[<<i, v>>]
           old == ListUnits(l, i)
           new == {v} \X ((x + 1) .. (x + k))
           all == ListUnits(Accumulate(l, m), i)
<1>1. \A w \in Vias : <<i, w>> \in Entries
  BY DEF Entries
<1>2. x \in Nat /\ k \in Nat
  BY <1>1
<1>3. Accumulate(l, m) \in [Entries -> Nat]
  BY AccumulateType
<1>4. all \subseteq old \cup new
  <2> SUFFICES ASSUME NEW u \in all PROVE u \in old \cup new
    OBVIOUS
  <2>0. PICK w \in Vias : u \in {w} \X (1 .. Accumulate(l, m)[<<i, w>>])
    BY DEF ListUnits
  <2> DEFINE j == u[2]
  <2>4. u = <<w, j>> /\ j \in 1 .. Accumulate(l, m)[<<i, w>>]
    BY <2>0
  <2>1. Accumulate(l, m)[<<i, w>>] = l[<<i, w>>] + m[<<i, w>>]
    BY <1>1 DEF Accumulate
  <2>2. CASE w = v
    <3>1. j \in 1 .. (x + k)
      BY <2>1, <2>2, <2>4
    <3>2. j \in 1 .. x \/ j \in (x + 1) .. (x + k)
      BY <1>2, <3>1
    <3> QED
      BY <2>2, <2>4, <3>2 DEF ListUnits
  <2>3. CASE w # v
    <3>1. l[<<i, w>>] \in Nat /\ m[<<i, w>>] = 0
      BY <1>1, <2>3
    <3>2. j \in 1 .. l[<<i, w>>]
      BY <2>1, <2>4, <3>1
    <3> QED
      BY <2>4, <3>2 DEF ListUnits
  <2> QED
    BY <2>2, <2>3
<1>20. old \cup new \subseteq all
  <2>1. ASSUME NEW u \in old PROVE u \in all
    <3>1. PICK w \in Vias : u \in {w} \X (1 .. l[<<i, w>>])
      BY <2>1 DEF ListUnits
    <3> DEFINE j == u[2]
    <3>2. u = <<w, j>> /\ j \in 1 .. l[<<i, w>>]
      BY <3>1
    <3>3. l[<<i, w>>] \in Nat /\ m[<<i, w>>] \in Nat
      BY <1>1
    <3>4. Accumulate(l, m)[<<i, w>>] = l[<<i, w>>] + m[<<i, w>>]
      BY <1>1 DEF Accumulate
    <3>5. j \in 1 .. Accumulate(l, m)[<<i, w>>]
      BY <3>2, <3>3, <3>4
    <3> QED
      BY <3>2, <3>5 DEF ListUnits
  <2>2. ASSUME NEW u \in new PROVE u \in all
    <3> DEFINE j == u[2]
    <3>1. u = <<v, j>> /\ j \in (x + 1) .. (x + k)
      BY <2>2
    <3>2. Accumulate(l, m)[<<i, v>>] = x + k
      BY <1>1 DEF Accumulate
    <3>3. j \in 1 .. (x + k)
      BY <1>2, <3>1
    <3> QED
      BY <3>1, <3>2, <3>3 DEF ListUnits
  <2> QED
    BY <2>1, <2>2
<1>21. old \cap new = {}
  <2> SUFFICES ASSUME NEW u \in old, u \in new PROVE FALSE
    OBVIOUS
  <2> DEFINE j == u[2]
  <2>1. u = <<v, j>> /\ j \in (x + 1) .. (x + k)
    OBVIOUS
  <2>2. PICK w \in Vias : u \in {w} \X (1 .. l[<<i, w>>])
    BY DEF ListUnits
  <2>3. j \in 1 .. x
    BY <2>1, <2>2
  <2> QED
    BY <1>2, <2>1, <2>3
<1>5. IsFiniteSet(old)
  BY ListUnitsFinite
<1>6. IsFiniteSet(new) /\ Cardinality(new) = k
  <2>1. IsFiniteSet((x + 1) .. (x + k)) /\ Cardinality((x + 1) .. (x + k)) = k
    <3>1. x + 1 \in Int /\ x + k \in Int
      BY <1>2
    <3>2. ASSUME NEW p \in Nat, NEW q \in Nat
          PROVE  (IF p + 1 > p + q THEN 0 ELSE (p + q) - (p + 1) + 1) = q
      OBVIOUS
    <3>3. (IF x + 1 > x + k THEN 0 ELSE (x + k) - (x + 1) + 1) = k
      BY <1>2, <3>2
    <3> HIDE DEF x, k
    <3> QED
      BY <3>1, <3>3, FS_Interval
  <2>2. IsFiniteSet({v}) /\ Cardinality({v}) = 1
    BY FS_Singleton
  <2> HIDE DEF x, k
  <2>3. 1 * k = k
    BY <1>2
  <2> DEFINE span == (x + 1) .. (x + k)
  <2> HIDE DEF span
  <2>4. IsFiniteSet(span) /\ Cardinality(span) = k
    BY <2>1 DEF span
  <2>5. /\ IsFiniteSet({v} \X span)
        /\ Cardinality({v} \X span) = Cardinality({v}) * Cardinality(span)
    BY <2>2, <2>4, FS_Product
  <2> QED
    BY <2>2, <2>3, <2>4, <2>5 DEF span
<1> HIDE DEF old, new, all, k
<1>7. all = old \cup new
  BY <1>4, <1>20
<1>8. Cardinality(old \cup new)
        = Cardinality(old) + Cardinality(new) - Cardinality(old \cap new)
  BY <1>5, <1>6, FS_Union
<1>9. Cardinality(old \cap new) = 0
  BY <1>21, FS_EmptySet
<1>10. Cardinality(old) \in Nat
  BY <1>5, FS_CardinalityType
<1>11. ASSUME NEW o \in Nat, NEW n \in Nat PROVE o + n - 0 = o + n
  OBVIOUS
<1>12. Cardinality(all) = Cardinality(old) + k
  BY <1>2, <1>6, <1>7, <1>8, <1>9, <1>10, <1>11
<1> QED
  BY <1>12 DEF ListQty, old, all, k

(* What a scan adds to any list is what its own list amounts to.            *)
LEMMA ListQtySum ==
    ASSUME NEW l \in [Entries -> Nat], NEW j \in Items, NEW i \in Items
    PROVE  ListQty(Accumulate(l, Expand(j, 1)), i)
              = ListQty(l, i) + ListQty(Expand(j, 1), i)
<1> DEFINE m == Expand(j, 1)
           v == IF j \in DOMAIN Contents THEN j ELSE NoPack
<1>1. m \in [Entries -> Nat] /\ v \in Vias
  BY ExpandType DEF Vias
<1>2. \A w \in Vias : <<i, w>> \in Entries
  BY DEF Entries
<1>3. \A w \in Vias \ {v} : m[<<i, w>>] = 0
  BY <1>2 DEF Expand
<1>4. m[<<i, v>>] \in Nat
  BY <1>1, <1>2
<1>5. Accumulate(EmptyList, m) = m
  <2>1. \A e \in Entries : m[e] \in Nat /\ EmptyList[e] = 0
    BY <1>1 DEF EmptyList
  <2>2. \A e \in Entries : EmptyList[e] + m[e] = m[e]
    BY <2>1
  <2>3. Accumulate(EmptyList, m) = [e \in Entries |-> m[e]]
    BY <2>2 DEF Accumulate
  <2> HIDE DEF m
  <2> QED
    BY <1>1, <2>3
<1> HIDE DEF m, v
<1>6. ListQty(Accumulate(EmptyList, m), i) = ListQty(EmptyList, i) + m[<<i, v>>]
  BY <1>1, <1>3, EmptyListType, ListQtyAdded
<1>7. ListQty(m, i) = 0 + m[<<i, v>>]
  BY <1>5, <1>6, ListQtyEmpty
<1>8. ListQty(Accumulate(l, m), i) = ListQty(l, i) + m[<<i, v>>]
  BY <1>1, <1>3, ListQtyAdded
<1>9. ListQty(m, i) = m[<<i, v>>]
  BY <1>4, <1>7
<1> QED
  BY <1>8, <1>9 DEF m

-----------------------------------------------------------------------------
(* Closing bin-sessions.                                                    *)

LEMMA PartFoldedType ==
    ASSUME TypeOK, work_session_id \in Sessions, NEW n \in Batches,
           NEW X \in SUBSET FoldedRows(n)
    PROVE  X \in SUBSET Rows /\ IsFiniteSet(X)
<1>1. FoldedRows(n) \subseteq Rows
  BY TypeParts, ClosedRowsUnionType DEF FoldedRows
<1>2. IsFiniteSet(FoldedRows(n))
  BY ClosedRowsUnionFinite DEF FoldedRows, OpenBinSessions
<1> QED
  BY <1>1, <1>2, FS_Subset

(* The rows a bin-session is closed into, or some of them, remove no more   *)
(* than it held: they have different packs, and each the quantity of its    *)
(* entry.                                                                   *)
LEMMA ClosedMoves ==
    ASSUME TypeOK, work_session_id \in Sessions, NEW n \in Batches,
           NEW X \in SUBSET FoldedRows(n), NEW b \in Bins, NEW i \in Items
    PROVE  Qty(Select(X, "remove", b, i)) <= Removing(b, i)
<1> DEFINE sel == Select(X, "remove", b, i)
           l == session_items[b]
           Row(v) == [batch |-> n, ws |-> work_session_id, op |-> "remove", bin |-> b,
                      item |-> i, via |-> v, qty |-> l[<<i, v>>]]
<1>1. ASSUME NEW r \in sel
      PROVE  session_op[b] = "remove" /\ r.via \in Vias /\ r = Row(r.via)
  <2>1. r.op = "remove" /\ r.bin = b /\ r.item = i
    BY DEF Select
  <2>2. PICK c \in OpenBinSessions : r \in ClosedRows(n, c)
    BY DEF Select, FoldedRows
  <2>3. PICK e \in Entries :
           r = [batch |-> n, ws |-> work_session_id, op |-> session_op[c], bin |-> c,
                item |-> e[1], via |-> e[2], qty |-> session_items[c][e]]
    BY <2>2 DEF ClosedRows, Insertable, RowsOf
  <2>4. r.op = session_op[c] /\ r.bin = c /\ r.item = e[1] /\ r.via = e[2]
    BY <2>3
  <2>5. e = <<e[1], e[2]>> /\ e[2] \in Vias
    BY DEF Entries
  <2>6. e = <<i, r.via>> /\ c = b
    BY <2>1, <2>4, <2>5
  <2> QED
    BY <2>1, <2>3, <2>4, <2>5, <2>6
<1>2. session_items[b] \in [Entries -> Nat]
  BY DEF TypeOK
<1>3. Removing(b, i) \in Nat
  BY <1>2, ListQtyType DEF Removing
<1>4. CASE session_op[b] # "remove"
  <2>1. sel = {}
    BY <1>1, <1>4
  <2>2. Qty(sel) = 0
    BY <2>1, QtyEmpty
  <2> QED
    BY <1>3, <2>2
<1>5. CASE session_op[b] = "remove"
  <2> DEFINE U == RowUnits(sel)
             V == ListUnits(l, i)
             f == [u \in U |-> <<u[1].via, u[2]>>]
  <2>1. ASSUME NEW u \in U
        PROVE  u = <<u[1], u[2]>> /\ u[1] \in sel /\ u[2] \in 1 .. u[1].qty
    BY DEF RowUnits
  <2>2. ASSUME NEW u \in U PROVE f[u] \in V
    <3>1. u[1].via \in Vias /\ u[1].qty = l[<<i, u[1].via>>]
      <4>1. u[1] \in sel
        BY <2>1
      <4>2. u[1].qty = Row(u[1].via).qty
        BY <1>1, <4>1
      <4> QED
        BY <1>1, <4>1, <4>2
    <3>2. u[2] \in 1 .. l[<<i, u[1].via>>]
      BY <2>1, <3>1
    <3>3. f[u] = <<u[1].via, u[2]>>
      OBVIOUS
    <3> QED
      BY <3>1, <3>2, <3>3 DEF ListUnits
  <2>3. f \in [U -> V]
    BY <2>2
  <2>4. ASSUME NEW u \in U, NEW w \in U, f[u] = f[w] PROVE u = w
    <3>1. u[1].via = w[1].via /\ u[2] = w[2]
      BY <2>4
    <3>2. u[1] \in sel /\ w[1] \in sel
      BY <2>1
    <3>3. u[1] = w[1]
      <4>1. u[1] = Row(u[1].via) /\ w[1] = Row(w[1].via)
        BY <1>1, <3>2
      <4> HIDE DEF Row
      <4> QED
        BY <3>1, <4>1
    <3> QED
      BY <2>1, <3>1, <3>3
  <2>5. f \in Injection(U, V)
    <3> HIDE DEF f, U, V
    <3> QED
      BY <2>3, <2>4, Fun_IsInj
  <2>6. IsFiniteSet(V)
    BY <1>2, ListUnitsFinite
  <2>7. Cardinality(U) <= Cardinality(V)
    <3> HIDE DEF f, U, V
    <3> QED
      BY <2>5, <2>6, FS_Injection
  <2> QED
    BY <1>5, <2>7 DEF Qty, Removing, ListQty
<1> QED
  BY <1>4, <1>5

(* What a session is left claiming once bin-sessions were closed, in full   *)
(* or in part: of a bin that was closed, and of one that was not.           *)
LEMMA ClosedClaim ==
    ASSUME TypeOK, FiniteTables, work_session_id \in Sessions, NEW n \in Batches,
           NEW X \in SUBSET FoldedRows(n),
           buffered_operations' = buffered_operations \cup X,
           work_session_id' = work_session_id, NEW b \in Bins, NEW i \in Items,
           \/ session_op'[b] = "none"
           \/ /\ \A r \in X : r.bin # b
              /\ session_op'[b] = session_op[b] /\ session_items'[b] = session_items[b]
    PROVE  Claimed(b, i)' <= Claimed(b, i)
<1> DEFINE old == BufferedOf(work_session_id)
           R == Qty(Select(old, "remove", b, i))
           M == Qty(Select(X, "remove", b, i))
           T == Qty(Select(old \cup X, "remove", b, i))
<1>1. X \in SUBSET Rows /\ IsFiniteSet(X)
  BY PartFoldedType
<1>2. old \in SUBSET buffered_operations
  BY DEF BufferedOf
<1>3. old \in SUBSET Rows /\ IsFiniteSet(old)
  BY <1>2, FS_Subset DEF TypeOK, FiniteTables
<1>4. \A r \in X : r.ws = work_session_id
  BY ClosedRowsOwn DEF FoldedRows
<1>5. BufferedOf(work_session_id)' = old \cup X
  BY <1>4 DEF BufferedOf
<1>6. BufferedRemovedSum(b, i)' = T /\ BufferedRemovedSum(b, i) = R
  BY <1>5 DEF BufferedRemovedSum, Select, Qty, RowUnits
<1>7. T <= R + M
  BY <1>1, <1>3, SelectUnion
<1>8. old \cup X \in SUBSET Rows /\ IsFiniteSet(old \cup X)
  BY <1>1, <1>3, FS_Union
<1>9. R \in Nat /\ M \in Nat /\ T \in Nat
  BY <1>1, <1>3, <1>8, SelectQtyType
<1>10. M <= Removing(b, i)
  BY ClosedMoves
<1>11. Removing(b, i) \in Nat
  BY ListQtyType DEF Removing, TypeOK
<1> HIDE DEF R, M, T
<1>12. CASE session_op'[b] = "none"
  <2>1. Removing(b, i)' = 0
    BY <1>12 DEF Removing
  <2>2. ASSUME NEW r \in Nat, NEW m \in Nat, NEW t \in Nat, NEW k \in Nat,
               t <= r + m, m <= k
        PROVE  t + 0 <= r + k
    BY <2>2
  <2>3. T + 0 <= R + Removing(b, i)
    BY <1>7, <1>9, <1>10, <1>11, <2>2
  <2> QED
    BY <1>6, <2>1, <2>3 DEF Claimed
<1>13. CASE /\ \A r \in X : r.bin # b
            /\ session_op'[b] = session_op[b] /\ session_items'[b] = session_items[b]
  <2>1. Removing(b, i)' = Removing(b, i)
    BY <1>13 DEF Removing
  <2>2. Select(old \cup X, "remove", b, i) = Select(old, "remove", b, i)
    BY <1>13 DEF Select
  <2>3. T = R
    BY <2>2 DEF T, R
  <2>4. R + Removing(b, i) <= R + Removing(b, i)
    BY <1>9, <1>11
  <2> QED
    BY <1>6, <2>1, <2>3, <2>4 DEF Claimed
<1> QED
  BY <1>12, <1>13

-----------------------------------------------------------------------------
(* The steps.                                                               *)

LEMMA ClaimType ==
    TypeOK /\ FiniteTables =>
        \A b \in Bins, i \in Items :
            /\ BufferedRemovedSum(b, i) \in Nat /\ Removing(b, i) \in Nat
            /\ Claimed(b, i) \in Nat /\ bin_stock[<<b, i>>] \in Int
<1> SUFFICES ASSUME TypeOK, FiniteTables, NEW b \in Bins, NEW i \in Items
             PROVE  /\ BufferedRemovedSum(b, i) \in Nat /\ Removing(b, i) \in Nat
                    /\ Claimed(b, i) \in Nat /\ bin_stock[<<b, i>>] \in Int
  OBVIOUS
<1>1. BufferedOf(work_session_id) \in SUBSET buffered_operations
  BY DEF BufferedOf
<1>2. BufferedOf(work_session_id) \in SUBSET Rows /\ IsFiniteSet(BufferedOf(work_session_id))
  BY <1>1, FS_Subset DEF TypeOK, FiniteTables
<1>3. BufferedRemovedSum(b, i) \in Nat
  BY <1>2, SelectQtyType DEF BufferedRemovedSum
<1>4. Removing(b, i) \in Nat
  BY ListQtyType DEF Removing, TypeOK
<1>5. ASSUME NEW x \in Nat, NEW y \in Nat PROVE x + y \in Nat
  OBVIOUS
<1>6. Claimed(b, i) \in Nat
  BY <1>3, <1>4, <1>5 DEF Claimed
<1>7. bin_stock[<<b, i>>] \in Int
  BY DEF TypeOK
<1> QED
  BY <1>3, <1>4, <1>6, <1>7

(* A step that leaves the stock alone and claims no more keeps it covered.  *)
LEMMA NoMoreClaimed ==
    ASSUME TypeOK, FiniteTables, TypeOK', FiniteTables', Covered,
           UNCHANGED <<bin_stock, work_session_id>>,
           \A b \in Bins, i \in Items :
               work_session_id # 0 => Claimed(b, i)' <= Claimed(b, i)
    PROVE  Covered'
<1>1. ASSUME NEW x \in Nat, NEW y \in Nat, NEW z \in Int, x <= y, y <= z PROVE x <= z
  BY <1>1
<1>2. \A b \in Bins, i \in Items : Claimed(b, i)' \in Nat
  <2>1. TypeOK' /\ FiniteTables' =>
            (\A b \in Bins, i \in Items :
                /\ BufferedRemovedSum(b, i) \in Nat /\ Removing(b, i) \in Nat
                /\ Claimed(b, i) \in Nat /\ bin_stock[<<b, i>>] \in Int)'
    BY ClaimType, PTL
  <2> QED
    BY <2>1
<1> SUFFICES ASSUME NEW b \in Bins, NEW i \in Items
             PROVE  /\ bin_stock'[<<b, i>>] >= 0
                    /\ work_session_id' # 0 => Claimed(b, i)' <= bin_stock'[<<b, i>>]
  BY DEF Covered
<1>3. Claimed(b, i) \in Nat /\ bin_stock[<<b, i>>] \in Int
  BY ClaimType
<1>4. /\ bin_stock[<<b, i>>] >= 0
      /\ work_session_id # 0 => Claimed(b, i) <= bin_stock[<<b, i>>]
  BY DEF Covered
<1> QED
  BY <1>1, <1>2, <1>3, <1>4

LEMMA SameClaim ==
    ASSUME UNCHANGED <<buffered_operations, work_session_id, session_op, session_items>>,
           NEW b, NEW i
    PROVE  Claimed(b, i)' = Claimed(b, i)
BY DEF Claimed, BufferedRemovedSum, BufferedOf, Select, Qty, RowUnits, Removing, ListQty,
   ListUnits

LEMMA CloseClaim ==
    ASSUME TypeOK, FiniteTables, work_session_id \in Sessions,
           NEW S \in SUBSET OpenBinSessions, CloseBinSessions(S),
           work_session_id' = work_session_id, NEW b \in Bins, NEW i \in Items
    PROVE  Claimed(b, i)' <= Claimed(b, i)
<1>1. PICK n \in Batches : buffered_operations' =
         buffered_operations \cup UNION {ClosedRows(n, c) : c \in S}
  BY DEF CloseBinSessions
<1>2. UNION {ClosedRows(n, c) : c \in S} \in SUBSET FoldedRows(n)
  BY DEF FoldedRows
<1>3. CASE b \in S
  <2>1. session_op'[b] = "none"
    BY <1>3 DEF CloseBinSessions, DropSessions
  <2> QED
    BY <1>1, <1>2, <2>1, ClosedClaim
<1>4. CASE b \notin S
  <2>1. \A r \in UNION {ClosedRows(n, c) : c \in S} : r.bin # b
    BY <1>4 DEF ClosedRows, Insertable, RowsOf
  <2>2. session_op'[b] = session_op[b] /\ session_items'[b] = session_items[b]
    BY <1>4 DEF CloseBinSessions, DropSessions
  <2> QED
    BY <1>1, <1>2, <2>1, <2>2, ClosedClaim
<1> QED
  BY <1>3, <1>4

LEMMA LostClaim ==
    ASSUME TypeOK, FiniteTables, LoseMemory,
           UNCHANGED <<buffered_operations, work_session_id>>,
           NEW b \in Bins, NEW i \in Items
    PROVE  Claimed(b, i)' <= Claimed(b, i)
<1>1. Removing(b, i)' = 0
  BY DEF Removing, LoseMemory
<1>2. BufferedRemovedSum(b, i)' = BufferedRemovedSum(b, i)
  BY DEF BufferedRemovedSum, BufferedOf, Select, Qty, RowUnits
<1>3. ASSUME NEW x \in Nat, NEW y \in Nat PROVE x + 0 <= x + y
  OBVIOUS
<1>4. BufferedRemovedSum(b, i) + 0 <= BufferedRemovedSum(b, i) + Removing(b, i)
  BY <1>3, ClaimType
<1> QED
  BY <1>1, <1>2, <1>4 DEF Claimed

LEMMA CrashClaim ==
    ASSUME TypeOK, FiniteTables, CrashInClose, work_session_id' = work_session_id,
           NEW b \in Bins, NEW i \in Items
    PROVE  Claimed(b, i)' <= Claimed(b, i)
<1>1. PICK n \in Batches, c \in OpenBinSessions :
         \E done \in SUBSET (OpenBinSessions \ {c}), part \in SUBSET ClosedRows(n, c) :
            buffered_operations' = buffered_operations \cup part
                                      \cup UNION {ClosedRows(n, d) : d \in done}
  BY DEF CrashInClose
<1>2. PICK done \in SUBSET (OpenBinSessions \ {c}), part \in SUBSET ClosedRows(n, c) :
         buffered_operations' = buffered_operations
            \cup (part \cup UNION {ClosedRows(n, d) : d \in done})
  BY <1>1
<1>3. part \cup UNION {ClosedRows(n, d) : d \in done} \in SUBSET FoldedRows(n)
  BY DEF FoldedRows
<1>4. session_op'[b] = "none" /\ work_session_id \in Sessions
  BY DEF CrashInClose, Reattach, LoseMemory, TypeOK
<1> QED
  BY <1>2, <1>3, <1>4, ClosedClaim

LEMMA DeleteClaim ==
    ASSUME TypeOK, FiniteTables, NEW r, DeleteOperation(r),
           NEW b \in Bins, NEW i \in Items
    PROVE  Claimed(b, i)' <= Claimed(b, i)
<1> DEFINE before == Select(BufferedOf(work_session_id), "remove", b, i)
           after  == Select(BufferedOf(work_session_id)', "remove", b, i)
<1>1. UNCHANGED <<work_session_id, session_op, session_items>>
  BY DEF DeleteOperation, session, grammar
<1>2. Removing(b, i)' = Removing(b, i)
  BY <1>1 DEF Removing
<1>3. after \in SUBSET before /\ before \in SUBSET buffered_operations
  BY <1>1 DEF DeleteOperation, BufferedOf, Select
<1>4. IsFiniteSet(before) /\ HaveQty(before)
  BY <1>3, FS_Subset DEF FiniteTables, TypeOK, Rows, HaveQty
<1>5. Qty(after) \in Nat /\ Qty(before) \in Nat /\ Qty(after) <= Qty(before)
  BY <1>3, <1>4, QtyMonotone
<1>6. BufferedRemovedSum(b, i)' = Qty(after) /\ BufferedRemovedSum(b, i) = Qty(before)
  BY <1>1 DEF BufferedRemovedSum, Select, Qty, RowUnits
<1>7. ASSUME NEW x \in Nat, NEW y \in Nat, NEW z \in Nat, x <= y PROVE x + z <= y + z
  BY <1>7
<1> HIDE DEF before, after
<1>8. Qty(after) + Removing(b, i) <= Qty(before) + Removing(b, i)
  BY <1>5, <1>7, ClaimType
<1> QED
  BY <1>2, <1>6, <1>8 DEF Claimed

(* A removal is opened with nothing in it.                                  *)
LEMMA OpenBinClaim ==
    ASSUME TypeOK, FiniteTables, NEW c \in Bins, OpenBinSession(c),
           NEW b \in Bins, NEW i \in Items
    PROVE  Claimed(b, i)' <= Claimed(b, i)
<1>0. /\ session_op \in [Bins -> {"none", "add", "remove"}]
      /\ session_items \in [Bins -> [Entries -> Nat]]
  BY DEF TypeOK
<1>1. BufferedRemovedSum(b, i)' = BufferedRemovedSum(b, i)
  BY DEF OpenBinSession, tables, session, BufferedRemovedSum, BufferedOf, Select, Qty, RowUnits
<1>2. Removing(b, i)' = Removing(b, i)
  <2>1. CASE b = c
    <3>1. Removing(b, i) = 0
      BY <2>1 DEF OpenBinSession, Removing
    <3>2. session_op'[b] = "remove" => session_items'[b] = EmptyList
      BY <1>0, <2>1 DEF OpenBinSession
    <3>3. Removing(b, i)' = 0
      <4>1. CASE session_op'[b] = "remove"
        <5>1. Removing(b, i)' = ListQty(session_items'[b], i)
          BY <4>1 DEF Removing, ListQty, ListUnits
        <5> QED
          BY <3>2, <4>1, <5>1, ListQtyEmpty
      <4>2. CASE session_op'[b] # "remove"
        BY <4>2 DEF Removing
      <4> QED
        BY <4>1, <4>2
    <3> QED
      BY <3>1, <3>3
  <2>2. CASE b # c
    BY <1>0, <2>2 DEF OpenBinSession, Removing
  <2> QED
    BY <2>1, <2>2
<1>3. BufferedRemovedSum(b, i) \in Nat /\ Removing(b, i) \in Nat
  BY ClaimType
<1>4. ASSUME NEW x \in Nat, NEW y \in Nat PROVE x + y <= x + y
  OBVIOUS
<1> QED
  BY <1>1, <1>2, <1>3, <1>4 DEF Claimed

(* A new session claims nothing.                                            *)
LEMMA OpenSessionCovered ==
    ASSUME TypeOK, FiniteTables, RowsOfOpened, NothingLeftInFlight, Covered, OpenSession
    PROVE  Covered'
<1> SUFFICES ASSUME NEW b \in Bins, NEW i \in Items
             PROVE  bin_stock'[<<b, i>>] >= 0 /\ Claimed(b, i)' <= bin_stock'[<<b, i>>]
  BY DEF Covered
<1>1. PICK s \in Sessions : work_sessions[s] = "absent" /\ work_session_id' = s
  BY DEF OpenSession
<1>2. BufferedOf(work_session_id)' = {}
  BY <1>1 DEF OpenSession, RowsOfOpened, BufferedOf
<1>3. BufferedRemovedSum(b, i)' = 0
  <2>1. Select(BufferedOf(work_session_id)', "remove", b, i) = {}
    BY <1>2 DEF Select
  <2>2. BufferedRemovedSum(b, i)' = Qty(Select(BufferedOf(work_session_id)', "remove", b, i))
    BY DEF BufferedRemovedSum, Select, Qty, RowUnits
  <2> QED
    BY <2>1, <2>2, QtyEmpty
<1>4. Removing(b, i)' = 0
  BY DEF OpenSession, NothingLeftInFlight, OpenBinSessions, grammar, Removing
<1>5. bin_stock'[<<b, i>>] = bin_stock[<<b, i>>] /\ bin_stock[<<b, i>>] >= 0
  BY DEF OpenSession, Covered
<1>6. Claimed(b, i)' = 0 + 0
  BY <1>3, <1>4 DEF Claimed
<1>7. bin_stock[<<b, i>>] \in Int
  BY DEF TypeOK
<1> QED
  BY <1>5, <1>6, <1>7

(* The guard of a scan: what is added is at most what is left.              *)
LEMMA AccumulateCovered ==
    ASSUME TypeOK, FiniteTables, FocusHasSession, Covered,
           NEW i \in Items, AccumulateItem(i)
    PROVE  Covered'
<1> DEFINE f == focused_bin_id
           l == session_items[f]
           m == Expand(i, 1)
           v == IF i \in DOMAIN Contents THEN i ELSE NoPack
<1>0. /\ UNCHANGED <<bin_stock, buffered_operations, work_session_id, session_op>>
      /\ session_items' = [session_items EXCEPT ![f] = Accumulate(l, m)]
      /\ session_op[f] = "remove" => Removable(f, m)
      /\ f \in Bins
  BY DEF AccumulateItem, ScanItem, session, FocusHasSession, OpenBinSessions
<1>1. /\ session_items \in [Bins -> [Entries -> Nat]]
      /\ l \in [Entries -> Nat] /\ m \in [Entries -> Nat] /\ v \in Vias
  BY <1>0, ExpandType DEF TypeOK, Vias
<1> SUFFICES ASSUME NEW b \in Bins, NEW j \in Items
             PROVE  /\ bin_stock'[<<b, j>>] >= 0
                    /\ work_session_id' # 0 => Claimed(b, j)' <= bin_stock'[<<b, j>>]
  BY DEF Covered
<1>2. /\ bin_stock[<<b, j>>] >= 0
      /\ work_session_id # 0 => Claimed(b, j) <= bin_stock[<<b, j>>]
  BY DEF Covered
<1>3. BufferedRemovedSum(b, j)' = BufferedRemovedSum(b, j)
  BY <1>0 DEF BufferedRemovedSum, BufferedOf, Select, Qty, RowUnits
<1>4. CASE b # f \/ session_op[b] # "remove"
  <2>1. Removing(b, j)' = Removing(b, j)
    BY <1>0, <1>1, <1>4 DEF Removing
  <2> QED
    BY <1>0, <1>2, <1>3, <2>1 DEF Claimed
<1>5. CASE b = f /\ session_op[b] = "remove"
  <2> DEFINE k == m[<<j, v>>]
             R == BufferedRemovedSum(b, j)
             L == ListQty(l, j)
             N == ListQty(Accumulate(l, m), j)
             stock == bin_stock[<<b, j>>]
  <2>1. \A w \in Vias : <<j, w>> \in Entries
    BY DEF Entries
  <2>2. \A w \in Vias \ {v} : m[<<j, w>>] = 0
    BY <2>1 DEF Expand
  <2>3. N = L + k
    BY <1>1, <2>2, ListQtyAdded
  <2>4. Removing(b, j) = L /\ Removing(b, j)' = N
    <3>1. session_items'[b] = Accumulate(l, m) /\ session_op'[b] = "remove"
      BY <1>0, <1>1, <1>5
    <3>2. Removing(b, j)' = ListQty(session_items'[b], j)
      BY <3>1 DEF Removing, ListQty, ListUnits
    <3> QED
      BY <1>5, <3>1, <3>2 DEF Removing
  <2>5. L \in Nat /\ N \in Nat
    BY <1>1, AccumulateType, ListQtyType
  <2>6. R \in Nat /\ stock \in Int
    BY ClaimType
  <2>7. k \in Nat /\ <<j, v>> \in Entries
    BY <1>1, <2>1
  <2>8. k > 0 => k <= stock - R - L
    <3>1. k > 0 => k <= Available(b, j)
      BY <1>0, <1>5, <2>7 DEF Removable
    <3>2. Available(b, j) = stock - R - L
      BY <1>5 DEF Available
    <3> QED
      BY <3>1, <3>2
  <2>9. work_session_id # 0 => R + L <= stock
    BY <1>2, <2>4 DEF Claimed
  <2> HIDE DEF k, R, L, N, stock
  <2>10. ASSUME NEW r \in Nat, NEW x \in Nat, NEW y \in Nat, NEW d \in Nat, NEW t \in Int,
                y = x + d, r + x <= t, d > 0 => d <= t - r - x
         PROVE  r + y <= t
    <3>1. CASE d > 0
      BY <2>10, <3>1
    <3>2. CASE d = 0
      BY <2>10, <3>2
    <3> QED
      BY <3>1, <3>2
  <2>11. work_session_id # 0 => R + N <= stock
    BY <2>3, <2>5, <2>6, <2>7, <2>8, <2>9, <2>10
  <2>12. Claimed(b, j)' = R + N /\ bin_stock'[<<b, j>>] = stock
    BY <1>0, <1>3, <2>4 DEF Claimed, R, stock
  <2> QED
    BY <1>0, <1>2, <2>11, <2>12
<1> QED
  BY <1>4, <1>5

(* A commit takes out no more than was claimed.                             *)
LEMMA CommitCovered ==
    ASSUME TypeOK, FiniteTables, Covered, CommitSession
    PROVE  Covered'
<1>1. work_session_id \in Sessions /\ work_session_id # 0 /\ work_session_id' = 0
  BY DEF CommitSession, TypeOK
<1>2. PICK n \in Batches :
         bin_stock' = [c \in Bins \X Items |->
            bin_stock[c] + Qty(Select(SessionRows(n), "add", c[1], c[2]))
                         - Qty(Select(SessionRows(n), "remove", c[1], c[2]))]
  BY DEF CommitSession, ApplyRows
<1> SUFFICES ASSUME NEW b \in Bins, NEW i \in Items PROVE bin_stock'[<<b, i>>] >= 0
  BY <1>1 DEF Covered
<1> DEFINE stock == bin_stock[<<b, i>>]
           A == Qty(Select(SessionRows(n), "add", b, i))
           M == Qty(Select(SessionRows(n), "remove", b, i))
           R == BufferedRemovedSum(b, i)
           F == Qty(Select(FoldedRows(n), "remove", b, i))
           L == Removing(b, i)
<1>3. bin_stock'[<<b, i>>] = stock + A - M
  BY <1>2
<1>4. /\ FoldedRows(n) \in SUBSET Rows /\ IsFiniteSet(FoldedRows(n))
      /\ SessionRows(n) \in SUBSET Rows /\ IsFiniteSet(SessionRows(n))
  BY <1>1, SessionRowsType
<1>5. BufferedOf(work_session_id) \in SUBSET SessionRows(n)
  BY DEF SessionRows
<1>6. BufferedOf(work_session_id) \in SUBSET Rows /\ IsFiniteSet(BufferedOf(work_session_id))
  BY <1>4, <1>5, FS_Subset
<1>7. M <= R + F
  BY <1>4, <1>6, SelectUnion DEF SessionRows, BufferedRemovedSum
<1>8. F <= L
  BY <1>1, ClosedMoves
<1>9. R + L <= stock
  BY <1>1 DEF Covered, Claimed
<1>10. R \in Nat /\ L \in Nat /\ stock \in Int
  BY ClaimType
<1>11. A \in Nat /\ M \in Nat /\ F \in Nat
  BY <1>4, SelectQtyType
<1>12. ASSUME NEW t \in Int, NEW a \in Nat, NEW m \in Nat, NEW r \in Nat, NEW x \in Nat,
              NEW y \in Nat, m <= r + x, x <= y, r + y <= t
       PROVE  t + a - m >= 0
  BY <1>12
<1> HIDE DEF stock, A, M, R, F, L
<1> QED
  BY <1>3, <1>7, <1>8, <1>9, <1>10, <1>11, <1>12

LEMMA CoveredStep ==
    ASSUME ScansOnly, LedgerInv, LedgerInv', NothingLeftInFlight, Covered, [Next]_vars
    PROVE  Covered'
<1>0. /\ TypeOK /\ FiniteTables /\ FocusHasSession /\ TypeOK' /\ FiniteTables'
      /\ SessionMirrorsTable /\ SessionMirrorsTable' /\ RowsOfOpened
  BY DEF LedgerInv, AuditInv, TypeInv
<1>1. ASSUME UNCHANGED <<bin_stock, work_session_id>>,
             \A b \in Bins, i \in Items :
                 work_session_id # 0 => Claimed(b, i)' <= Claimed(b, i)
      PROVE  Covered'
  BY <1>0, <1>1, NoMoreClaimed
<1>2. CASE UNCHANGED <<bin_stock, buffered_operations, work_session_id, session_op,
                       session_items>>
  <2>1. ASSUME NEW x \in Nat PROVE x <= x
    OBVIOUS
  <2>2. \A b \in Bins, i \in Items : Claimed(b, i)' <= Claimed(b, i)
    BY <1>0, <1>2, <2>1, SameClaim, ClaimType
  <2> QED
    BY <1>1, <1>2, <2>2
<1>3. ASSUME NEW S \in SUBSET OpenBinSessions, CloseBinSessions(S),
             work_session_id \in Sessions, UNCHANGED <<bin_stock, work_session_id>>
      PROVE  Covered'
  BY <1>0, <1>1, <1>3, CloseClaim
<1>4. ASSUME NEW b \in Bins, ToggleClose(b) PROVE Covered'
  <2>1. {b} \in SUBSET OpenBinSessions
    BY <1>0, <1>4, ConstantsAssumption DEF ToggleClose, FocusHasSession
  <2>2. /\ CloseBinSessions({b}) /\ UNCHANGED <<bin_stock, work_session_id>>
        /\ work_session_id \in Sessions
    BY <1>0, <1>4 DEF ToggleClose, ScanAccepted, IsOpen, session, TypeOK
  <2> QED
    BY <1>3, <2>1, <2>2
<1>5. ASSUME NEW b \in Bins, OpenBinSession(b) PROVE Covered'
  <2>1. UNCHANGED <<bin_stock, work_session_id>>
    BY <1>5 DEF OpenBinSession, tables, session
  <2> QED
    BY <1>0, <1>1, <1>5, <2>1, OpenBinClaim
<1>6. ASSUME NEW i \in Items, AccumulateItem(i) PROVE Covered'
  BY <1>0, <1>6, AccumulateCovered
<1>7. CASE OpenSession
  BY <1>0, <1>7, OpenSessionCovered
<1>8. CASE CommitSession
  BY <1>0, <1>8, CommitCovered
<1>9. CASE RollbackSession
  BY <1>9 DEF RollbackSession, Covered
<1>10. ASSUME NEW r, DeleteOperation(r) PROVE Covered'
  <2>1. UNCHANGED <<bin_stock, work_session_id>>
    BY <1>10 DEF DeleteOperation, session
  <2> QED
    BY <1>0, <1>1, <1>10, <2>1, DeleteClaim
<1>11. CASE Ticker
  <2>1. /\ CloseBinSessions(Expired) /\ UNCHANGED <<bin_stock, work_session_id>>
        /\ work_session_id \in Sessions
    BY <1>0, <1>11 DEF Ticker, IsOpen, TypeOK
  <2>2. Expired \in SUBSET OpenBinSessions
    BY DEF Expired, OpenBinSessions
  <2> QED
    BY <1>3, <2>1, <2>2
<1>12. CASE Restart
  <2>1. UNCHANGED <<bin_stock, buffered_operations, work_sessions>> /\ LoseMemory
    BY <1>12 DEF Restart, Reattach, tables
  <2>2. work_session_id' = work_session_id
    BY <1>0, <2>1, SameTableSamePhase
  <2> QED
    BY <1>0, <1>1, <2>1, <2>2, LostClaim
<1>13. CASE CrashInClose
  <2>1. UNCHANGED <<bin_stock, work_sessions>>
    BY <1>13 DEF CrashInClose
  <2>2. work_session_id' = work_session_id
    BY <1>0, <2>1, SameTableSamePhase
  <2> QED
    BY <1>0, <1>1, <1>13, <2>1, <2>2, CrashClaim
<1>14. \/ \E b \in Bins : ScanUnknownBin(b) \/ RefocusBin(b) \/ CreateBin(b)
       \/ \E i \in Items : StageItem(i) \/ RefuseRemoval(i)
       \/ RestoreSession \/ Tick \/ UNCHANGED vars
       => UNCHANGED <<bin_stock, buffered_operations, work_session_id, session_op,
                      session_items>>
  BY DEF ScanUnknownBin, RefocusBin, CreateBin, StageItem, RefuseRemoval, ScanItem,
     RestoreSession, Tick, tables, session, grammar, vars
<1>15. \A op, b, i, q : ~ManualOperation(op, b, i, q) /\ ~CrashInManual(op, b, i, q)
  BY DEF ManualOperation, CrashInManual, ScansOnly
<1>16. \A r, q : ~UpdateOperationQuantity(r, q)
  BY DEF UpdateOperationQuantity, ScansOnly
<1> QED
  BY <1>2, <1>4, <1>5, <1>6, <1>7, <1>8, <1>9, <1>10, <1>11, <1>12, <1>13, <1>14, <1>15,
     <1>16 DEF Next

(***************************************************************************)
(* When the panel is not used to remove items or to change quantities, the *)
(* scans of a work session never claim more of an item than the bin holds  *)
(* and the stock never falls below zero: for any bins, items and packs,    *)
(* any order of toggles, timeouts, deletions, freezes, commits and         *)
(* rollbacks, and crashes at any point of closing a bin-session.           *)
(***************************************************************************)
THEOREM ScanRemovalCorrect == ScansOnly => (Spec => []ScanRemovalCovered)
<1> SUFFICES ASSUME ScansOnly PROVE Spec => []ScanRemovalCovered
  OBVIOUS
<1>1. Init => Covered
  <2> SUFFICES ASSUME Init, NEW b \in Bins, NEW i \in Items
               PROVE  bin_stock[<<b, i>>] >= 0 /\ work_session_id = 0
    BY DEF Covered
  <2>1. bin_stock[<<b, i>>] = Stock0[<<b, i>>] /\ Stock0[<<b, i>>] \in Nat
    BY StockType DEF Init
  <2>2. ASSUME NEW x \in Nat PROVE x >= 0
    OBVIOUS
  <2>3. work_session_id = 0
    BY DEF Init
  <2> QED
    BY <2>1, <2>2, <2>3
<1>2. LedgerInv /\ LedgerInv' /\ NothingLeftInFlight /\ Covered /\ [Next]_vars => Covered'
  BY CoveredStep
<1> QED
  BY <1>1, <1>2, LedgerInvariant, InFlightCorrect, CoveredParts, PTL DEF Spec

-----------------------------------------------------------------------------
(* What a close moves, exactly.                                             *)

Held(b, op, i) == IF session_op[b] = op THEN ListQty(session_items[b], i) ELSE 0

(* Closing bin-sessions turns each of them into rows that amount to its     *)
(* list: every entry with a quantity has a row of its own, which the        *)
(* foreign keys accept.                                                     *)
LEMMA ClosedAmount ==
    ASSUME TypeOK, SessionsExist, NEW n \in Batches,
           NEW S \in SUBSET OpenBinSessions, NEW op \in {"add", "remove"},
           NEW b \in S, NEW i \in Items
    PROVE  Qty(Select(UNION {ClosedRows(n, c) : c \in S}, op, b, i)) = Held(b, op, i)
<1> DEFINE X == UNION {ClosedRows(n, c) : c \in S}
           sel == Select(X, op, b, i)
           l == session_items[b]
           Row(v) == [batch |-> n, ws |-> work_session_id, op |-> op, bin |-> b,
                      item |-> i, via |-> v, qty |-> l[<<i, v>>]]
<1>0. b \in Bins /\ b \in OpenBinSessions
  BY DEF OpenBinSessions
<1>1. ASSUME NEW r \in sel
      PROVE  session_op[b] = op /\ r.via \in Vias /\ r = Row(r.via)
  <2>1. r.op = op /\ r.bin = b /\ r.item = i
    BY DEF Select
  <2>2. PICK c \in S : r \in ClosedRows(n, c)
    BY DEF Select
  <2>3. PICK e \in Entries :
           r = [batch |-> n, ws |-> work_session_id, op |-> session_op[c], bin |-> c,
                item |-> e[1], via |-> e[2], qty |-> session_items[c][e]]
    BY <2>2 DEF ClosedRows, Insertable, RowsOf
  <2>4. r.op = session_op[c] /\ r.bin = c /\ r.item = e[1] /\ r.via = e[2]
    BY <2>3
  <2>5. e = <<e[1], e[2]>> /\ e[2] \in Vias
    BY DEF Entries
  <2>6. e = <<i, r.via>> /\ c = b
    BY <2>1, <2>4, <2>5
  <2> QED
    BY <2>1, <2>3, <2>4, <2>5, <2>6
<1>2. l \in [Entries -> Nat]
  BY <1>0 DEF TypeOK
<1>3. CASE session_op[b] # op
  <2>1. sel = {}
    BY <1>1, <1>3
  <2>2. Qty(sel) = 0
    BY <2>1, QtyEmpty
  <2> QED
    BY <1>3, <2>2 DEF Held
<1>4. CASE session_op[b] = op
  <2> DEFINE U == RowUnits(sel)
             V == ListUnits(l, i)
             f == [u \in U |-> <<u[1].via, u[2]>>]
  <2>1. ASSUME NEW u \in U
        PROVE  u = <<u[1], u[2]>> /\ u[1] \in sel /\ u[2] \in 1 .. u[1].qty
    BY DEF RowUnits
  <2>2. ASSUME NEW u \in U PROVE f[u] \in V
    <3>1. u[1].via \in Vias /\ u[1].qty = l[<<i, u[1].via>>]
      <4>1. u[1] \in sel
        BY <2>1
      <4>2. u[1].qty = Row(u[1].via).qty
        BY <1>1, <4>1
      <4> QED
        BY <1>1, <4>1, <4>2
    <3>2. u[2] \in 1 .. l[<<i, u[1].via>>]
      BY <2>1, <3>1
    <3>3. f[u] = <<u[1].via, u[2]>>
      OBVIOUS
    <3> QED
      BY <3>1, <3>2, <3>3 DEF ListUnits
  <2>3. f \in [U -> V]
    BY <2>2
  <2>4. ASSUME NEW u \in U, NEW w \in U, f[u] = f[w] PROVE u = w
    <3>1. u[1].via = w[1].via /\ u[2] = w[2]
      BY <2>4
    <3>2. u[1] \in sel /\ w[1] \in sel
      BY <2>1
    <3>3. u[1] = w[1]
      <4>1. u[1] = Row(u[1].via) /\ w[1] = Row(w[1].via)
        BY <1>1, <3>2
      <4> HIDE DEF Row
      <4> QED
        BY <3>1, <4>1
    <3> QED
      BY <2>1, <3>1, <3>3
  <2>5. ASSUME NEW y \in V PROVE \E u \in U : f[u] = y
    <3>1. PICK w \in Vias : y \in {w} \X (1 .. l[<<i, w>>])
      BY DEF ListUnits
    <3> DEFINE j == y[2]
    <3>2. y = <<w, j>> /\ j \in 1 .. l[<<i, w>>]
      BY <3>1
    <3>3. <<i, w>> \in Entries
      BY DEF Entries
    <3>4. l[<<i, w>>] > 0
      <4>1. l[<<i, w>>] \in Nat
        BY <1>2, <3>3
      <4>2. ASSUME NEW p \in Nat, NEW q \in 1 .. p PROVE p > 0
        OBVIOUS
      <4> HIDE DEF j, l
      <4> QED
        BY <3>2, <4>1, <4>2
    <3>5. Row(w) \in RowsOf(n, session_op[b], b, session_items[b])
      BY <1>4, <3>3, <3>4 DEF RowsOf
    <3>6. /\ bins[b] # Absent /\ items[i] # Absent
          /\ w # NoPack => items[w] # Absent
      BY <1>0, <3>3, <3>4 DEF SessionsExist, ListExists
    <3>7. Row(w) \in ClosedRows(n, b)
      BY <3>5, <3>6 DEF ClosedRows, Insertable
    <3>8. Row(w) \in sel
      BY <3>7 DEF Select
    <3>9. <<Row(w), j>> \in U
      <4>1. Row(w).qty = l[<<i, w>>]
        OBVIOUS
      <4>2. j \in 1 .. Row(w).qty
        BY <3>2, <4>1
      <4> HIDE DEF Row, sel, j
      <4> QED
        BY <3>8, <4>2 DEF RowUnits
    <3>10. f[<<Row(w), j>>] = <<w, j>>
      BY <3>9
    <3> QED
      BY <3>2, <3>9, <3>10
  <2>6. f \in Bijection(U, V)
    <3> HIDE DEF f, U, V
    <3>1. f \in Injection(U, V)
      BY <2>3, <2>4, Fun_IsInj
    <3>2. f \in Surjection(U, V)
      BY <2>3, <2>5, Fun_IsSurj
    <3> QED
      BY <3>1, <3>2 DEF Bijection
  <2>7. ExistsBijection(U, V)
    BY <2>6, Fun_ExistsBij
  <2>8. IsFiniteSet(V)
    BY <1>2, ListUnitsFinite
  <2>9. Cardinality(U) = Cardinality(V)
    <3> HIDE DEF U, V
    <3>1. ExistsBijection(V, U)
      BY <2>7, Fun_ExistsBijSymmetric
    <3> QED
      BY <2>8, <3>1, FS_Bijection
  <2> QED
    BY <1>4, <2>9 DEF Qty, Held, ListQty
<1> QED
  BY <1>3, <1>4

(* The rows of a new batch add their quantity to the session's.             *)
LEMMA BufferedAndClosed ==
    ASSUME TypeOK, FiniteTables, SessionsExist, work_session_id \in Sessions,
           NEW n \in Batches, IsNextBatch(n), NEW S \in SUBSET OpenBinSessions,
           NEW op \in {"add", "remove"}, NEW b \in Bins, NEW i \in Items
    PROVE  LET old == BufferedOf(work_session_id)
               X   == UNION {ClosedRows(n, c) : c \in S}
           IN  Qty(Select(old \cup X, op, b, i)) =
                  Qty(Select(old, op, b, i)) + (IF b \in S THEN Held(b, op, i) ELSE 0)
<1> DEFINE old == BufferedOf(work_session_id)
           X == UNION {ClosedRows(n, c) : c \in S}
           O == Select(old, op, b, i)
           N == Select(X, op, b, i)
<1>1. X \in SUBSET FoldedRows(n)
  BY DEF FoldedRows
<1>2. X \in SUBSET Rows /\ IsFiniteSet(X)
  <2> HIDE DEF X
  <2> QED
    BY <1>1, PartFoldedType
<1>3. old \in SUBSET buffered_operations
  BY DEF BufferedOf
<1>4. old \in SUBSET Rows /\ IsFiniteSet(old)
  BY <1>3, FS_Subset DEF TypeOK, FiniteTables
<1>5. old \cap X = {}
  <2>1. \A r \in X : r.batch = n
    BY ClosedRowsOwn
  <2>2. \A r \in buffered_operations : r.batch # n
    <3>1. \A r \in buffered_operations : r.batch < n
      BY DEF IsNextBatch
    <3>2. n \in Int
      BY BatchInt
    <3> QED
      BY <3>1, <3>2
  <2> QED
    BY <1>3, <2>1, <2>2
<1>6. Select(old \cup X, op, b, i) = O \cup N /\ O \cap N = {}
  BY <1>5 DEF Select
<1>7. IsFiniteSet(O) /\ HaveQty(O) /\ IsFiniteSet(N) /\ HaveQty(N)
  <2> HIDE DEF old, X
  <2> QED
    BY <1>2, <1>4, SelectFinite
<1>8. Qty(O \cup N) = Qty(O) + Qty(N)
  <2> HIDE DEF O, N
  <2> QED
    BY <1>6, <1>7, QtyDisjointUnion
<1>9. Qty(N) = IF b \in S THEN Held(b, op, i) ELSE 0
  <2>1. CASE b \in S
    BY <2>1, ClosedAmount
  <2>2. CASE b \notin S
    <3>1. N = {}
      BY <2>2 DEF Select, ClosedRows, Insertable, RowsOf
    <3> QED
      BY <2>2, <3>1, QtyEmpty
  <2> QED
    BY <2>1, <2>2
<1> QED
  BY <1>6, <1>8, <1>9

-----------------------------------------------------------------------------
(* The two ways items leave memory.                                         *)

LEMMA SignedValue ==
    ASSUME NEW op, NEW n \in Int
    PROVE  Signed(op, n) = IF op = "add" THEN n ELSE 0 - n
BY DEF Signed

LEMMA SignedZero ==
    ASSUME NEW op, NEW n, n = 0
    PROVE  Signed(op, n) = 0
<1>1. n \in Int
  BY 0 \in Int
<1>2. Signed(op, n) = IF op = "add" THEN n ELSE 0 - n
  BY <1>1, SignedValue
<1> QED
  BY <1>2

LEMMA HeldType ==
    ASSUME TypeOK, NothingLeftInFlight, NEW b \in Bins, NEW i \in Items
    PROVE  /\ Held(b, "add", i) \in Nat /\ Held(b, "remove", i) \in Nat
           /\ Signed(session_op[b], ListQty(session_items[b], i)) =
                 Held(b, "add", i) - Held(b, "remove", i)
           /\ b \notin OpenBinSessions =>
                 Held(b, "add", i) = 0 /\ Held(b, "remove", i) = 0
<1>1. session_op[b] \in {"none", "add", "remove"} /\ session_items[b] \in [Entries -> Nat]
  BY DEF TypeOK
<1>2. ListQty(session_items[b], i) \in Nat
  BY <1>1, ListQtyType
<1>3. CASE session_op[b] = "none"
  <2>1. ListQty(session_items[b], i) = 0
    BY <1>3, ListQtyEmpty DEF NothingLeftInFlight, OpenBinSessions
  <2>2. Held(b, "add", i) = 0 /\ Held(b, "remove", i) = 0
    BY <1>3 DEF Held
  <2>3. Signed(session_op[b], ListQty(session_items[b], i)) = 0
    BY <2>1, SignedZero
  <2> QED
    BY <2>1, <2>2, <2>3
<1>4. CASE session_op[b] # "none"
  BY <1>1, <1>2, <1>4 DEF Held, Signed, OpenBinSessions
<1> QED
  BY <1>3, <1>4

LEMMA BufferedType ==
    ASSUME TypeOK, FiniteTables, NEW op, NEW b, NEW i
    PROVE  Qty(Select(BufferedOf(work_session_id), op, b, i)) \in Nat
<1>1. BufferedOf(work_session_id) \in SUBSET buffered_operations
  BY DEF BufferedOf
<1>2. BufferedOf(work_session_id) \in SUBSET Rows /\ IsFiniteSet(BufferedOf(work_session_id))
  BY <1>1, FS_Subset DEF TypeOK, FiniteTables
<1> QED
  BY <1>2, SelectQtyType

LEMMA CommitStep ==
    ASSUME TypeOK, FiniteTables, SessionsExist, NothingLeftInFlight, CommitSession,
           NEW b \in Bins, NEW i \in Items
    PROVE  bin_stock'[<<b, i>>] = bin_stock[<<b, i>>] + InFlightNet(b, i)
<1> DEFINE A == Qty(Select(BufferedOf(work_session_id), "add", b, i))
           R == Qty(Select(BufferedOf(work_session_id), "remove", b, i))
           HA == Held(b, "add", i)
           HR == Held(b, "remove", i)
           stock == bin_stock[<<b, i>>]
<1>1. work_session_id \in Sessions
  BY DEF CommitSession, TypeOK
<1>2. PICK n \in Batches :
         /\ IsNextBatch(n)
         /\ bin_stock' = [c \in Bins \X Items |->
              bin_stock[c] + Qty(Select(SessionRows(n), "add", c[1], c[2]))
                           - Qty(Select(SessionRows(n), "remove", c[1], c[2]))]
  BY DEF CommitSession, ApplyRows
<1>3. bin_stock'[<<b, i>>] = stock + Qty(Select(SessionRows(n), "add", b, i))
                                   - Qty(Select(SessionRows(n), "remove", b, i))
  BY <1>2
<1>4. ASSUME NEW op \in {"add", "remove"}
      PROVE  Qty(Select(SessionRows(n), op, b, i)) =
                Qty(Select(BufferedOf(work_session_id), op, b, i)) + Held(b, op, i)
  <2>1. Qty(Select(SessionRows(n), op, b, i)) =
           Qty(Select(BufferedOf(work_session_id), op, b, i))
              + (IF b \in OpenBinSessions THEN Held(b, op, i) ELSE 0)
    BY <1>1, <1>2, BufferedAndClosed DEF SessionRows, FoldedRows
  <2>2. b \notin OpenBinSessions => Held(b, op, i) = 0
    BY HeldType
  <2> QED
    BY <2>1, <2>2
<1>5. /\ Qty(Select(SessionRows(n), "add", b, i)) = A + HA
      /\ Qty(Select(SessionRows(n), "remove", b, i)) = R + HR
  BY <1>4
<1>6. InFlightNet(b, i) = A - R + (HA - HR)
  BY HeldType DEF InFlightNet
<1>7. A \in Nat /\ R \in Nat /\ HA \in Nat /\ HR \in Nat /\ stock \in Int
  <2>1. stock \in Int
    BY DEF TypeOK
  <2> QED
    BY <2>1, BufferedType, HeldType
<1>8. ASSUME NEW t \in Int, NEW p \in Nat, NEW q \in Nat, NEW x \in Nat, NEW y \in Nat
      PROVE  t + (p + x) - (q + y) = t + (p - q + (x - y))
  OBVIOUS
<1>9. stock + (A + HA) - (R + HR) = stock + (A - R + (HA - HR))
  <2> HIDE DEF A, R, HA, HR, stock
  <2> QED
    BY <1>7, <1>8
<1>10. bin_stock'[<<b, i>>] = stock + (A + HA) - (R + HR)
  <2> HIDE DEF A, R, HA, HR, stock
  <2> QED
    BY <1>3, <1>5
<1> HIDE DEF A, R, HA, HR
<1> QED
  BY <1>6, <1>9, <1>10

(***************************************************************************)
(* A commit moves exactly what is in flight into the stock, each item to   *)
(* or from the bin it was scanned at, for any number of live bin-sessions  *)
(* in either direction, after any crashes, freezes and restarts.           *)
(***************************************************************************)
THEOREM CommitCorrect == Spec => CommitAppliesInFlight
<1> DEFINE Step == CommitSession => \A b \in Bins, i \in Items :
                      bin_stock'[<<b, i>>] = bin_stock[<<b, i>>] + InFlightNet(b, i)
<1>1. LedgerInv /\ NoDanglingReferences /\ NothingLeftInFlight /\ [Next]_vars
         => [Step]_vars
  <2>1. LedgerInv /\ NoDanglingReferences => TypeOK /\ FiniteTables /\ SessionsExist
    BY DanglingParts DEF LedgerInv, AuditInv, TypeInv
  <2> QED
    BY <2>1, CommitStep
<1> QED
  BY <1>1, LedgerInvariant, ReferencesCorrect, InFlightCorrect, PTL
     DEF Spec, CommitAppliesInFlight

LEMMA CloseConserves ==
    ASSUME TypeOK, FiniteTables, SessionsExist, NothingLeftInFlight,
           work_session_id \in Sessions, NEW S \in SUBSET OpenBinSessions,
           CloseBinSessions(S), work_session_id' = work_session_id,
           NEW b \in Bins, NEW i \in Items
    PROVE  InFlightNet(b, i)' = InFlightNet(b, i)
<1> DEFINE A == Qty(Select(BufferedOf(work_session_id), "add", b, i))
           R == Qty(Select(BufferedOf(work_session_id), "remove", b, i))
           AN == Qty(Select(BufferedOf(work_session_id)', "add", b, i))
           RN == Qty(Select(BufferedOf(work_session_id)', "remove", b, i))
           HA == Held(b, "add", i)
           HR == Held(b, "remove", i)
           L == Signed(session_op[b], ListQty(session_items[b], i))
           LN == Signed(session_op'[b], ListQty(session_items'[b], i))
<1>1. PICK n \in Batches :
         /\ IsNextBatch(n)
         /\ buffered_operations' =
               buffered_operations \cup UNION {ClosedRows(n, c) : c \in S}
  BY DEF CloseBinSessions
<1>2. BufferedOf(work_session_id)' =
         BufferedOf(work_session_id) \cup UNION {ClosedRows(n, c) : c \in S}
  BY <1>1, ClosedRowsOwn DEF BufferedOf
<1>3. /\ AN = A + (IF b \in S THEN HA ELSE 0)
      /\ RN = R + (IF b \in S THEN HR ELSE 0)
  <2>1. ASSUME NEW op \in {"add", "remove"}
        PROVE  Qty(Select(BufferedOf(work_session_id)
                              \cup UNION {ClosedRows(n, c) : c \in S}, op, b, i)) =
                  Qty(Select(BufferedOf(work_session_id), op, b, i))
                     + (IF b \in S THEN Held(b, op, i) ELSE 0)
    BY <1>1, BufferedAndClosed
  <2>2. /\ Qty(Select(BufferedOf(work_session_id)', "add", b, i)) =
              Qty(Select(BufferedOf(work_session_id)
                            \cup UNION {ClosedRows(n, c) : c \in S}, "add", b, i))
        /\ Qty(Select(BufferedOf(work_session_id)', "remove", b, i)) =
              Qty(Select(BufferedOf(work_session_id)
                            \cup UNION {ClosedRows(n, c) : c \in S}, "remove", b, i))
    BY <1>2
  <2> QED
    BY <2>1, <2>2
<1>4. InFlightNet(b, i) = A - R + L /\ L = HA - HR
  BY HeldType DEF InFlightNet
<1>5. InFlightNet(b, i)' = AN - RN + LN
  BY DEF InFlightNet, Select, Qty, RowUnits, ListQty, ListUnits
<1>6. LN = IF b \in S THEN 0 ELSE L
  <2>1. CASE b \in S
    <3>1. session_op'[b] = "none" /\ session_items'[b] = EmptyList
      BY <2>1 DEF CloseBinSessions, DropSessions
    <3>2. ListQty(session_items'[b], i) = 0
      BY <3>1, ListQtyEmpty
    <3>3. Signed(session_op'[b], ListQty(session_items'[b], i)) = 0
      BY <3>2, SignedZero
    <3> QED
      BY <2>1, <3>1, <3>2, <3>3
  <2>2. CASE b \notin S
    BY <2>2 DEF CloseBinSessions, DropSessions
  <2> QED
    BY <2>1, <2>2
<1>7. A \in Nat /\ R \in Nat /\ HA \in Nat /\ HR \in Nat
  BY BufferedType, HeldType
<1>8. ASSUME NEW p \in Nat, NEW q \in Nat, NEW x \in Nat, NEW y \in Nat
      PROVE  /\ (p + x) - (q + y) + 0 = p - q + (x - y)
             /\ (p + 0) - (q + 0) + (x - y) = p - q + (x - y)
  OBVIOUS
<1> HIDE DEF A, R, AN, RN, HA, HR, L, LN
<1> QED
  BY <1>3, <1>4, <1>5, <1>6, <1>7, <1>8

Gained(b, i) ==
    IF Opened(b) THEN ListQty(unassigned_items, i) ELSE 0

LEMMA NetType ==
    ASSUME TypeOK, FiniteTables, NothingLeftInFlight, NEW b \in Bins, NEW i \in Items
    PROVE  InFlightNet(b, i) \in Int
<1>1. ASSUME NEW p \in Nat, NEW q \in Nat, NEW x \in Nat, NEW y \in Nat
      PROVE  p - q + (x - y) \in Int
  OBVIOUS
<1> QED
  BY <1>1, BufferedType, HeldType DEF InFlightNet

LEMMA OpenBinConserves ==
    ASSUME TypeOK, FiniteTables, NothingLeftInFlight, NEW c \in Bins, OpenBinSession(c),
           NEW b \in Bins, NEW i \in Items
    PROVE  InFlightNet(b, i)' = InFlightNet(b, i) + Gained(b, i)
<1> DEFINE A == Qty(Select(BufferedOf(work_session_id), "add", b, i))
           R == Qty(Select(BufferedOf(work_session_id), "remove", b, i))
           L == Signed(session_op[b], ListQty(session_items[b], i))
           LN == Signed(session_op'[b], ListQty(session_items'[b], i))
           Q == ListQty(unassigned_items, i)
<1>1. InFlightNet(b, i) = A - R + L /\ InFlightNet(b, i)' = A - R + LN
  BY DEF OpenBinSession, tables, session, InFlightNet, BufferedOf, Select, Qty, RowUnits,
     ListQty, ListUnits
<1>2. A \in Nat /\ R \in Nat
  BY BufferedType
<1>3. Q \in Nat
  BY ListQtyType DEF TypeOK
<1>4. /\ session_op \in [Bins -> {"none", "add", "remove"}]
      /\ session_items \in [Bins -> [Entries -> Nat]]
  BY DEF TypeOK
<1>5. ASSUME NEW p \in Nat, NEW q \in Nat, NEW x \in Int
      PROVE  p - q + x = p - q + 0 + x /\ p - q + x = p - q + x + 0
  OBVIOUS
<1>6. CASE b = c
  <2>1. session_op[b] = "none" /\ session_items[b] = EmptyList
    BY <1>6 DEF OpenBinSession, NothingLeftInFlight, OpenBinSessions
  <2>2. L = 0
    BY <2>1, ListQtyEmpty, SignedZero
  <2>3. /\ session_op'[b] = IF unassigned_items = EmptyList THEN "remove" ELSE "add"
        /\ session_items'[b] = unassigned_items
    BY <1>4, <1>6 DEF OpenBinSession
  <2>4. LN = Q
    <3>1. CASE unassigned_items = EmptyList
      BY <2>3, <3>1, ListQtyEmpty, SignedZero
    <3>2. CASE unassigned_items # EmptyList
      BY <2>3, <3>2 DEF Signed
    <3> QED
      BY <3>1, <3>2
  <2>5. Gained(b, i) = Q
    BY <2>1, <2>3 DEF Gained, Opened
  <2> HIDE DEF A, R, L, LN, Q
  <2> QED
    BY <1>1, <1>2, <1>3, <1>5, <2>2, <2>4, <2>5
<1>7. CASE b # c
  <2>1. session_op'[b] = session_op[b] /\ session_items'[b] = session_items[b]
    BY <1>4, <1>7 DEF OpenBinSession
  <2>2. Gained(b, i) = 0
    BY <2>1 DEF Gained, Opened
  <2>3. InFlightNet(b, i)' = InFlightNet(b, i)
    BY <1>1, <2>1
  <2>4. InFlightNet(b, i) \in Int
    BY NetType
  <2>5. ASSUME NEW x \in Int PROVE x = x + 0
    OBVIOUS
  <2> QED
    BY <2>2, <2>3, <2>4, <2>5
<1> QED
  BY <1>6, <1>7

LEMMA ConservedStep ==
    ASSUME TypeOK, FiniteTables, FocusHasSession, SessionsExist, NothingLeftInFlight,
           Ticker \/ \E c \in Bins : BinScan(c), NEW b \in Bins, NEW i \in Items
    PROVE  InFlightNet(b, i)' = InFlightNet(b, i) + Gained(b, i)
<1>1. ASSUME Gained(b, i) = 0, InFlightNet(b, i)' = InFlightNet(b, i)
      PROVE  InFlightNet(b, i)' = InFlightNet(b, i) + Gained(b, i)
  <2>1. ASSUME NEW x \in Int PROVE x = x + 0
    OBVIOUS
  <2> QED
    BY <1>1, <2>1, NetType
<1>2. ASSUME NEW S \in SUBSET OpenBinSessions, CloseBinSessions(S),
             work_session_id \in Sessions, work_session_id' = work_session_id
      PROVE  InFlightNet(b, i)' = InFlightNet(b, i) + Gained(b, i)
  <2>1. Gained(b, i) = 0
    BY <1>2 DEF Gained, Opened, CloseBinSessions, DropSessions
  <2> QED
    BY <1>1, <1>2, <2>1, CloseConserves
<1>3. CASE Ticker
  <2>1. /\ CloseBinSessions(Expired) /\ work_session_id' = work_session_id
        /\ work_session_id \in Sessions
    BY <1>3 DEF Ticker, IsOpen, TypeOK
  <2>2. Expired \in SUBSET OpenBinSessions
    BY DEF Expired, OpenBinSessions
  <2> QED
    BY <1>2, <2>1, <2>2
<1>4. ASSUME NEW c \in Bins, ToggleClose(c)
      PROVE  InFlightNet(b, i)' = InFlightNet(b, i) + Gained(b, i)
  <2>1. {c} \in SUBSET OpenBinSessions
    BY <1>4, ConstantsAssumption DEF ToggleClose, FocusHasSession
  <2>2. /\ CloseBinSessions({c}) /\ work_session_id' = work_session_id
        /\ work_session_id \in Sessions
    BY <1>4 DEF ToggleClose, ScanAccepted, IsOpen, session, TypeOK
  <2> QED
    BY <1>2, <2>1, <2>2
<1>5. ASSUME NEW c \in Bins, RefocusBin(c)
      PROVE  InFlightNet(b, i)' = InFlightNet(b, i) + Gained(b, i)
  <2>1. UNCHANGED <<buffered_operations, work_session_id, session_op, session_items>>
    BY <1>5 DEF RefocusBin, tables, session
  <2>2. Gained(b, i) = 0
    BY <2>1 DEF Gained, Opened
  <2>3. InFlightNet(b, i)' = InFlightNet(b, i)
    BY <2>1 DEF InFlightNet, BufferedOf, Select, Qty, RowUnits, ListQty, ListUnits
  <2> QED
    BY <1>1, <2>2, <2>3
<1> QED
  BY <1>3, <1>4, <1>5, OpenBinConserves DEF BinScan

(* Staged items leave for one bin, all of them, or remain.                  *)
LEMMA StagedStep ==
    ASSUME TypeOK, Ticker \/ \E c \in Bins : BinScan(c), NEW i \in Items
    PROVE  /\ \A b, c \in Bins : Opened(b) /\ Opened(c) => b = c
           /\ ListQty(unassigned_items', i) =
                 IF \E b \in Bins : Opened(b) THEN 0 ELSE ListQty(unassigned_items, i)
<1>1. ASSUME unassigned_items' = unassigned_items, \A b \in Bins : ~Opened(b)
      PROVE  /\ \A b, c \in Bins : Opened(b) /\ Opened(c) => b = c
             /\ ListQty(unassigned_items', i) =
                   IF \E b \in Bins : Opened(b) THEN 0
                   ELSE ListQty(unassigned_items, i)
  BY <1>1
<1>2. ASSUME NEW S, DropSessions(S) PROVE \A b \in Bins : ~Opened(b)
  BY <1>2 DEF DropSessions, Opened
<1>3. CASE Ticker
  BY <1>1, <1>2, <1>3 DEF Ticker, CloseBinSessions
<1>4. ASSUME NEW c \in Bins, ToggleClose(c)
      PROVE  unassigned_items' = unassigned_items /\ \A b \in Bins : ~Opened(b)
  BY <1>2, <1>4 DEF ToggleClose, CloseBinSessions
<1>5. ASSUME NEW c \in Bins, RefocusBin(c)
      PROVE  unassigned_items' = unassigned_items /\ \A b \in Bins : ~Opened(b)
  BY <1>5 DEF RefocusBin, Opened
<1>6. ASSUME NEW c \in Bins, OpenBinSession(c)
      PROVE  /\ \A b, d \in Bins : Opened(b) /\ Opened(d) => b = d
             /\ ListQty(unassigned_items', i) =
                   IF \E b \in Bins : Opened(b) THEN 0
                   ELSE ListQty(unassigned_items, i)
  <2>1. session_op \in [Bins -> {"none", "add", "remove"}]
    BY DEF TypeOK
  <2>2. /\ unassigned_items' = EmptyList
        /\ session_op[c] = "none"
        /\ session_op' = [session_op EXCEPT ![c] =
              IF unassigned_items = EmptyList THEN "remove" ELSE "add"]
    BY <1>6 DEF OpenBinSession
  <2>3. Opened(c)
    BY <2>1, <2>2 DEF Opened
  <2>4. \A b \in Bins : Opened(b) => b = c
    BY <2>1, <2>2 DEF Opened
  <2>5. ListQty(unassigned_items', i) = 0
    BY <2>2, ListQtyEmpty
  <2> QED
    BY <2>3, <2>4, <2>5
<1> QED
  BY <1>1, <1>3, <1>4, <1>5, <1>6 DEF BinScan

LEMMA SignedSum ==
    ASSUME NEW op, NEW p \in Nat, NEW q \in Nat
    PROVE  Signed(op, p + q) = Signed(op, p) + Signed(op, q)
<1>1. CASE op = "add"
  BY <1>1 DEF Signed
<1>2. CASE op # "add"
  <2>1. ASSUME NEW x \in Int PROVE Signed(op, x) = 0 - x
    BY <1>2, <2>1 DEF Signed
  <2>2. p + q \in Int /\ p \in Int /\ q \in Int
    OBVIOUS
  <2>3. 0 - (p + q) = (0 - p) + (0 - q)
    OBVIOUS
  <2> QED
    BY <2>1, <2>2, <2>3
<1> QED
  BY <1>1, <1>2

(* A scan of an item is staged, or counted in the bin in focus, or refused.  *)
LEMMA ItemScanStep ==
    ASSUME TypeOK, FiniteTables, NothingLeftInFlight, NEW j \in Items, NEW i \in Items,
           StageItem(j) \/ AccumulateItem(j) \/ RefuseRemoval(j)
    PROVE  ItemScanConserves(j, i)
<1> DEFINE n == ListQty(Expand(j, 1), i)
<1>1. /\ session_items \in [Bins -> [Entries -> Nat]]
      /\ unassigned_items \in [Entries -> Nat]
      /\ Expand(j, 1) \in [Entries -> Nat]
  BY ExpandType DEF TypeOK
<1>2. n \in Nat /\ ListQty(unassigned_items, i) \in Nat
  BY <1>1, ListQtyType
<1>3. \A b \in Bins : InFlightNet(b, i) \in Int
  BY NetType
<1>4. UNCHANGED <<buffered_operations, work_session_id, session_op>>
  BY DEF StageItem, AccumulateItem, RefuseRemoval, ScanItem, session
<1>5. ASSUME NEW b \in Bins, session_items'[b] = session_items[b]
      PROVE  InFlightNet(b, i)' = InFlightNet(b, i)
  BY <1>4, <1>5 DEF InFlightNet, BufferedOf, Select, Qty, RowUnits, ListQty, ListUnits
<1>6. ASSUME NEW x \in Int PROVE x + 0 = x
  OBVIOUS
<1>7. ASSUME ~StageItem(j), ~AccumulateItem(j),
             UNCHANGED <<session_items, unassigned_items>>
      PROVE  ItemScanConserves(j, i)
  <2>1. ListQty(unassigned_items', i) = ListQty(unassigned_items, i) + 0
    BY <1>2, <1>6, <1>7
  <2>2. ASSUME NEW b \in Bins PROVE InFlightNet(b, i)' = InFlightNet(b, i) + 0
    BY <1>3, <1>5, <1>6, <1>7
  <2> QED
    BY <1>7, <2>1, <2>2 DEF ItemScanConserves
<1>8. CASE StageItem(j)
  <2>1. ~AccumulateItem(j)
    BY <1>8 DEF StageItem, AccumulateItem
  <2>2. /\ unassigned_items' = Accumulate(unassigned_items, Expand(j, 1))
        /\ session_items' = session_items
    BY <1>8 DEF StageItem
  <2>3. ListQty(unassigned_items', i) = ListQty(unassigned_items, i) + n
    BY <1>1, <2>2, ListQtySum
  <2>4. ASSUME NEW b \in Bins PROVE InFlightNet(b, i)' = InFlightNet(b, i) + 0
    BY <1>3, <1>5, <1>6, <2>2
  <2> QED
    BY <1>8, <2>1, <2>3, <2>4 DEF ItemScanConserves
<1>9. CASE AccumulateItem(j)
  <2> DEFINE f == focused_bin_id
  <2>1. ~StageItem(j)
    BY <1>9 DEF StageItem, AccumulateItem
  <2>2. /\ unassigned_items' = unassigned_items
        /\ session_items' =
             [session_items EXCEPT ![f] = Accumulate(@, Expand(j, 1))]
    BY <1>9 DEF AccumulateItem
  <2>3. ListQty(unassigned_items', i) = ListQty(unassigned_items, i) + 0
    BY <1>2, <1>6, <2>2
  <2>4. ASSUME NEW b \in Bins, b # f
        PROVE  InFlightNet(b, i)' = InFlightNet(b, i) + 0
    <3>1. session_items'[b] = session_items[b]
      BY <1>1, <2>2, <2>4
    <3> QED
      BY <1>3, <1>5, <1>6, <3>1
  <2>5. ASSUME NEW b \in Bins, b = f
        PROVE  InFlightNet(b, i)' = InFlightNet(b, i) + Signed(session_op[b], n)
    <3> DEFINE A == Qty(Select(BufferedOf(work_session_id), "add", b, i))
               R == Qty(Select(BufferedOf(work_session_id), "remove", b, i))
               op == session_op[b]
               l == session_items[b]
               q == ListQty(l, i)
    <3>1. session_items'[b] = Accumulate(l, Expand(j, 1)) /\ session_op'[b] = op
      BY <1>1, <1>4, <2>2, <2>5
    <3>2. l \in [Entries -> Nat] /\ q \in Nat
      BY <1>1, ListQtyType
    <3>3. ListQty(session_items'[b], i) = q + n
      BY <3>1, <3>2, ListQtySum
    <3>4. InFlightNet(b, i) = A - R + Signed(op, q)
      BY DEF InFlightNet
    <3>5. InFlightNet(b, i)' = A - R + Signed(op, q + n)
      BY <1>4, <3>1, <3>3
         DEF InFlightNet, BufferedOf, Select, Qty, RowUnits, ListQty, ListUnits
    <3>6. A \in Nat /\ R \in Nat
      BY BufferedType
    <3>7. Signed(op, q) \in Int /\ Signed(op, n) \in Int
      <4> HIDE DEF n, q, op
      <4>1. n \in Int /\ q \in Int
        BY <1>2, <3>2
      <4>2. ASSUME NEW x \in Int PROVE (IF op = "add" THEN x ELSE 0 - x) \in Int
        OBVIOUS
      <4> QED
        BY <4>1, <4>2, SignedValue
    <3>8. Signed(op, q + n) = Signed(op, q) + Signed(op, n)
      <4> HIDE DEF n, q, op
      <4> QED
        BY <1>2, <3>2, SignedSum
    <3>9. ASSUME NEW a \in Nat, NEW r \in Nat, NEW x \in Int, NEW y \in Int
          PROVE  a - r + (x + y) = (a - r + x) + y
      OBVIOUS
    <3> HIDE DEF A, R, q, n
    <3> QED
      BY <3>4, <3>5, <3>6, <3>7, <3>8, <3>9
  <2> HIDE DEF n
  <2>6. ASSUME NEW b \in Bins
        PROVE  InFlightNet(b, i)' = InFlightNet(b, i) +
                 IF b = f THEN Signed(session_op[b], n) ELSE 0
    <3>1. CASE b = f
      BY <2>5, <3>1
    <3>2. CASE b # f
      BY <2>4, <3>2
    <3> QED
      BY <3>1, <3>2
  <2> QED
    BY <1>9, <2>1, <2>3, <2>6 DEF ItemScanConserves, n
<1>10. CASE RefuseRemoval(j)
  <2>1. ~StageItem(j) /\ ~AccumulateItem(j)
    BY <1>10 DEF RefuseRemoval, StageItem, AccumulateItem
  <2> QED
    BY <1>7, <1>10, <2>1 DEF RefuseRemoval
<1> QED
  BY <1>8, <1>9, <1>10

(***************************************************************************)
(* While scans, toggles and timeouts are all that happens, every unit      *)
(* scanned is in one place - staged, in a bin-session in its direction, or *)
(* buffered - and in no second one: an item scan puts it there, a close    *)
(* buffers all of a bin-session, and the staged items go, all of them and  *)
(* once, to the bin whose scan opens a bin-session, or stay where they are. *)
(***************************************************************************)
THEOREM ScansCorrect == Spec => ScansConserved
<1> DEFINE Step == /\ Ticker \/ (\E b \in Bins : BinScan(b)) =>
                         \A i \in Items : BinScanConserves(i)
                   /\ \A j \in Items :
                         StageItem(j) \/ AccumulateItem(j) \/ RefuseRemoval(j) =>
                            \A i \in Items : ItemScanConserves(j, i)
<1>1. LedgerInv /\ NoDanglingReferences /\ NothingLeftInFlight /\ [Next]_vars
         => [Step]_vars
  <2> SUFFICES ASSUME LedgerInv, NoDanglingReferences, NothingLeftInFlight PROVE Step
    OBVIOUS
  <2>1. TypeOK /\ FiniteTables /\ FocusHasSession /\ SessionsExist
    BY DanglingParts DEF LedgerInv, AuditInv, TypeInv
  <2>2. ASSUME Ticker \/ \E b \in Bins : BinScan(b), NEW i \in Items
        PROVE  BinScanConserves(i)
    <3>1. \A b \in Bins : InFlightNet(b, i)' = InFlightNet(b, i) + Gained(b, i)
      BY <2>1, <2>2, ConservedStep
    <3>2. /\ \A b, c \in Bins : Opened(b) /\ Opened(c) => b = c
          /\ ListQty(unassigned_items', i) =
                IF \E b \in Bins : Opened(b) THEN 0 ELSE ListQty(unassigned_items, i)
      BY <2>1, <2>2, StagedStep
    <3> QED
      BY <3>1, <3>2 DEF BinScanConserves, Gained
  <2>3. ASSUME NEW j \in Items, NEW i \in Items,
               StageItem(j) \/ AccumulateItem(j) \/ RefuseRemoval(j)
        PROVE  ItemScanConserves(j, i)
    BY <2>1, <2>3, ItemScanStep
  <2> QED
    BY <2>2, <2>3
<1> QED
  BY <1>1, LedgerInvariant, ReferencesCorrect, InFlightCorrect, PTL
     DEF Spec, ScansConserved
=============================================================================
