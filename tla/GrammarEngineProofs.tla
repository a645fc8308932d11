------------------------ MODULE GrammarEngineProofs -------------------------
(* Proofs about the scanning grammar and the work session, in four parts:   *)
(* lemmas about the operators; types and the work session; what a commit    *)
(* leaves behind; and the refinement of WorkSessionLedger.                  *)
EXTENDS GrammarEngineLedger, FiniteSetTheorems, FunctionTheorems, TLAPS

(* What the operators of GrammarEngine return: pending lists, rows, and the *)
(* quantities counted by their units.                                       *)

(* The assumptions on the constants, one fact at a time.                    *)
LEMMA IdleNat == WorkSessionIdle \in Nat
BY ConstantsAssumption

LEMMA TimeoutNat == ScanOpTimeout \in Nat
BY ConstantsAssumption

LEMMA BatchInt == Batches \subseteq Int
<1>1. MaxBatch + 1 \in Int
  BY ConstantsAssumption
<1> QED
  BY <1>1 DEF Batches

LEMMA StockType == Stock0 \in [Bins \X Items -> Nat]
BY ConstantsAssumption

-----------------------------------------------------------------------------
(* Pending lists.                                                           *)

LEMMA EmptyListType == EmptyList \in [Entries -> Nat]
BY DEF EmptyList

LEMMA ExpandType ==
    ASSUME NEW i \in Items, NEW q \in Nat
    PROVE  Expand(i, q) \in [Entries -> Nat]
<1>1. ASSUME NEW e \in Entries
      PROVE  (IF i \in DOMAIN Contents
              THEN IF e[2] = i THEN Contents[i][e[1]] * q ELSE 0
              ELSE IF e = <<i, NoPack>> THEN q ELSE 0) \in Nat
  <2>1. e[1] \in Items
    BY DEF Entries
  <2>2. ASSUME i \in DOMAIN Contents PROVE Contents[i][e[1]] * q \in Nat
    <3>1. Contents[i][e[1]] \in Nat
      BY <2>1, <2>2, ConstantsAssumption
    <3> QED
      BY <3>1
  <2> QED
    BY <2>2
<1> QED
  BY <1>1 DEF Expand

LEMMA AccumulateType ==
    ASSUME NEW l \in [Entries -> Nat], NEW m \in [Entries -> Nat]
    PROVE  Accumulate(l, m) \in [Entries -> Nat]
BY DEF Accumulate

(* Rows made from a pending list are rows, and positive.                    *)
LEMMA RowsOfType ==
    ASSUME work_session_id \in Sessions, NEW n \in Batches,
           NEW op \in {"add", "remove"}, NEW b \in Bins, NEW l \in [Entries -> Nat]
    PROVE  RowsOf(n, op, b, l) \subseteq Rows
<1>1. ASSUME NEW e \in Entries, l[e] > 0
      PROVE  [batch |-> n, ws |-> work_session_id, op |-> op, bin |-> b,
              item |-> e[1], via |-> e[2], qty |-> l[e]] \in Rows
  <2>1. e[1] \in Items /\ e[2] \in Vias
    BY DEF Entries
  <2>2. l[e] \in Nat \ {0}
    BY <1>1
  <2> QED
    BY <2>1, <2>2 DEF Rows
<1> QED
  BY <1>1 DEF RowsOf

LEMMA AuditOfType ==
    ASSUME NEW R \in SUBSET Rows
    PROVE  AuditOf(R) \subseteq AuditRows
BY DEF AuditOf, Rows, AuditRows

-----------------------------------------------------------------------------
(* Finiteness.                                                              *)

LEMMA EntriesFinite == IsFiniteSet(Entries)
<1>1. IsFiniteSet(Items)
  BY ConstantsAssumption
<1>2. IsFiniteSet(Vias)
  BY <1>1, FS_AddElement DEF Vias
<1> QED
  BY <1>1, <1>2, FS_Product DEF Entries

(* The values a function takes on a finite set are finitely many.           *)
LEMMA ValuesFinite ==
    ASSUME NEW D, IsFiniteSet(D), NEW T, NEW f \in [D -> T]
    PROVE  IsFiniteSet({f[x] : x \in D})
<1>1. f \in Surjection(D, Range(f))
  BY Fun_RangeProperties
<1>2. IsFiniteSet(Range(f))
  BY <1>1, FS_Surjection
<1>3. Range(f) = {f[x] : x \in D}
  BY DEF Range
<1> QED
  BY <1>2, <1>3

LEMMA RowsOfFinite ==
    ASSUME NEW n, NEW op, NEW b, NEW l
    PROVE  IsFiniteSet(RowsOf(n, op, b, l))
<1> DEFINE D == {e \in Entries : l[e] > 0}
           f == [e \in D |->
                   [batch |-> n, ws |-> work_session_id, op |-> op, bin |-> b,
                    item |-> e[1], via |-> e[2], qty |-> l[e]]]
           T == {f[e] : e \in D}
<1>1. IsFiniteSet(D)
  BY EntriesFinite, FS_Subset
<1>2. f \in [D -> T]
  OBVIOUS
<1>3. IsFiniteSet({f[e] : e \in D})
  <2> HIDE DEF D, f, T
  <2> QED BY <1>1, <1>2, ValuesFinite
<1>4. RowsOf(n, op, b, l) = {f[e] : e \in D}
  BY DEF RowsOf
<1> QED
  BY <1>3, <1>4

LEMMA ClosedRowsFinite ==
    ASSUME NEW n, NEW b
    PROVE  IsFiniteSet(ClosedRows(n, b))
<1>1. ClosedRows(n, b) \in SUBSET RowsOf(n, session_op[b], b, session_items[b])
  BY DEF ClosedRows, Insertable
<1> QED
  BY <1>1, RowsOfFinite, FS_Subset

LEMMA ClosedRowsUnionFinite ==
    ASSUME NEW n, NEW S \in SUBSET Bins
    PROVE  IsFiniteSet(UNION {ClosedRows(n, b) : b \in S})
<1> DEFINE f == [b \in S |-> ClosedRows(n, b)]
           T == {f[b] : b \in S}
<1>1. IsFiniteSet(S)
  BY ConstantsAssumption, FS_Subset
<1>2. f \in [S -> T]
  OBVIOUS
<1>3. IsFiniteSet({f[b] : b \in S})
  <2> HIDE DEF f, T
  <2> QED BY <1>1, <1>2, ValuesFinite
<1>4. {f[b] : b \in S} = {ClosedRows(n, b) : b \in S}
  OBVIOUS
<1>5. IsFiniteSet({ClosedRows(n, b) : b \in S})
  BY <1>3, <1>4
<1> QED
  BY <1>5, ClosedRowsFinite, FS_UNION

(* The audit row of a buffered row.                                         *)
Audited(r) == [batch |-> r.batch, op |-> r.op, bin |-> r.bin, item |-> r.item,
               via |-> r.via, qty |-> r.qty]

LEMMA AuditOfFinite ==
    ASSUME NEW R, IsFiniteSet(R)
    PROVE  IsFiniteSet(AuditOf(R))
<1> DEFINE f == [r \in R |-> Audited(r)]
           T == {f[r] : r \in R}
<1>1. f \in [R -> T]
  OBVIOUS
<1>2. IsFiniteSet({f[r] : r \in R})
  <2> HIDE DEF f, T
  <2> QED BY <1>1, ValuesFinite
<1>3. AuditOf(R) = {f[r] : r \in R}
  BY DEF AuditOf, Audited
<1> QED
  BY <1>2, <1>3

-----------------------------------------------------------------------------
(* Quantities.  Qty adds up as a sum does, because the units of different    *)
(* rows are different.                                                      *)

HaveQty(R) == \A r \in R : r.qty \in Nat

LEMMA UnitsFinite ==
    ASSUME NEW R, IsFiniteSet(R), HaveQty(R)
    PROVE  IsFiniteSet(RowUnits(R))
<1> DEFINE f == [r \in R |-> {r} \X (1 .. r.qty)]
           T == {f[r] : r \in R}
<1>1. f \in [R -> T]
  OBVIOUS
<1>2. IsFiniteSet({f[r] : r \in R})
  <2> HIDE DEF f, T
  <2> QED BY <1>1, ValuesFinite
<1>3. {f[r] : r \in R} = {{r} \X (1 .. r.qty) : r \in R}
  OBVIOUS
<1>4. ASSUME NEW r \in R PROVE IsFiniteSet({r} \X (1 .. r.qty))
  <2>1. r.qty \in Int
    BY DEF HaveQty
  <2>2. IsFiniteSet(1 .. r.qty)
    BY <2>1, FS_Interval
  <2> QED
    BY <2>2, FS_Singleton, FS_Product
<1>5. IsFiniteSet({{r} \X (1 .. r.qty) : r \in R})
  BY <1>2, <1>3
<1> QED
  BY <1>4, <1>5, FS_UNION DEF RowUnits

LEMMA QtyType ==
    ASSUME NEW R, IsFiniteSet(R), HaveQty(R)
    PROVE  Qty(R) \in Nat
BY UnitsFinite, FS_CardinalityType DEF Qty

LEMMA SelectQtyType ==
    ASSUME NEW R \in SUBSET Rows, IsFiniteSet(R), NEW op, NEW b, NEW i
    PROVE  Qty(Select(R, op, b, i)) \in Nat
<1>1. Select(R, op, b, i) \in SUBSET R
  BY DEF Select
<1>2. IsFiniteSet(Select(R, op, b, i))
  BY <1>1, FS_Subset
<1>3. HaveQty(Select(R, op, b, i))
  BY <1>1 DEF HaveQty, Rows
<1> QED
  BY <1>2, <1>3, QtyType

LEMMA AddSubtract ==
    ASSUME NEW x \in Int, NEW y \in Nat, NEW z \in Nat
    PROVE  x + y - z \in Int
OBVIOUS

LEMMA QtyEmpty == Qty({}) = 0
<1>1. RowUnits({}) = {}
  BY DEF RowUnits
<1> QED
  BY <1>1, FS_EmptySet DEF Qty

LEMMA QtyDisjointUnion ==
    ASSUME NEW R, IsFiniteSet(R), HaveQty(R),
           NEW S, IsFiniteSet(S), HaveQty(S), R \cap S = {}
    PROVE  Qty(R \cup S) = Qty(R) + Qty(S)
<1>1. RowUnits(R \cup S) = RowUnits(R) \cup RowUnits(S)
  BY DEF RowUnits
<1>2. RowUnits(R) \cap RowUnits(S) = {}
  BY DEF RowUnits
<1>3. IsFiniteSet(RowUnits(R)) /\ IsFiniteSet(RowUnits(S))
  BY UnitsFinite
<1>4. Cardinality(RowUnits(R)) \in Nat /\ Cardinality(RowUnits(S)) \in Nat
  BY <1>3, FS_CardinalityType
<1>5. Cardinality(RowUnits(R) \cup RowUnits(S)) =
        Cardinality(RowUnits(R)) + Cardinality(RowUnits(S))
          - Cardinality(RowUnits(R) \cap RowUnits(S))
  BY <1>3, FS_Union
<1>6. Cardinality(RowUnits(R) \cap RowUnits(S)) = 0
  BY <1>2, FS_EmptySet
<1>7. ASSUME NEW c \in Nat, NEW d \in Nat PROVE c + d - 0 = c + d
  OBVIOUS
<1> QED
  BY <1>1, <1>4, <1>5, <1>6, <1>7 DEF Qty

(* Auditing rows of one session keeps their quantities: no two of its rows  *)
(* have the same audit row.                                                 *)
LEMMA QtyAudited ==
    ASSUME NEW R \in SUBSET Rows, IsFiniteSet(R), NEW s, \A r \in R : r.ws = s
    PROVE  Qty(AuditOf(R)) = Qty(R)
<1> DEFINE U == RowUnits(R)
           V == RowUnits(AuditOf(R))
           f == [u \in U |-> <<Audited(u[1]), u[2]>>]
<1>1. ASSUME NEW u \in U
      PROVE  u = <<u[1], u[2]>> /\ u[1] \in R /\ u[2] \in 1 .. u[1].qty
  BY DEF RowUnits
<1>2. ASSUME NEW u \in U PROVE f[u] \in V
  <2>1. Audited(u[1]) \in AuditOf(R) /\ Audited(u[1]).qty = u[1].qty
    BY <1>1 DEF AuditOf, Audited
  <2> QED
    BY <1>1, <2>1 DEF RowUnits
<1>3. f \in [U -> V]
  BY <1>2
<1>4. ASSUME NEW u \in U, NEW w \in U, f[u] = f[w] PROVE u = w
  <2>1. Audited(u[1]) = Audited(w[1]) /\ u[2] = w[2]
    BY <1>4
  <2>2. u[1] = w[1]
    BY <1>1, <2>1 DEF Audited, Rows
  <2> QED
    BY <1>1, <2>1, <2>2
<1>5. ASSUME NEW v \in V PROVE \E u \in U : f[u] = v
  <2>0. PICK a \in AuditOf(R) : \E k \in 1 .. a.qty : v = <<a, k>>
    BY DEF RowUnits
  <2>1. PICK k \in 1 .. a.qty : v = <<a, k>>
    BY <2>0
  <2>2. PICK r \in R : a = Audited(r)
    BY DEF AuditOf, Audited
  <2>3. <<r, k>> \in U
    BY <2>1, <2>2 DEF RowUnits, Audited
  <2> QED
    BY <2>1, <2>2, <2>3
<1>6. f \in Bijection(U, V)
  <2> HIDE DEF f, U, V
  <2>1. f \in Injection(U, V)
    BY <1>3, <1>4, Fun_IsInj
  <2>2. f \in Surjection(U, V)
    BY <1>3, <1>5, Fun_IsSurj
  <2> QED
    BY <2>1, <2>2 DEF Bijection
<1>7. ExistsBijection(U, V)
  BY <1>6, Fun_ExistsBij
<1>8. IsFiniteSet(U)
  BY UnitsFinite DEF HaveQty, Rows
<1> QED
  BY <1>7, <1>8, FS_Bijection DEF Qty

-----------------------------------------------------------------------------
(* Proofs about the scanning grammar and the work session, for any bins,    *)
(* items, packs, quantities, timeouts and number of sessions.               *)

(* The variables by kind of value, so that a step is checked part by part.  *)
TablesOK ==
    /\ work_sessions \in [Sessions -> Status]
    /\ buffered_operations \in SUBSET Rows
    /\ bin_stock \in [Bins \X Items -> Int]
    /\ audit_log \in SUBSET AuditRows
    /\ bins \in [Bins -> Provenance]
    /\ items \in [Items -> Provenance]

SessionOK ==
    /\ work_session_id \in Sessions \cup {0}
    /\ work_session_status \in {"", "open", "frozen"}

GrammarOK ==
    /\ focused_bin_id \in Bins \cup {NoBin}
    /\ session_op \in [Bins -> {"none", "add", "remove"}]
    /\ session_items \in [Bins -> [Entries -> Nat]]
    /\ unassigned_items \in [Entries -> Nat]
    /\ item_age \in [Bins -> 0..ScanOpTimeout]

(* The quantities of the tables can be summed: they have finitely many rows. *)
FiniteTables == IsFiniteSet(buffered_operations) /\ IsFiniteSet(audit_log)

AgeOK == activity_age \in 0..WorkSessionIdle

LEMMA TypeParts == TypeOK <=> TablesOK /\ SessionOK /\ GrammarOK /\ AgeOK
BY DEF TypeOK, TablesOK, SessionOK, GrammarOK, AgeOK

LEMMA TypePartsNext == TypeOK' <=> TablesOK' /\ SessionOK' /\ GrammarOK' /\ AgeOK'
BY DEF TypeOK, TablesOK, SessionOK, GrammarOK, AgeOK

-----------------------------------------------------------------------------
(* The rows a bin-session is closed into.                                   *)

LEMMA ClosedRowsType ==
    ASSUME GrammarOK, work_session_id \in Sessions, NEW n \in Batches,
           NEW b \in OpenBinSessions
    PROVE  ClosedRows(n, b) \subseteq Rows
<1>1. b \in Bins /\ session_op[b] \in {"add", "remove"}
  BY DEF OpenBinSessions, GrammarOK
<1>2. session_items[b] \in [Entries -> Nat]
  BY <1>1 DEF GrammarOK
<1> QED
  BY <1>1, <1>2, RowsOfType DEF ClosedRows, Insertable

LEMMA ClosedRowsUnionType ==
    ASSUME GrammarOK, work_session_id \in Sessions, NEW n \in Batches,
           NEW S \in SUBSET OpenBinSessions
    PROVE  UNION {ClosedRows(n, b) : b \in S} \subseteq Rows
BY ClosedRowsType

LEMMA SessionRowsType ==
    ASSUME TypeOK, FiniteTables, work_session_id \in Sessions, NEW n \in Batches
    PROVE  /\ FoldedRows(n) \in SUBSET Rows /\ IsFiniteSet(FoldedRows(n))
           /\ SessionRows(n) \in SUBSET Rows /\ IsFiniteSet(SessionRows(n))
<1>1. GrammarOK /\ buffered_operations \in SUBSET Rows
  BY TypeParts DEF TablesOK
<1>2. FoldedRows(n) \in SUBSET Rows
  BY <1>1, ClosedRowsUnionType DEF FoldedRows
<1>3. IsFiniteSet(FoldedRows(n))
  BY ClosedRowsUnionFinite DEF FoldedRows, OpenBinSessions
<1>4. BufferedOf(work_session_id) \in SUBSET buffered_operations
  BY DEF BufferedOf
<1>5. IsFiniteSet(BufferedOf(work_session_id))
  BY <1>4, FS_Subset DEF FiniteTables
<1>6. IsFiniteSet(SessionRows(n))
  BY <1>3, <1>5, FS_Union DEF SessionRows
<1> QED
  BY <1>1, <1>2, <1>3, <1>4, <1>6 DEF SessionRows

-----------------------------------------------------------------------------
(* What a call that drops bin-sessions leaves in memory.                    *)

LEMMA DropSessionsType ==
    ASSUME GrammarOK, NEW S, DropSessions(S), unassigned_items' = unassigned_items
    PROVE  GrammarOK'
BY EmptyListType, TimeoutNat DEF GrammarOK, DropSessions

LEMMA LoseMemoryType ==
    ASSUME LoseMemory
    PROVE  GrammarOK'
BY EmptyListType, TimeoutNat DEF GrammarOK, LoseMemory

(* A step that counts as activity leaves its age in range.                  *)
LEMMA ZeroAge == activity_age' = 0 => AgeOK'
BY IdleNat DEF AgeOK

(* grammar_engine_create reads the session back from the table.             *)
LEMMA ReattachType ==
    ASSUME Reattach
    PROVE  SessionOK' /\ GrammarOK' /\ AgeOK'
<1>1. GrammarOK'
  BY LoseMemoryType DEF Reattach
<1>2. AgeOK'
  BY ZeroAge DEF Reattach
<1>3. SessionOK'
  <2>1. CASE work_session_id' = 0 /\ work_session_status' = ""
    BY <2>1 DEF SessionOK
  <2>2. ASSUME NEW s \in Active, work_session_id' = s,
               work_session_status' = work_sessions[s]
        PROVE  SessionOK'
    BY <2>2 DEF SessionOK, Active
  <2> QED
    BY <2>1, <2>2 DEF Reattach
<1> QED
  BY <1>1, <1>2, <1>3

-----------------------------------------------------------------------------
(* How each part survives a step.                                           *)

LEMMA CloseBinSessionsType ==
    ASSUME TypeOK, work_session_id \in Sessions, NEW S \in SUBSET OpenBinSessions,
           CloseBinSessions(S), unassigned_items' = unassigned_items
    PROVE  buffered_operations' \in SUBSET Rows /\ GrammarOK'
<1>1. GrammarOK /\ buffered_operations \in SUBSET Rows
  BY TypeParts DEF TablesOK
<1>2. PICK n \in Batches : buffered_operations' =
         buffered_operations \cup UNION {ClosedRows(n, b) : b \in S}
  BY DEF CloseBinSessions
<1>3. buffered_operations' \in SUBSET Rows
  BY <1>1, <1>2, ClosedRowsUnionType
<1>4. GrammarOK'
  BY <1>1, DropSessionsType DEF CloseBinSessions
<1> QED
  BY <1>3, <1>4

LEMMA ManualRowsType ==
    ASSUME work_session_id \in Sessions, NEW n \in Batches,
           NEW op \in {"add", "remove"}, NEW b \in Bins, NEW i \in Items,
           NEW q \in Quantities
    PROVE  Insertable(RowsOf(n, op, b, Expand(i, q))) \subseteq Rows
<1>1. Expand(i, q) \in [Entries -> Nat]
  BY ExpandType, ConstantsAssumption
<1> QED
  BY <1>1, RowsOfType DEF Insertable

LEMMA ScanTablesType ==
    ASSUME TypeOK, NEW i \in Items, ScanItem(i)
    PROVE  TablesOK' /\ SessionOK' /\ AgeOK'
<1>1. work_session_id \in Sessions
  BY DEF ScanItem, ScanAccepted, IsOpen, TypeOK
<1>2. TablesOK'
  BY <1>1 DEF ScanItem, TypeOK, TablesOK, Provenance
<1>3. SessionOK'
  BY DEF ScanItem, TypeOK, SessionOK, session
<1> QED
  BY <1>2, <1>3, ZeroAge DEF ScanItem, ScanAccepted

LEMMA DeleteCreatedType ==
    ASSUME NEW D, NEW table \in [D -> Provenance], NEW held
    PROVE  DeleteCreated(table, held) \in [D -> Provenance]
BY DEF DeleteCreated, Provenance

-----------------------------------------------------------------------------
(* The type invariant, action by action.                                    *)
LEMMA TypeInit == Init => TypeOK
<1> SUFFICES ASSUME Init PROVE TypeOK
  OBVIOUS
<1>1. TablesOK
  <2>1. bin_stock = Stock0
    BY DEF Init
  <2>2. bin_stock \in [Bins \X Items -> Int]
    BY <2>1, StockType
  <2> QED
    BY <2>2 DEF Init, TablesOK, Status, Provenance
<1>2. SessionOK
  BY DEF Init, SessionOK
<1>3. GrammarOK
  <2>1. /\ focused_bin_id = NoBin
        /\ session_op = [b \in Bins |-> "none"]
        /\ session_items = [b \in Bins |-> EmptyList]
        /\ unassigned_items = EmptyList
        /\ item_age = [b \in Bins |-> 0]
    BY DEF Init
  <2> QED
    BY <2>1, EmptyListType, TimeoutNat DEF GrammarOK
<1>4. AgeOK
  <2>1. activity_age = 0
    BY DEF Init
  <2> QED
    BY <2>1, IdleNat DEF AgeOK
<1> QED
  BY <1>1, <1>2, <1>3, <1>4, TypeParts

(* A toggle closes the bin-session of the focused bin, which must exist for *)
(* its rows to have an operation: FocusHasSession goes into the induction.  *)
LEMMA TypeStep == TypeOK /\ FiniteTables /\ FocusHasSession /\ [Next]_vars => TypeOK'
<1> SUFFICES ASSUME TypeOK, FiniteTables, FocusHasSession, [Next]_vars PROVE TypeOK'
  OBVIOUS
<1>0. TablesOK /\ SessionOK /\ GrammarOK /\ AgeOK
  BY TypeParts
<1>t. TablesOK' /\ SessionOK' /\ GrammarOK' /\ AgeOK' => TypeOK'
  BY TypePartsNext
<1>s. UNCHANGED session => SessionOK'
  BY <1>0 DEF session, SessionOK
<1>g. UNCHANGED grammar => GrammarOK'
  BY <1>0 DEF grammar, GrammarOK
<1>b. UNCHANGED tables => TablesOK'
  BY <1>0 DEF tables, TablesOK
<1>r. /\ buffered_operations' \in SUBSET Rows
      /\ UNCHANGED <<work_sessions, bin_stock, audit_log, bins, items>>
      => TablesOK'
  BY <1>0 DEF TablesOK
<1>o. IsOpen => work_session_id \in Sessions
  BY <1>0 DEF IsOpen, SessionOK
<1>n. work_session_id # 0 => work_session_id \in Sessions
  BY <1>0 DEF SessionOK
<1>1. ASSUME NEW b \in Bins, ScanUnknownBin(b) PROVE TypeOK'
  BY <1>1, <1>s, <1>g, <1>b, <1>t, ZeroAge DEF ScanUnknownBin, ScanAccepted
<1>2. ASSUME NEW b \in Bins, ToggleClose(b) PROVE TypeOK'
  <2>1. {b} \in SUBSET OpenBinSessions
    BY <1>2, ConstantsAssumption DEF ToggleClose, FocusHasSession
  <2>2. work_session_id \in Sessions
    BY <1>2, <1>o DEF ToggleClose, ScanAccepted
  <2>3. CloseBinSessions({b}) /\ unassigned_items' = unassigned_items
    BY <1>2 DEF ToggleClose
  <2>4. buffered_operations' \in SUBSET Rows /\ GrammarOK'
    BY <2>1, <2>2, <2>3, CloseBinSessionsType
  <2> QED
    BY <1>2, <2>4, <1>r, <1>s, <1>t, ZeroAge DEF ToggleClose, ScanAccepted
<1>3. ASSUME NEW b \in Bins, OpenBinSession(b) PROVE TypeOK'
  <2>1. GrammarOK'
    BY <1>0, <1>3, EmptyListType, TimeoutNat DEF OpenBinSession, GrammarOK
  <2> QED
    BY <1>3, <2>1, <1>s, <1>b, <1>t, ZeroAge DEF OpenBinSession, ScanAccepted
<1>4. ASSUME NEW b \in Bins, RefocusBin(b) PROVE TypeOK'
  <2>1. GrammarOK'
    BY <1>0, <1>4 DEF RefocusBin, GrammarOK
  <2> QED
    BY <1>4, <2>1, <1>s, <1>b, <1>t, ZeroAge DEF RefocusBin, ScanAccepted
<1>5. ASSUME NEW i \in Items, StageItem(i) PROVE TypeOK'
  <2>1. unassigned_items' \in [Entries -> Nat]
    BY <1>0, <1>5, ExpandType, AccumulateType DEF StageItem, GrammarOK
  <2>2. UNCHANGED <<session_op, focused_bin_id, session_items, item_age>>
    BY <1>5 DEF StageItem, ScanItem
  <2>3. GrammarOK'
    BY <1>0, <2>1, <2>2 DEF GrammarOK
  <2> QED
    BY <1>5, <2>3, <1>t, ScanTablesType DEF StageItem
<1>6. ASSUME NEW i \in Items, AccumulateItem(i) PROVE TypeOK'
  <2> DEFINE b == focused_bin_id
  <2>1. b \in Bins
    BY <1>0, <1>6 DEF AccumulateItem, GrammarOK
  <2>2. Accumulate(session_items[b], Expand(i, 1)) \in [Entries -> Nat]
    BY <1>0, <2>1, ExpandType, AccumulateType DEF GrammarOK
  <2>3. /\ session_items' = [session_items EXCEPT ![b] =
                               Accumulate(session_items[b], Expand(i, 1))]
        /\ item_age' = [item_age EXCEPT ![b] = 0]
        /\ UNCHANGED <<session_op, focused_bin_id, unassigned_items>>
    BY <1>6 DEF AccumulateItem, ScanItem
  <2>4. GrammarOK'
    BY <1>0, <2>1, <2>2, <2>3, TimeoutNat DEF GrammarOK
  <2> QED
    BY <1>6, <2>4, <1>t, ScanTablesType DEF AccumulateItem
<1>7. ASSUME NEW i \in Items, RefuseRemoval(i) PROVE TypeOK'
  <2>1. UNCHANGED grammar
    BY <1>7 DEF RefuseRemoval, ScanItem, grammar
  <2> QED
    BY <1>7, <2>1, <1>g, <1>t, ScanTablesType DEF RefuseRemoval
<1>8. ASSUME OpenSession PROVE TypeOK'
  <2>1. PICK s \in Sessions : /\ work_sessions' = [work_sessions EXCEPT ![s] = "open"]
                              /\ work_session_id' = s
    BY <1>8 DEF OpenSession
  <2>2. /\ activity_age' = 0
        /\ work_session_status' = "open"
        /\ UNCHANGED <<buffered_operations, bin_stock, audit_log, bins, items, grammar>>
    BY <1>8 DEF OpenSession
  <2>3. TablesOK'
    BY <1>0, <2>1, <2>2 DEF TablesOK, Status
  <2>4. SessionOK'
    BY <2>1, <2>2 DEF SessionOK
  <2> QED
    BY <2>2, <2>3, <2>4, <1>g, <1>t, ZeroAge
<1>9. ASSUME RestoreSession PROVE TypeOK'
  <2>1. /\ work_sessions' = [work_sessions EXCEPT ![work_session_id] = "open"]
        /\ activity_age' = 0
        /\ work_session_status' = "open"
        /\ UNCHANGED <<buffered_operations, bin_stock, audit_log, bins, items,
                       work_session_id, grammar>>
    BY <1>9 DEF RestoreSession
  <2>2. TablesOK'
    BY <1>0, <2>1 DEF TablesOK, Status
  <2>3. SessionOK'
    BY <1>0, <2>1 DEF SessionOK
  <2> QED
    BY <2>1, <2>2, <2>3, <1>g, <1>t, ZeroAge
<1>10. ASSUME CommitSession PROVE TypeOK'
  <2>1. work_session_id \in Sessions
    BY <1>10, <1>n DEF CommitSession
  <2>2. PICK n \in Batches :
           /\ buffered_operations' = buffered_operations \cup FoldedRows(n)
           /\ bin_stock' = [c \in Bins \X Items |->
                 bin_stock[c] + Qty(Select(SessionRows(n), "add", c[1], c[2]))
                              - Qty(Select(SessionRows(n), "remove", c[1], c[2]))]
           /\ audit_log' = audit_log \cup AuditOf(SessionRows(n))
    BY <1>10 DEF CommitSession, ApplyRows
  <2>3. FoldedRows(n) \in SUBSET Rows /\ SessionRows(n) \in SUBSET Rows
    BY <2>1, SessionRowsType
  <2>4. buffered_operations' \in SUBSET Rows
    BY <1>0, <2>2, <2>3 DEF TablesOK
  <2>5. audit_log' \in SUBSET AuditRows
    BY <1>0, <2>2, <2>3, AuditOfType DEF TablesOK
  <2>6. ASSUME NEW op, NEW b, NEW i PROVE Qty(Select(SessionRows(n), op, b, i)) \in Nat
    BY <2>1, SessionRowsType, SelectQtyType
  <2>7. ASSUME NEW c \in Bins \X Items
        PROVE  bin_stock[c] + Qty(Select(SessionRows(n), "add", c[1], c[2]))
                 - Qty(Select(SessionRows(n), "remove", c[1], c[2])) \in Int
    <3>1. bin_stock[c] \in Int
      BY <1>0 DEF TablesOK
    <3> QED
      BY <2>6, <3>1, AddSubtract
  <2>8. bin_stock' \in [Bins \X Items -> Int]
    BY <2>2, <2>7
  <2>9. work_sessions' = [work_sessions EXCEPT ![work_session_id] = "committed"]
        /\ UNCHANGED <<bins, items>>
    BY <1>10 DEF CommitSession
  <2>10. TablesOK'
    BY <1>0, <2>4, <2>5, <2>8, <2>9 DEF TablesOK, Status
  <2>11. SessionOK' /\ GrammarOK' /\ AgeOK'
    BY <1>0, <1>10, LoseMemoryType DEF CommitSession, SessionOK, AgeOK
  <2> QED
    BY <2>10, <2>11, <1>t
<1>11. ASSUME RollbackSession PROVE TypeOK'
  <2>1. /\ buffered_operations' \in SUBSET buffered_operations
        /\ work_sessions' = [work_sessions EXCEPT ![work_session_id] = "rolled_back"]
        /\ UNCHANGED <<bin_stock, audit_log>>
    BY <1>11 DEF RollbackSession
  <2>2. bins' \in [Bins -> Provenance]
    BY <1>0, <1>11, DeleteCreatedType DEF RollbackSession, TablesOK
  <2>3. items' \in [Items -> Provenance]
    BY <1>0, <1>11, DeleteCreatedType DEF RollbackSession, TablesOK
  <2>4. TablesOK'
    BY <1>0, <2>1, <2>2, <2>3 DEF TablesOK, Status
  <2>5. SessionOK' /\ GrammarOK' /\ AgeOK'
    BY <1>0, <1>11, LoseMemoryType DEF RollbackSession, SessionOK, AgeOK
  <2> QED
    BY <2>4, <2>5, <1>t
<1>12. ASSUME NEW op \in {"add", "remove"}, NEW b \in Bins, NEW i \in Items,
              NEW q \in Quantities, ManualOperation(op, b, i, q)
       PROVE  TypeOK'
  <2>1. work_session_id \in Sessions
    BY <1>12, <1>o DEF ManualOperation
  <2>2. PICK n \in Batches : buffered_operations' =
           buffered_operations \cup Insertable(RowsOf(n, op, b, Expand(i, q)))
    BY <1>12 DEF ManualOperation
  <2>3. Insertable(RowsOf(n, op, b, Expand(i, q))) \subseteq Rows
    BY <2>1, ManualRowsType
  <2>4. buffered_operations' \in SUBSET Rows
    BY <1>0, <2>2, <2>3 DEF TablesOK
  <2> QED
    BY <1>12, <2>4, <1>r, <1>s, <1>g, <1>t, ZeroAge DEF ManualOperation
<1>13. ASSUME NEW r \in buffered_operations, DeleteOperation(r) PROVE TypeOK'
  <2>1. buffered_operations' \in SUBSET Rows
    BY <1>0, <1>13 DEF DeleteOperation, TablesOK
  <2>2. AgeOK'
    BY <1>0, <1>13 DEF DeleteOperation, AgeOK
  <2> QED
    BY <1>13, <2>1, <2>2, <1>r, <1>s, <1>g, <1>t DEF DeleteOperation
<1>14. ASSUME NEW r \in buffered_operations, NEW q \in Quantities,
              UpdateOperationQuantity(r, q)
       PROVE  TypeOK'
  <2>1. q \in Nat \ {0}
    BY ConstantsAssumption
  <2>2. r \in Rows /\ [r EXCEPT !.qty = q] \in Rows
    BY <1>0, <2>1 DEF TablesOK, Rows
  <2>3. buffered_operations' \in SUBSET Rows
    BY <1>0, <1>14, <2>2 DEF UpdateOperationQuantity, TablesOK
  <2>4. AgeOK'
    BY <1>0, <1>14 DEF UpdateOperationQuantity, AgeOK
  <2> QED
    BY <1>14, <2>3, <2>4, <1>r, <1>s, <1>g, <1>t DEF UpdateOperationQuantity
<1>15. ASSUME NEW b \in Bins, CreateBin(b) PROVE TypeOK'
  <2>1. work_session_id \in Provenance
    BY <1>15, <1>o DEF CreateBin, Provenance
  <2>2. bins' \in [Bins -> Provenance]
    BY <1>0, <1>15, <2>1 DEF CreateBin, TablesOK
  <2>3. TablesOK'
    BY <1>0, <1>15, <2>2 DEF CreateBin, TablesOK
  <2> QED
    BY <1>15, <2>3, <1>s, <1>g, <1>t, ZeroAge DEF CreateBin
<1>16. ASSUME Tick PROVE TypeOK'
  <2>1. ASSUME NEW cap \in Nat, NEW age \in 0..cap PROVE Older(age, cap) \in 0..cap
    BY DEF Older
  <2>2. item_age' \in [Bins -> 0..ScanOpTimeout]
    BY <1>0, <1>16, <2>1, TimeoutNat DEF Tick, GrammarOK
  <2>3. GrammarOK'
    BY <1>0, <1>16, <2>2 DEF Tick, GrammarOK
  <2>4. AgeOK'
    BY <1>0, <1>16, <2>1, IdleNat DEF Tick, AgeOK
  <2> QED
    BY <1>16, <2>3, <2>4, <1>b, <1>s, <1>t DEF Tick
<1>17. ASSUME Ticker PROVE TypeOK'
  <2>1. Expired \in SUBSET OpenBinSessions
    BY DEF Expired, OpenBinSessions
  <2>2. work_session_id \in Sessions
    BY <1>17, <1>o DEF Ticker
  <2>3. CloseBinSessions(Expired) /\ unassigned_items' = unassigned_items
    BY <1>17 DEF Ticker
  <2>4. buffered_operations' \in SUBSET Rows /\ GrammarOK'
    BY <2>1, <2>2, <2>3, CloseBinSessionsType
  <2>5. /\ work_sessions' \in [Sessions -> Status]
        /\ work_session_status' \in {"", "open", "frozen"}
    BY <1>0, <1>17 DEF Ticker, TablesOK, SessionOK, Status
  <2>6. TablesOK'
    BY <1>0, <1>17, <2>4, <2>5 DEF Ticker, TablesOK
  <2>7. SessionOK' /\ AgeOK'
    BY <1>0, <1>17, <2>5 DEF Ticker, SessionOK, AgeOK
  <2> QED
    BY <2>4, <2>6, <2>7, <1>t
<1>18. ASSUME Restart PROVE TypeOK'
  BY <1>18, <1>b, <1>t, ReattachType, <1>0 DEF Restart
<1>19. ASSUME CrashInClose PROVE TypeOK'
  <2>1. work_session_id \in Sessions
    BY <1>19, <1>n DEF CrashInClose
  <2>2. PICK n \in Batches, b \in OpenBinSessions :
           \E done \in SUBSET (OpenBinSessions \ {b}), part \in SUBSET ClosedRows(n, b) :
              buffered_operations' = buffered_operations \cup part
                                       \cup UNION {ClosedRows(n, c) : c \in done}
    BY <1>19 DEF CrashInClose
  <2>3. PICK done \in SUBSET (OpenBinSessions \ {b}), part \in SUBSET ClosedRows(n, b) :
              buffered_operations' = buffered_operations \cup part
                                       \cup UNION {ClosedRows(n, c) : c \in done}
    BY <2>2
  <2>4. ClosedRows(n, b) \subseteq Rows
    BY <1>0, <2>1, ClosedRowsType
  <2>5. UNION {ClosedRows(n, c) : c \in done} \subseteq Rows
    BY <1>0, <2>1, ClosedRowsUnionType
  <2>6. buffered_operations' \in SUBSET Rows
    BY <1>0, <2>3, <2>4, <2>5 DEF TablesOK
  <2>7. Reattach /\ UNCHANGED <<work_sessions, bin_stock, audit_log, bins, items>>
    BY <1>19 DEF CrashInClose
  <2> QED
    BY <1>0, <2>6, <2>7, <1>r, <1>t, ReattachType
<1>20. ASSUME NEW op \in {"add", "remove"}, NEW b \in Bins, NEW i \in Items,
              NEW q \in Quantities, CrashInManual(op, b, i, q)
       PROVE  TypeOK'
  <2>1. work_session_id \in Sessions
    BY <1>20, <1>o DEF CrashInManual
  <2>2. PICK n \in Batches : \E part \in SUBSET Insertable(RowsOf(n, op, b, Expand(i, q))) :
           buffered_operations' = buffered_operations \cup part
    BY <1>20 DEF CrashInManual
  <2>3. Insertable(RowsOf(n, op, b, Expand(i, q))) \subseteq Rows
    BY <2>1, ManualRowsType
  <2>4. buffered_operations' \in SUBSET Rows
    BY <1>0, <2>2, <2>3 DEF TablesOK
  <2>5. Reattach /\ UNCHANGED <<work_sessions, bin_stock, audit_log, bins, items>>
    BY <1>20 DEF CrashInManual
  <2> QED
    BY <1>0, <2>4, <2>5, <1>r, <1>t, ReattachType
<1>21. CASE UNCHANGED vars
  <2>1. AgeOK'
    BY <1>0, <1>21 DEF vars, AgeOK
  <2> QED
    BY <1>21, <2>1, <1>b, <1>s, <1>g, <1>t DEF vars
<1> QED
  BY <1>1, <1>2, <1>3, <1>4, <1>5, <1>6, <1>7, <1>8, <1>9, <1>10, <1>11, <1>12,
     <1>13, <1>14, <1>15, <1>16, <1>17, <1>18, <1>19, <1>20, <1>21 DEF Next

-----------------------------------------------------------------------------
(* No call buffers infinitely many rows.                                    *)
LEMMA FiniteStep == TypeOK /\ FiniteTables /\ FocusHasSession /\ [Next]_vars => FiniteTables'
<1> SUFFICES ASSUME TypeOK, FiniteTables, FocusHasSession, [Next]_vars
             PROVE  FiniteTables'
  OBVIOUS
<1>0. IsFiniteSet(buffered_operations) /\ IsFiniteSet(audit_log)
  BY DEF FiniteTables
<1>1. ASSUME NEW X, IsFiniteSet(X), buffered_operations' \subseteq buffered_operations \cup X,
             audit_log' = audit_log
      PROVE  FiniteTables'
  <2>1. IsFiniteSet(buffered_operations \cup X)
    BY <1>0, <1>1, FS_Union
  <2> QED
    BY <1>0, <1>1, <2>1, FS_Subset DEF FiniteTables
<1>2. audit_log' = audit_log /\ buffered_operations' \subseteq buffered_operations
      => FiniteTables'
  BY <1>1, FS_EmptySet
<1>3. ASSUME NEW S \in SUBSET Bins, CloseBinSessions(S), audit_log' = audit_log
      PROVE  FiniteTables'
  BY <1>1, <1>3, ClosedRowsUnionFinite DEF CloseBinSessions
<1>4. ASSUME NEW op, NEW b, NEW l, NEW n, audit_log' = audit_log,
             buffered_operations' \subseteq
                buffered_operations \cup Insertable(RowsOf(n, op, b, l))
      PROVE  FiniteTables'
  BY <1>1, <1>4, RowsOfFinite DEF Insertable
<1>5. ASSUME NEW b \in Bins, ToggleClose(b) PROVE FiniteTables'
  BY <1>3, <1>5 DEF ToggleClose
<1>6. ASSUME Ticker PROVE FiniteTables'
  BY <1>3, <1>6 DEF Ticker, Expired
<1>7. ASSUME NEW op, NEW b, NEW i, NEW q, ManualOperation(op, b, i, q)
      PROVE  FiniteTables'
  BY <1>4, <1>7 DEF ManualOperation
<1>8. ASSUME NEW op, NEW b, NEW i, NEW q, CrashInManual(op, b, i, q)
      PROVE  FiniteTables'
  <2>1. PICK n \in Batches : \E part \in SUBSET Insertable(RowsOf(n, op, b, Expand(i, q))) :
           buffered_operations' = buffered_operations \cup part
    BY <1>8 DEF CrashInManual
  <2>2. buffered_operations' \subseteq
           buffered_operations \cup Insertable(RowsOf(n, op, b, Expand(i, q)))
    BY <2>1
  <2> QED
    BY <1>4, <1>8, <2>2 DEF CrashInManual
<1>9. ASSUME CrashInClose PROVE FiniteTables'
  <2>1. PICK n \in Batches, b \in OpenBinSessions :
           \E done \in SUBSET (OpenBinSessions \ {b}), part \in SUBSET ClosedRows(n, b) :
              buffered_operations' = buffered_operations \cup part
                                       \cup UNION {ClosedRows(n, c) : c \in done}
    BY <1>9 DEF CrashInClose
  <2>2. buffered_operations' \subseteq
           buffered_operations \cup UNION {ClosedRows(n, c) : c \in OpenBinSessions}
    BY <2>1
  <2>3. OpenBinSessions \in SUBSET Bins
    BY DEF OpenBinSessions
  <2> QED
    BY <1>1, <1>9, <2>2, <2>3, ClosedRowsUnionFinite DEF CrashInClose
<1>10. ASSUME NEW r, NEW q, UpdateOperationQuantity(r, q) PROVE FiniteTables'
  <2>1. buffered_operations' \subseteq buffered_operations \cup {[r EXCEPT !.qty = q]}
    BY <1>10 DEF UpdateOperationQuantity
  <2> QED
    BY <1>1, <1>10, <2>1, FS_Singleton DEF UpdateOperationQuantity
<1>11. ASSUME CommitSession PROVE FiniteTables'
  <2>1. work_session_id \in Sessions
    BY <1>11 DEF CommitSession, TypeOK
  <2>2. PICK n \in Batches :
           /\ buffered_operations' = buffered_operations \cup FoldedRows(n)
           /\ audit_log' = audit_log \cup AuditOf(SessionRows(n))
    BY <1>11 DEF CommitSession, ApplyRows
  <2>3. IsFiniteSet(FoldedRows(n)) /\ IsFiniteSet(SessionRows(n))
    BY <2>1, SessionRowsType
  <2>4. IsFiniteSet(AuditOf(SessionRows(n)))
    BY <2>3, AuditOfFinite
  <2> QED
    BY <1>0, <2>2, <2>3, <2>4, FS_Union DEF FiniteTables
<1>12. ASSUME NEW r, DeleteOperation(r) PROVE FiniteTables'
  BY <1>2, <1>12 DEF DeleteOperation
<1>13. ASSUME RollbackSession PROVE FiniteTables'
  BY <1>2, <1>13 DEF RollbackSession
<1>14. UNCHANGED <<buffered_operations, audit_log>> => FiniteTables'
  BY <1>2
<1>15. ASSUME NEW b, ScanUnknownBin(b) \/ OpenBinSession(b) \/ RefocusBin(b)
                       \/ CreateBin(b)
       PROVE  FiniteTables'
  BY <1>14, <1>15 DEF ScanUnknownBin, OpenBinSession, RefocusBin, CreateBin, tables
<1>16. ASSUME NEW i, StageItem(i) \/ AccumulateItem(i) \/ RefuseRemoval(i)
       PROVE  FiniteTables'
  BY <1>14, <1>16 DEF StageItem, AccumulateItem, RefuseRemoval, ScanItem
<1>17. OpenSession \/ RestoreSession \/ Tick \/ Restart \/ UNCHANGED vars => FiniteTables'
  BY <1>14 DEF OpenSession, RestoreSession, Tick, Restart, tables, vars
<1> QED
  BY <1>5, <1>6, <1>7, <1>8, <1>9, <1>10, <1>11, <1>12, <1>13, <1>15, <1>16, <1>17
     DEF Next

-----------------------------------------------------------------------------
(* Closing, losing or moving bin-sessions never leaves the focus behind.    *)
LEMMA FocusStep == TypeOK /\ FocusHasSession /\ [Next]_vars => FocusHasSession'
<1> SUFFICES ASSUME TypeOK, FocusHasSession, [Next]_vars PROVE FocusHasSession'
  OBVIOUS
<1> USE DEF FocusHasSession, OpenBinSessions
<1>1. ASSUME NEW S, DropSessions(S) PROVE FocusHasSession'
  BY <1>1 DEF DropSessions, TypeOK
<1>2. LoseMemory => FocusHasSession'
  BY DEF LoseMemory
<1>3. UNCHANGED <<focused_bin_id, session_op>> => FocusHasSession'
  OBVIOUS
<1>4. ASSUME NEW b, ToggleClose(b) PROVE FocusHasSession'
  BY <1>1, <1>4 DEF ToggleClose, CloseBinSessions
<1>5. Ticker => FocusHasSession'
  BY <1>1 DEF Ticker, CloseBinSessions
<1>6. ASSUME NEW b \in Bins, OpenBinSession(b) PROVE FocusHasSession'
  BY <1>6 DEF OpenBinSession, TypeOK
<1>7. ASSUME NEW b \in Bins, RefocusBin(b) PROVE FocusHasSession'
  BY <1>7 DEF RefocusBin
<1>8. CommitSession \/ RollbackSession \/ Restart \/ CrashInClose => FocusHasSession'
  BY <1>2 DEF CommitSession, RollbackSession, Restart, CrashInClose, Reattach
<1>9. ASSUME NEW op, NEW b, NEW i, NEW q, CrashInManual(op, b, i, q)
      PROVE  FocusHasSession'
  BY <1>2, <1>9 DEF CrashInManual, Reattach
<1>10. ASSUME NEW b, ScanUnknownBin(b) \/ CreateBin(b) PROVE FocusHasSession'
  BY <1>3, <1>10 DEF ScanUnknownBin, CreateBin, grammar
<1>11. ASSUME NEW i, StageItem(i) \/ AccumulateItem(i) \/ RefuseRemoval(i)
       PROVE  FocusHasSession'
  BY <1>3, <1>11 DEF StageItem, AccumulateItem, RefuseRemoval, ScanItem
<1>12. ASSUME NEW op, NEW b, NEW i, NEW q, ManualOperation(op, b, i, q)
       PROVE  FocusHasSession'
  BY <1>3, <1>12 DEF ManualOperation, grammar
<1>13. ASSUME NEW r, DeleteOperation(r) PROVE FocusHasSession'
  BY <1>3, <1>13 DEF DeleteOperation, grammar
<1>14. ASSUME NEW r, NEW q, UpdateOperationQuantity(r, q) PROVE FocusHasSession'
  BY <1>3, <1>14 DEF UpdateOperationQuantity, grammar
<1>15. OpenSession \/ RestoreSession \/ Tick \/ UNCHANGED vars => FocusHasSession'
  BY <1>3 DEF OpenSession, RestoreSession, Tick, grammar, vars
<1> QED
  BY <1>4, <1>5, <1>6, <1>7, <1>8, <1>9, <1>10, <1>11, <1>12, <1>13, <1>14, <1>15
     DEF Next

(* The invariant the type proof needs.                                      *)
TypeInv == TypeOK /\ FiniteTables /\ FocusHasSession

LEMMA TypeInvariant == Spec => []TypeInv
<1>1. Init => FiniteTables
  BY FS_EmptySet DEF Init, FiniteTables
<1>2. Init => FocusHasSession
  BY DEF Init, FocusHasSession
<1>3. Init => TypeInv
  BY <1>1, <1>2, TypeInit DEF TypeInv
<1>4. TypeInv /\ [Next]_vars => TypeInv'
  BY TypeStep, FiniteStep, FocusStep DEF TypeInv
<1> QED
  BY <1>3, <1>4, PTL DEF Spec

(***************************************************************************)
(* Type correctness of the engine: whatever the order of calls, ticks and  *)
(* restarts, every column and member holds a value of its type; rows of    *)
(* buffered_operations and audit_log, in particular, have a positive       *)
(* quantity.                                                               *)
(***************************************************************************)
THEOREM TypeCorrect == Spec => []TypeOK
<1>1. TypeInv => TypeOK
  BY DEF TypeInv
<1> QED
  BY <1>1, TypeInvariant, PTL

(***************************************************************************)
(* A focused bin always has a bin-session, so that handle_item_scan never  *)
(* drops a scan for want of one.                                           *)
(***************************************************************************)
THEOREM FocusCorrect == Spec => []FocusHasSession
<1>1. TypeInv => FocusHasSession
  BY DEF TypeInv
<1> QED
  BY <1>1, TypeInvariant, PTL

-----------------------------------------------------------------------------
(* Memory and the table move together: each call that changes one of        *)
(* work_session_id, work_session_status and work_sessions changes the rest.  *)
LEMMA MirrorStep == TypeOK /\ SessionMirrorsTable /\ [Next]_vars => SessionMirrorsTable'
<1> SUFFICES ASSUME TypeOK, SessionMirrorsTable, [Next]_vars
             PROVE  SessionMirrorsTable'
  OBVIOUS
<1>0. /\ work_sessions \in [Sessions -> Status]
      /\ work_session_id \in Sessions \cup {0}
      /\ work_session_status \in {"", "open", "frozen"}
  BY DEF TypeOK
<1>z. 0 \notin Sessions
  BY DEF Sessions
<1>1. UNCHANGED <<work_sessions, work_session_id, work_session_status>>
      => SessionMirrorsTable'
  BY DEF SessionMirrorsTable, Active
<1>2. ASSUME NEW st \in {"committed", "rolled_back"}, work_session_id # 0,
             work_sessions' = [work_sessions EXCEPT ![work_session_id] = st],
             work_session_id' = 0, work_session_status' = ""
      PROVE  SessionMirrorsTable'
  BY <1>0, <1>2 DEF SessionMirrorsTable, Active
<1>3. ASSUME NEW st \in {"open", "frozen"}, work_session_id # 0,
             work_sessions' = [work_sessions EXCEPT ![work_session_id] = st],
             work_session_id' = work_session_id, work_session_status' = st
      PROVE  SessionMirrorsTable'
  BY <1>0, <1>3 DEF SessionMirrorsTable, Active
<1>4. ASSUME Reattach, UNCHANGED work_sessions PROVE SessionMirrorsTable'
  <2>1. CASE Active = {} /\ work_session_id' = 0 /\ work_session_status' = ""
    BY <1>4, <2>1 DEF SessionMirrorsTable, Active
  <2>2. ASSUME NEW s \in Active, work_session_id' = s,
               work_session_status' = work_sessions[s]
        PROVE  SessionMirrorsTable'
    <3>1. s \in Sessions /\ s # 0
      BY <1>z DEF Active
    <3>2. Active = {s}
      BY DEF SessionMirrorsTable
    <3> QED
      BY <1>4, <2>2, <3>1, <3>2 DEF SessionMirrorsTable, Active
  <2> QED
    BY <1>4, <2>1, <2>2 DEF Reattach
<1>5. ASSUME OpenSession PROVE SessionMirrorsTable'
  <2>1. PICK s \in Sessions :
           /\ \A t \in Sessions : work_sessions[t] \notin {"open", "frozen"}
           /\ work_sessions' = [work_sessions EXCEPT ![s] = "open"]
           /\ work_session_id' = s
    BY <1>5 DEF OpenSession
  <2>2. work_session_status' = "open"
    BY <1>5 DEF OpenSession
  <2>3. Active' = {s}
    BY <1>0, <2>1 DEF Active
  <2> QED
    BY <1>0, <1>z, <2>1, <2>2, <2>3 DEF SessionMirrorsTable
<1>6. ASSUME Ticker PROVE SessionMirrorsTable'
  BY <1>1, <1>3, <1>6 DEF Ticker, IsOpen
<1>7. RestoreSession => SessionMirrorsTable'
  BY <1>3 DEF RestoreSession
<1>8. CommitSession \/ RollbackSession => SessionMirrorsTable'
  BY <1>2 DEF CommitSession, RollbackSession
<1>9. Restart \/ CrashInClose => SessionMirrorsTable'
  BY <1>4 DEF Restart, CrashInClose, tables
<1>10. ASSUME NEW op, NEW b, NEW i, NEW q, CrashInManual(op, b, i, q)
       PROVE  SessionMirrorsTable'
  BY <1>4, <1>10 DEF CrashInManual
<1>11. ASSUME NEW b, \/ ScanUnknownBin(b) \/ ToggleClose(b) \/ OpenBinSession(b)
                     \/ RefocusBin(b) \/ CreateBin(b)
       PROVE  SessionMirrorsTable'
  BY <1>1, <1>11 DEF ScanUnknownBin, ToggleClose, OpenBinSession, RefocusBin,
                     CreateBin, session, tables
<1>12. ASSUME NEW i, StageItem(i) \/ AccumulateItem(i) \/ RefuseRemoval(i)
       PROVE  SessionMirrorsTable'
  BY <1>1, <1>12 DEF StageItem, AccumulateItem, RefuseRemoval, ScanItem, session
<1>13. ASSUME NEW op, NEW b, NEW i, NEW q, ManualOperation(op, b, i, q)
       PROVE  SessionMirrorsTable'
  BY <1>1, <1>13 DEF ManualOperation, session
<1>14. ASSUME NEW r, NEW q, DeleteOperation(r) \/ UpdateOperationQuantity(r, q)
       PROVE  SessionMirrorsTable'
  BY <1>1, <1>14 DEF DeleteOperation, UpdateOperationQuantity, session
<1>15. Tick \/ UNCHANGED vars => SessionMirrorsTable'
  BY <1>1 DEF Tick, vars, session, tables
<1> QED
  BY <1>5, <1>6, <1>7, <1>8, <1>9, <1>10, <1>11, <1>12, <1>13, <1>14, <1>15 DEF Next

(***************************************************************************)
(* What the engine remembers of the work session is what the table says,   *)
(* after any number of restarts: the table never holds two open or frozen  *)
(* sessions, and restore, commit, rollback and the ticker never update a   *)
(* row that is in another state than they think.                           *)
(***************************************************************************)
THEOREM SessionCorrect == Spec => []SessionMirrorsTable
<1>1. Init => SessionMirrorsTable
  BY DEF Init, SessionMirrorsTable, Active
<1>2. TypeInv => TypeOK
  BY DEF TypeInv
<1> QED
  BY <1>1, <1>2, MirrorStep, TypeInvariant, PTL DEF Spec

-----------------------------------------------------------------------------
(* Every way a work session ends also empties the engine's memory.          *)
LEMMA InFlightStep ==
    TypeOK /\ FocusHasSession /\ NothingLeftInFlight /\ [Next]_vars
        => NothingLeftInFlight'
<1> SUFFICES ASSUME TypeOK, FocusHasSession, NothingLeftInFlight, [Next]_vars
             PROVE  NothingLeftInFlight'
  OBVIOUS
<1> USE DEF NothingLeftInFlight, OpenBinSessions
<1>0. /\ session_op \in [Bins -> {"none", "add", "remove"}]
      /\ session_items \in [Bins -> [Entries -> Nat]]
  BY DEF TypeOK
<1>z. ASSUME IsOpen, UNCHANGED session PROVE work_session_id' # 0
  BY <1>z DEF IsOpen, session
<1>1. LoseMemory => NothingLeftInFlight'
  BY DEF LoseMemory
<1>2. ASSUME NEW S, DropSessions(S), work_session_id' # 0 PROVE NothingLeftInFlight'
  BY <1>0, <1>2 DEF DropSessions
<1>3. UNCHANGED <<work_session_id, session_op, session_items, unassigned_items>>
      => NothingLeftInFlight'
  OBVIOUS
<1>4. ASSUME NEW b \in Bins, ToggleClose(b) PROVE NothingLeftInFlight'
  BY <1>2, <1>4, <1>z DEF ToggleClose, CloseBinSessions, ScanAccepted
<1>5. ASSUME Ticker PROVE NothingLeftInFlight'
  BY <1>2, <1>5 DEF Ticker, CloseBinSessions, IsOpen
<1>6. ASSUME NEW b \in Bins, OpenBinSession(b) PROVE NothingLeftInFlight'
  BY <1>0, <1>6, <1>z DEF OpenBinSession, ScanAccepted
<1>7. ASSUME NEW i \in Items, StageItem(i) PROVE NothingLeftInFlight'
  BY <1>7, <1>z DEF StageItem, ScanItem, ScanAccepted
<1>8. ASSUME NEW i \in Items, AccumulateItem(i) PROVE NothingLeftInFlight'
  <2>1. focused_bin_id \in OpenBinSessions
    BY <1>8 DEF AccumulateItem, FocusHasSession
  <2>2. \A b \in Bins : b # focused_bin_id => session_items'[b] = session_items[b]
    BY <1>0, <1>8 DEF AccumulateItem
  <2> QED
    BY <1>8, <1>z, <2>1, <2>2 DEF AccumulateItem, ScanItem, ScanAccepted
<1>9. ASSUME OpenSession PROVE NothingLeftInFlight'
  <2>1. work_session_id' # 0
    BY <1>9 DEF OpenSession, Sessions
  <2> QED
    BY <1>9, <2>1 DEF OpenSession, grammar
<1>10. CommitSession \/ RollbackSession \/ Restart \/ CrashInClose
       => NothingLeftInFlight'
  BY <1>1 DEF CommitSession, RollbackSession, Restart, CrashInClose, Reattach
<1>11. ASSUME NEW op, NEW b, NEW i, NEW q, CrashInManual(op, b, i, q)
       PROVE  NothingLeftInFlight'
  BY <1>1, <1>11 DEF CrashInManual, Reattach
<1>12. ASSUME NEW b, ScanUnknownBin(b) \/ RefocusBin(b) \/ CreateBin(b)
       PROVE  NothingLeftInFlight'
  BY <1>3, <1>12 DEF ScanUnknownBin, RefocusBin, CreateBin, grammar, session
<1>13. ASSUME NEW i, RefuseRemoval(i) PROVE NothingLeftInFlight'
  BY <1>3, <1>13 DEF RefuseRemoval, ScanItem, session
<1>14. ASSUME NEW op, NEW b, NEW i, NEW q, ManualOperation(op, b, i, q)
       PROVE  NothingLeftInFlight'
  BY <1>3, <1>14 DEF ManualOperation, grammar, session
<1>15. ASSUME NEW r, NEW q, DeleteOperation(r) \/ UpdateOperationQuantity(r, q)
       PROVE  NothingLeftInFlight'
  BY <1>3, <1>15 DEF DeleteOperation, UpdateOperationQuantity, grammar, session
<1>16. RestoreSession \/ Tick \/ UNCHANGED vars => NothingLeftInFlight'
  BY <1>3 DEF RestoreSession, Tick, grammar, session, vars
<1> QED
  BY <1>4, <1>5, <1>6, <1>7, <1>8, <1>9, <1>10, <1>11, <1>12, <1>13, <1>14, <1>15,
     <1>16 DEF Next

(***************************************************************************)
(* No scan of one work session is applied by another: when none is open,   *)
(* no bin-session, focus or staged item is left in memory, and a bin that  *)
(* has no bin-session holds no items for its next one.                     *)
(***************************************************************************)
THEOREM InFlightCorrect == Spec => []NothingLeftInFlight
<1>1. Init => NothingLeftInFlight
  BY DEF Init, NothingLeftInFlight, OpenBinSessions
<1>2. TypeInv => TypeOK /\ FocusHasSession
  BY DEF TypeInv
<1> QED
  BY <1>1, <1>2, InFlightStep, TypeInvariant, PTL DEF Spec

-----------------------------------------------------------------------------
(* Proofs about what a commit leaves behind: the audit log is the buffered  *)
(* rows of the committed sessions, and accounts for all of the stock.       *)
(*                                                                          *)
(* The argument rests on two facts.  A call edits only rows of the work     *)
(* session in memory (OwnEdit), which is not a committed one; and a batch   *)
(* number is never used by two sessions (BatchOfOneSession), so that a      *)
(* commit cannot write an audit row that is already there.                  *)

BatchOfOneSession ==
    \A r, t \in buffered_operations : r.batch = t.batch => r.ws = t.ws

OwnEdit ==
    /\ \A r \in buffered_operations :
          r.ws # work_session_id => r \in buffered_operations'
    /\ \A r \in buffered_operations' \ buffered_operations :
          /\ r.ws = work_session_id
          /\ \A t \in buffered_operations :
                t.batch = r.batch => t.ws = work_session_id

SameCommitted ==
    \A s \in Sessions :
        work_sessions'[s] = "committed" <=> work_sessions[s] = "committed"

-----------------------------------------------------------------------------
(* Rows of a batch that is the next one.                                    *)
LEMMA FreshRows ==
    ASSUME TypeOK, NEW n \in Batches, IsNextBatch(n), NEW X,
           \A r \in X : r.ws = work_session_id /\ r.batch = n,
           buffered_operations' = buffered_operations \cup X
    PROVE  OwnEdit
<1>1. ASSUME NEW r \in X, NEW t \in buffered_operations
      PROVE  t.batch # r.batch
  <2>1. t.batch \in Int /\ n \in Int
    BY BatchInt DEF TypeOK, Rows
  <2>2. t.batch < n
    BY DEF IsNextBatch
  <2>3. ASSUME NEW x \in Int, NEW y \in Int, x < y PROVE x # y
    BY <2>3
  <2>4. r.batch = n
    OBVIOUS
  <2> QED
    BY <2>1, <2>2, <2>3, <2>4
<1>2. ASSUME NEW r \in buffered_operations' \ buffered_operations
      PROVE  /\ r.ws = work_session_id
             /\ \A t \in buffered_operations :
                   t.batch = r.batch => t.ws = work_session_id
  BY <1>1
<1>3. \A r \in buffered_operations : r \in buffered_operations'
  OBVIOUS
<1> QED
  BY <1>2, <1>3 DEF OwnEdit

LEMMA ClosedRowsOwn ==
    ASSUME NEW n, NEW b, NEW r \in ClosedRows(n, b)
    PROVE  r.ws = work_session_id /\ r.batch = n
BY DEF ClosedRows, Insertable, RowsOf

LEMMA ManualRowsOwn ==
    ASSUME NEW n, NEW op, NEW b, NEW l, NEW r \in Insertable(RowsOf(n, op, b, l))
    PROVE  r.ws = work_session_id /\ r.batch = n
BY DEF Insertable, RowsOf

(* The work session in memory is not a committed one.                       *)
LEMMA SessionNotCommitted ==
    ASSUME TypeOK, SessionMirrorsTable, work_session_id # 0
    PROVE  /\ work_session_id \in Sessions
           /\ work_sessions[work_session_id] \in {"open", "frozen"}
BY DEF TypeOK, SessionMirrorsTable, Active

-----------------------------------------------------------------------------
(* No call but commit touches the stock, the audit log, the rows of another *)
(* work session or what is committed.                                       *)
LEMMA OwnEditStep ==
    ASSUME TypeOK, SessionMirrorsTable, BatchOfOneSession, [Next]_vars, ~CommitSession
    PROVE  UNCHANGED <<bin_stock, audit_log>> /\ OwnEdit /\ SameCommitted
<1> DEFINE Goal == UNCHANGED <<bin_stock, audit_log>> /\ OwnEdit /\ SameCommitted
           LedgerKept == UNCHANGED <<work_sessions, bin_stock, audit_log>>
<1>0. LedgerKept /\ OwnEdit => Goal
  BY DEF SameCommitted
<1>1. LedgerKept /\ UNCHANGED buffered_operations => Goal
  BY <1>0 DEF OwnEdit
<1>2. ASSUME NEW n \in Batches, IsNextBatch(n), NEW X,
             \A r \in X : r.ws = work_session_id /\ r.batch = n,
             buffered_operations' = buffered_operations \cup X
      PROVE  OwnEdit
  BY <1>2, FreshRows
<1>3. ASSUME NEW S, CloseBinSessions(S) PROVE OwnEdit
  <2>1. PICK n \in Batches :
           /\ IsNextBatch(n)
           /\ buffered_operations' =
                 buffered_operations \cup UNION {ClosedRows(n, b) : b \in S}
    BY <1>3 DEF CloseBinSessions
  <2>2. \A r \in UNION {ClosedRows(n, b) : b \in S} :
           r.ws = work_session_id /\ r.batch = n
    BY ClosedRowsOwn
  <2> QED
    BY <2>1, <2>2, <1>2
<1>4. ASSUME NEW st, st # "committed", work_session_id # 0,
             work_sessions' = [work_sessions EXCEPT ![work_session_id] = st]
      PROVE  SameCommitted
  BY <1>4, SessionNotCommitted DEF SameCommitted, TypeOK
<1>5. ASSUME NEW b, \/ ScanUnknownBin(b) \/ OpenBinSession(b) \/ RefocusBin(b)
                    \/ CreateBin(b)
      PROVE  Goal
  BY <1>1, <1>5 DEF ScanUnknownBin, OpenBinSession, RefocusBin, CreateBin, tables
<1>6. ASSUME NEW b, ToggleClose(b) PROVE Goal
  BY <1>0, <1>3, <1>6 DEF ToggleClose
<1>7. ASSUME NEW i, StageItem(i) \/ AccumulateItem(i) \/ RefuseRemoval(i) PROVE Goal
  BY <1>1, <1>7 DEF StageItem, AccumulateItem, RefuseRemoval, ScanItem
<1>8. ASSUME OpenSession PROVE Goal
  <2>1. OwnEdit
    BY <1>8 DEF OpenSession, OwnEdit
  <2>2. SameCommitted
    BY <1>8 DEF OpenSession, SameCommitted, TypeOK
  <2> QED
    BY <1>8, <2>1, <2>2 DEF OpenSession
<1>9. ASSUME RestoreSession PROVE Goal
  <2>1. OwnEdit
    BY <1>9 DEF RestoreSession, OwnEdit
  <2>2. SameCommitted
    BY <1>4, <1>9 DEF RestoreSession
  <2> QED
    BY <1>9, <2>1, <2>2 DEF RestoreSession
<1>10. ASSUME RollbackSession PROVE Goal
  <2>1. OwnEdit
    BY <1>10 DEF RollbackSession, BufferedOf, OwnEdit
  <2>2. SameCommitted
    BY <1>4, <1>10 DEF RollbackSession
  <2> QED
    BY <1>10, <2>1, <2>2 DEF RollbackSession
<1>11. ASSUME NEW op, NEW b, NEW i, NEW q, ManualOperation(op, b, i, q) PROVE Goal
  <2>1. PICK n \in Batches :
           /\ IsNextBatch(n)
           /\ buffered_operations' = buffered_operations
                 \cup Insertable(RowsOf(n, op, b, Expand(i, q)))
    BY <1>11 DEF ManualOperation
  <2>2. OwnEdit
    BY <2>1, <1>2, ManualRowsOwn
  <2> QED
    BY <1>0, <1>11, <2>2 DEF ManualOperation
<1>12. ASSUME NEW r, DeleteOperation(r) PROVE Goal
  <2>1. OwnEdit
    BY <1>12 DEF DeleteOperation, BufferedOf, OwnEdit
  <2> QED
    BY <1>0, <1>12, <2>1 DEF DeleteOperation
<1>13. ASSUME NEW r \in buffered_operations, NEW q, UpdateOperationQuantity(r, q)
       PROVE  Goal
  <2>1. r \in Rows /\ r.ws = work_session_id
    BY <1>13 DEF UpdateOperationQuantity, BufferedOf, TypeOK
  <2>2. [r EXCEPT !.qty = q].ws = r.ws /\ [r EXCEPT !.qty = q].batch = r.batch
    BY <2>1 DEF Rows
  <2>3. OwnEdit
    BY <1>13, <2>1, <2>2 DEF UpdateOperationQuantity, OwnEdit, BatchOfOneSession
  <2> QED
    BY <1>0, <1>13, <2>3 DEF UpdateOperationQuantity
<1>14. ASSUME Ticker PROVE Goal
  <2>1. OwnEdit
    BY <1>3, <1>14 DEF Ticker
  <2>2. SameCommitted
    <3>1. CASE Idle
      BY <3>1, <1>4, <1>14 DEF Ticker, IsOpen
    <3>2. CASE ~Idle
      BY <3>2, <1>14 DEF Ticker, SameCommitted
    <3> QED
      BY <3>1, <3>2
  <2> QED
    BY <1>14, <2>1, <2>2 DEF Ticker
<1>15. ASSUME CrashInClose PROVE Goal
  <2>1. PICK n \in Batches, b \in OpenBinSessions :
           \E done \in SUBSET (OpenBinSessions \ {b}), part \in SUBSET ClosedRows(n, b) :
              /\ IsNextBatch(n)
              /\ buffered_operations' = buffered_operations \cup part
                                          \cup UNION {ClosedRows(n, c) : c \in done}
    BY <1>15 DEF CrashInClose
  <2>2. PICK done \in SUBSET (OpenBinSessions \ {b}), part \in SUBSET ClosedRows(n, b) :
              /\ IsNextBatch(n)
              /\ buffered_operations' = buffered_operations
                    \cup (part \cup UNION {ClosedRows(n, c) : c \in done})
    BY <2>1
  <2>3. \A r \in part \cup UNION {ClosedRows(n, c) : c \in done} :
           r.ws = work_session_id /\ r.batch = n
    BY ClosedRowsOwn
  <2>4. OwnEdit
    BY <2>2, <2>3, <1>2
  <2> QED
    BY <1>0, <1>15, <2>4 DEF CrashInClose
<1>16. ASSUME NEW op, NEW b, NEW i, NEW q, CrashInManual(op, b, i, q) PROVE Goal
  <2>1. PICK n \in Batches :
           \E part \in SUBSET Insertable(RowsOf(n, op, b, Expand(i, q))) :
              /\ IsNextBatch(n)
              /\ buffered_operations' = buffered_operations \cup part
    BY <1>16 DEF CrashInManual
  <2>2. OwnEdit
    BY <2>1, <1>2, ManualRowsOwn
  <2> QED
    BY <1>0, <1>16, <2>2 DEF CrashInManual
<1>17. Tick \/ Restart \/ UNCHANGED vars => Goal
  BY <1>1 DEF Tick, Restart, tables, vars
<1> QED
  BY <1>5, <1>6, <1>7, <1>8, <1>9, <1>10, <1>11, <1>12, <1>13, <1>14, <1>15, <1>16,
     <1>17 DEF Next

-----------------------------------------------------------------------------
(* The rows a commit folds in are rows of its session, of a fresh batch.    *)
LEMMA FoldedRowsOwn ==
    ASSUME NEW n, NEW r \in FoldedRows(n)
    PROVE  r.ws = work_session_id /\ r.batch = n
BY ClosedRowsOwn DEF FoldedRows

LEMMA SessionRowsOwn ==
    ASSUME NEW n, NEW r \in SessionRows(n)
    PROVE  r.ws = work_session_id
BY FoldedRowsOwn DEF SessionRows, BufferedOf

LEMMA CommitOwnEdit ==
    ASSUME TypeOK, CommitSession
    PROVE  OwnEdit
<1>1. PICK n \in Batches :
         /\ IsNextBatch(n)
         /\ buffered_operations' = buffered_operations \cup FoldedRows(n)
  BY DEF CommitSession
<1> QED
  BY <1>1, FoldedRowsOwn, FreshRows

LEMMA BatchStep ==
    TypeOK /\ SessionMirrorsTable /\ BatchOfOneSession /\ [Next]_vars
        => BatchOfOneSession'
<1> SUFFICES ASSUME TypeOK, SessionMirrorsTable, BatchOfOneSession, [Next]_vars
             PROVE  BatchOfOneSession'
  OBVIOUS
<1>1. OwnEdit
  BY CommitOwnEdit, OwnEditStep
<1> QED
  BY <1>1 DEF OwnEdit, BatchOfOneSession

-----------------------------------------------------------------------------
LEMMA AuditStep ==
    TypeOK /\ TypeOK' /\ SessionMirrorsTable /\ BatchOfOneSession
           /\ AuditIsCommittedBuffer /\ [Next]_vars
        => AuditIsCommittedBuffer'
<1> SUFFICES ASSUME TypeOK, TypeOK', SessionMirrorsTable, BatchOfOneSession,
                    AuditIsCommittedBuffer, [Next]_vars
             PROVE  AuditIsCommittedBuffer'
  OBVIOUS
<1>0. \A r \in buffered_operations \cup buffered_operations' : r.ws \in Sessions
  BY DEF TypeOK, Rows
<1>1. CASE ~CommitSession
  <2>1. UNCHANGED audit_log /\ OwnEdit /\ SameCommitted
    BY <1>1, OwnEditStep
  <2>2. ASSUME NEW s \in Sessions, work_sessions[s] = "committed"
        PROVE  s # work_session_id
    BY <2>2, SessionNotCommitted DEF Sessions
  <2>3. Committed' = Committed
    <3>1. ASSUME NEW r \in Committed PROVE r \in Committed'
      BY <1>0, <2>1, <2>2 DEF Committed, OwnEdit, SameCommitted
    <3>2. ASSUME NEW r \in Committed' PROVE r \in Committed
      BY <1>0, <2>1, <2>2 DEF Committed, OwnEdit, SameCommitted
    <3> QED
      BY <3>1, <3>2
  <2> QED
    BY <2>1, <2>3 DEF AuditIsCommittedBuffer, AuditOf
<1>2. CASE CommitSession
  <2>1. work_session_id \in Sessions
    BY <1>2, SessionNotCommitted DEF CommitSession
  <2>2. PICK n \in Batches :
           /\ buffered_operations' = buffered_operations \cup FoldedRows(n)
           /\ audit_log' = audit_log \cup AuditOf(SessionRows(n))
    BY <1>2 DEF CommitSession, ApplyRows
  <2>3. work_sessions' = [work_sessions EXCEPT ![work_session_id] = "committed"]
    BY <1>2 DEF CommitSession
  <2>4. ASSUME NEW r \in buffered_operations'
        PROVE  work_sessions'[r.ws] = "committed" <=>
                  r.ws = work_session_id \/ work_sessions[r.ws] = "committed"
    BY <1>0, <2>1, <2>3 DEF TypeOK
  <2>5. Committed' = Committed \cup SessionRows(n)
    <3>1. ASSUME NEW r \in Committed' PROVE r \in Committed \cup SessionRows(n)
      <4>1. r \in buffered_operations'
        BY DEF Committed
      <4>2. CASE r.ws = work_session_id
        BY <2>2, <4>1, <4>2 DEF SessionRows, BufferedOf
      <4>3. CASE r.ws # work_session_id
        BY <2>2, <2>4, <4>1, <4>3, FoldedRowsOwn DEF Committed
      <4> QED
        BY <4>2, <4>3
    <3>2. ASSUME NEW r \in Committed \cup SessionRows(n) PROVE r \in Committed'
      <4>1. r \in buffered_operations'
        BY <2>2 DEF Committed, SessionRows, BufferedOf
      <4> QED
        BY <2>4, <4>1, SessionRowsOwn DEF Committed
    <3> QED
      BY <3>1, <3>2
  <2>6. AuditOf(Committed \cup SessionRows(n)) =
           AuditOf(Committed) \cup AuditOf(SessionRows(n))
    BY DEF AuditOf
  <2> QED
    BY <2>2, <2>5, <2>6 DEF AuditIsCommittedBuffer, AuditOf
<1> QED
  BY <1>1, <1>2

-----------------------------------------------------------------------------
(* What a commit adds to the log is not there yet, so its quantities add up. *)
LEMMA CommitAuditFresh ==
    ASSUME TypeOK, SessionMirrorsTable, BatchOfOneSession, AuditIsCommittedBuffer,
           work_session_id # 0, NEW n \in Batches, IsNextBatch(n)
    PROVE  audit_log \cap AuditOf(SessionRows(n)) = {}
<1> SUFFICES ASSUME NEW a \in audit_log, a \in AuditOf(SessionRows(n)) PROVE FALSE
  OBVIOUS
<1>1. PICK r \in Committed : a = Audited(r)
  BY DEF AuditIsCommittedBuffer, AuditOf, Audited
<1>2. PICK t \in SessionRows(n) : a = Audited(t)
  BY DEF AuditOf, Audited
<1>3. r.batch = t.batch
  BY <1>1, <1>2 DEF Audited
<1>4. r.ws # work_session_id
  BY <1>1, SessionNotCommitted DEF Committed
<1>5. r \in buffered_operations /\ r.batch # n
  <2>1. r \in buffered_operations
    BY DEF Committed
  <2>2. r.batch \in Int /\ n \in Int
    BY <2>1, BatchInt DEF TypeOK, Rows
  <2>3. r.batch < n
    BY <2>1 DEF IsNextBatch
  <2>4. ASSUME NEW x \in Int, NEW y \in Int, x < y PROVE x # y
    BY <2>4
  <2> QED
    BY <2>1, <2>2, <2>3, <2>4
<1>6. t \in BufferedOf(work_session_id)
  BY <1>3, <1>5, FoldedRowsOwn DEF SessionRows
<1> QED
  BY <1>3, <1>4, <1>5, <1>6 DEF BufferedOf, BatchOfOneSession

LEMMA CommitAuditQty ==
    ASSUME TypeOK, FiniteTables, SessionMirrorsTable, BatchOfOneSession,
           AuditIsCommittedBuffer, work_session_id # 0,
           NEW n \in Batches, IsNextBatch(n), NEW op, NEW b, NEW i
    PROVE  Qty(Select(audit_log \cup AuditOf(SessionRows(n)), op, b, i)) =
              Qty(Select(audit_log, op, b, i)) + Qty(Select(SessionRows(n), op, b, i))
<1> DEFINE old == Select(audit_log, op, b, i)
           sel == Select(SessionRows(n), op, b, i)
<1>1. work_session_id \in Sessions
  BY SessionNotCommitted
<1>2. SessionRows(n) \in SUBSET Rows /\ IsFiniteSet(SessionRows(n))
  BY <1>1, SessionRowsType
<1>3. sel \in SUBSET SessionRows(n)
  BY DEF Select
<1>4. sel \in SUBSET Rows /\ IsFiniteSet(sel)
  BY <1>2, <1>3, FS_Subset
<1>5. Select(AuditOf(SessionRows(n)), op, b, i) = AuditOf(sel)
  BY DEF Select, AuditOf
<1>6. Select(audit_log \cup AuditOf(SessionRows(n)), op, b, i) = old \cup AuditOf(sel)
  BY <1>5 DEF Select
<1>7. old \in SUBSET audit_log /\ AuditOf(sel) \in SUBSET AuditOf(SessionRows(n))
  BY <1>3 DEF Select, AuditOf
<1>8. old \cap AuditOf(sel) = {}
  BY <1>7, CommitAuditFresh
<1>9. IsFiniteSet(old) /\ HaveQty(old)
  BY <1>7, FS_Subset DEF FiniteTables, HaveQty, TypeOK, AuditRows
<1>10. IsFiniteSet(AuditOf(sel)) /\ HaveQty(AuditOf(sel))
  <2>1. AuditOf(sel) \subseteq AuditRows
    BY <1>4, AuditOfType
  <2> QED
    BY <1>4, <2>1, AuditOfFinite DEF HaveQty, AuditRows
<1>11. Qty(old \cup AuditOf(sel)) = Qty(old) + Qty(AuditOf(sel))
  BY <1>8, <1>9, <1>10, QtyDisjointUnion
<1>12. Qty(AuditOf(sel)) = Qty(sel)
  BY <1>3, <1>4, SessionRowsOwn, QtyAudited
<1> QED
  BY <1>6, <1>11, <1>12

LEMMA ReplayStep ==
    TypeInv /\ SessionMirrorsTable /\ BatchOfOneSession /\ AuditIsCommittedBuffer
            /\ StockReplaysAudit /\ [Next]_vars
        => StockReplaysAudit'
<1> SUFFICES ASSUME TypeInv, SessionMirrorsTable, BatchOfOneSession,
                    AuditIsCommittedBuffer, StockReplaysAudit, [Next]_vars
             PROVE  StockReplaysAudit'
  OBVIOUS
<1>0. TypeOK /\ FiniteTables
  BY DEF TypeInv
<1>1. CASE ~CommitSession
  <2>1. UNCHANGED <<bin_stock, audit_log>>
    BY <1>0, <1>1, OwnEditStep
  <2> QED
    BY <2>1 DEF StockReplaysAudit
<1>2. CASE CommitSession
  <2> SUFFICES ASSUME NEW b \in Bins, NEW i \in Items
               PROVE  bin_stock'[<<b, i>>] =
                         Stock0[<<b, i>>] + Qty(Select(audit_log', "add", b, i))
                                      - Qty(Select(audit_log', "remove", b, i))
    BY DEF StockReplaysAudit
  <2>1. work_session_id # 0
    BY <1>2 DEF CommitSession
  <2>2. PICK n \in Batches :
           /\ IsNextBatch(n)
           /\ bin_stock' = [c \in Bins \X Items |->
                 bin_stock[c] + Qty(Select(SessionRows(n), "add", c[1], c[2]))
                              - Qty(Select(SessionRows(n), "remove", c[1], c[2]))]
           /\ audit_log' = audit_log \cup AuditOf(SessionRows(n))
    BY <1>2 DEF CommitSession, ApplyRows
  <2> DEFINE Sold(op) == Qty(Select(audit_log, op, b, i))
             Moved(op) == Qty(Select(SessionRows(n), op, b, i))
  <2>3. \A op : Qty(Select(audit_log', op, b, i)) = Sold(op) + Moved(op)
    BY <1>0, <2>1, <2>2, CommitAuditQty
  <2>4. bin_stock'[<<b, i>>] = bin_stock[<<b, i>>] + Moved("add") - Moved("remove")
    BY <2>2
  <2>5. bin_stock[<<b, i>>] = Stock0[<<b, i>>] + Sold("add") - Sold("remove")
    BY DEF StockReplaysAudit
  <2>6. Stock0[<<b, i>>] \in Int
    BY StockType
  <2>7. work_session_id \in Sessions
    BY <1>0, <2>1, SessionNotCommitted
  <2>8. ASSUME NEW op PROVE Moved(op) \in Nat
    BY <1>0, <2>7, SessionRowsType, SelectQtyType
  <2>9. ASSUME NEW op PROVE Sold(op) \in Nat
    <3>1. Select(audit_log, op, b, i) \in SUBSET audit_log
      BY DEF Select
    <3> QED
      BY <1>0, <3>1, FS_Subset, QtyType DEF FiniteTables, HaveQty, TypeOK, AuditRows
  <2>10. ASSUME NEW s \in Int, NEW p \in Nat, NEW m \in Nat, NEW x \in Nat, NEW y \in Nat
         PROVE  (s + p - m) + x - y = s + (p + x) - (m + y)
    OBVIOUS
  <2> HIDE DEF Sold, Moved
  <2>11. (Stock0[<<b, i>>] + Sold("add") - Sold("remove")) + Moved("add") - Moved("remove")
            = Stock0[<<b, i>>] + (Sold("add") + Moved("add"))
                           - (Sold("remove") + Moved("remove"))
    BY <2>6, <2>8, <2>9, <2>10
  <2> QED
    BY <2>3, <2>4, <2>5, <2>11
<1> QED
  BY <1>1, <1>2

-----------------------------------------------------------------------------
AuditInv ==
    TypeInv /\ SessionMirrorsTable /\ BatchOfOneSession /\ AuditIsCommittedBuffer
            /\ StockReplaysAudit

LEMMA AuditInvariant == Spec => []AuditInv
<1>1. Init => BatchOfOneSession /\ AuditIsCommittedBuffer
  BY DEF Init, BatchOfOneSession, AuditIsCommittedBuffer, AuditOf, Committed
<1>2. Init => StockReplaysAudit
  <2> SUFFICES ASSUME Init, NEW b \in Bins, NEW i \in Items
               PROVE  bin_stock[<<b, i>>] =
                         Stock0[<<b, i>>] + Qty(Select(audit_log, "add", b, i))
                                      - Qty(Select(audit_log, "remove", b, i))
    BY DEF StockReplaysAudit
  <2>1. bin_stock[<<b, i>>] = Stock0[<<b, i>>] /\ audit_log = {}
    BY DEF Init
  <2>2. \A op : Select(audit_log, op, b, i) = {}
    BY <2>1 DEF Select
  <2>3. \A op : Qty(Select(audit_log, op, b, i)) = 0
    BY <2>2, QtyEmpty
  <2>4. Stock0[<<b, i>>] \in Int
    BY StockType
  <2> QED
    BY <2>1, <2>3, <2>4
<1>3. TypeInv /\ TypeInv' /\ SessionMirrorsTable /\ BatchOfOneSession
        /\ AuditIsCommittedBuffer /\ StockReplaysAudit /\ [Next]_vars
        => BatchOfOneSession' /\ AuditIsCommittedBuffer' /\ StockReplaysAudit'
  BY BatchStep, AuditStep, ReplayStep DEF TypeInv
<1> QED
  BY <1>1, <1>2, <1>3, TypeInvariant, SessionCorrect, PTL DEF Spec, AuditInv

(***************************************************************************)
(* The audit log is, at every moment, the buffered rows of the committed   *)
(* work sessions: after a commit no edit of the buffer, rollback, crash or *)
(* restart adds to it, takes from it or repeats it.                        *)
(***************************************************************************)
THEOREM AuditCorrect == Spec => []AuditIsCommittedBuffer
<1>1. AuditInv => AuditIsCommittedBuffer
  BY DEF AuditInv
<1> QED
  BY <1>1, AuditInvariant, PTL

(***************************************************************************)
(* Replaying the audit log over the initial stock gives bin_stock, in      *)
(* every reachable state and for any stock, packs and quantities.          *)
(***************************************************************************)
THEOREM StockCorrect == Spec => []StockReplaysAudit
<1>1. AuditInv => StockReplaysAudit
  BY DEF AuditInv
<1> QED
  BY <1>1, AuditInvariant, PTL

-----------------------------------------------------------------------------
(* Proof that the engine implements the ledger of work sessions, for any    *)
(* bins, items, packs, quantities and number of sessions.                   *)
(*                                                                          *)
(* A step that leaves work_sessions alone leaves the phase alone, because   *)
(* memory mirrors the table, and can only be an edit of the open session's  *)
(* rows; without a session it edits nothing.  What remains is the five      *)
(* steps that write work_sessions.  That a new session starts without rows  *)
(* needs RowsOfOpened.                                                      *)

(* No row belongs to a session that has not been opened yet.                *)
RowsOfOpened == \A r \in buffered_operations : work_sessions[r.ws] # "absent"

LEMMA OpenedStaysOpened ==
    ASSUME TypeOK, [Next]_vars, NEW s \in Sessions, work_sessions[s] # "absent"
    PROVE  work_sessions'[s] # "absent"
<1>0. work_sessions \in [Sessions -> Status]
  BY DEF TypeOK
<1>1. ASSUME NEW t, NEW st, st # "absent",
             work_sessions' = [work_sessions EXCEPT ![t] = st]
      PROVE  work_sessions'[s] # "absent"
  BY <1>0, <1>1
<1>2. CASE UNCHANGED work_sessions
  BY <1>2
<1>3. CASE OpenSession
  BY <1>1, <1>3 DEF OpenSession
<1>4. CASE RestoreSession
  BY <1>1, <1>4 DEF RestoreSession
<1>5. CASE CommitSession
  BY <1>1, <1>5 DEF CommitSession
<1>6. CASE RollbackSession
  BY <1>1, <1>6 DEF RollbackSession
<1>7. CASE Ticker
  BY <1>1, <1>2, <1>7 DEF Ticker
<1>8. [Next]_vars => \/ UNCHANGED work_sessions
                     \/ OpenSession \/ RestoreSession \/ CommitSession
                     \/ RollbackSession \/ Ticker
  BY DEF Next, ScanUnknownBin, ToggleClose, OpenBinSession, RefocusBin, StageItem,
     AccumulateItem, RefuseRemoval, ScanItem, ManualOperation, DeleteOperation,
     UpdateOperationQuantity, CreateBin, Tick, Restart, CrashInClose, CrashInManual,
     tables, vars
<1> QED
  BY <1>2, <1>3, <1>4, <1>5, <1>6, <1>7, <1>8

LEMMA RowsOfOpenedStep ==
    TypeOK /\ TypeOK' /\ SessionMirrorsTable /\ BatchOfOneSession /\ RowsOfOpened
           /\ [Next]_vars
        => RowsOfOpened'
<1> SUFFICES ASSUME TypeOK, TypeOK', SessionMirrorsTable, BatchOfOneSession,
                    RowsOfOpened, [Next]_vars, NEW r \in buffered_operations'
             PROVE  work_sessions'[r.ws] # "absent"
  BY DEF RowsOfOpened
<1>1. r.ws \in Sessions
  BY DEF TypeOK, Rows
<1>2. OwnEdit
  BY CommitOwnEdit, OwnEditStep
<1>3. work_sessions[r.ws] # "absent"
  <2>1. CASE r \in buffered_operations
    BY <2>1 DEF RowsOfOpened
  <2>2. CASE r \notin buffered_operations
    <3>1. r.ws = work_session_id
      BY <1>2, <2>2 DEF OwnEdit
    <3>2. work_session_id # 0
      BY <1>1, <3>1 DEF Sessions
    <3> QED
      BY <3>1, <3>2, SessionNotCommitted
  <2> QED
    BY <2>1, <2>2
<1> QED
  BY <1>1, <1>3, OpenedStaysOpened

LedgerInv == AuditInv /\ RowsOfOpened

LEMMA LedgerInvariant == Spec => []LedgerInv
<1>1. Init => RowsOfOpened
  BY DEF Init, RowsOfOpened
<1>2. AuditInv /\ AuditInv' /\ RowsOfOpened /\ [Next]_vars => RowsOfOpened'
  BY RowsOfOpenedStep DEF AuditInv, TypeInv
<1> QED
  BY <1>1, <1>2, AuditInvariant, PTL DEF Spec, LedgerInv

-----------------------------------------------------------------------------
(* The phase.                                                               *)

Pending == AuditOf(BufferedOf(work_session_id))

LEMMA PhaseOfTable ==
    ASSUME TypeOK, SessionMirrorsTable
    PROVE  /\ work_session_id = 0 => Phase = "closed"
           /\ work_session_id # 0 => Phase = work_sessions[work_session_id]
           /\ work_session_id # 0 => Phase \in {"open", "frozen"}
BY SessionNotCommitted DEF Phase, SessionMirrorsTable

(* As long as the table stays, so does the session in memory, over a        *)
(* restart too.                                                             *)
LEMMA SameTableSamePhase ==
    ASSUME SessionMirrorsTable, SessionMirrorsTable', UNCHANGED work_sessions
    PROVE  work_session_id' = work_session_id /\ Phase' = Phase
<1>1. Active' = Active
  BY DEF Active
<1>2. work_session_id' = work_session_id
  BY <1>1 DEF SessionMirrorsTable
<1> QED
  BY <1>2 DEF Phase, SessionMirrorsTable

(* Without a session nothing is pending.                                    *)
LEMMA NoRowsOfZero ==
    ASSUME TypeOK
    PROVE  BufferedOf(0) = {}
<1>1. \A r \in buffered_operations : r.ws \in Sessions
  BY DEF TypeOK, Rows
<1>2. 0 \notin Sessions
  BY DEF Sessions
<1> QED
  BY <1>1, <1>2 DEF BufferedOf

LEMMA ClosedEmpties ==
    ASSUME TypeOK', work_session_id' = 0
    PROVE  Pending' = {}
<1>1. \A r \in buffered_operations' : r.ws \in Sessions
  BY DEF TypeOK, Rows
<1>2. 0 \notin Sessions
  BY DEF Sessions
<1>3. BufferedOf(work_session_id)' = {}
  BY <1>1, <1>2 DEF BufferedOf
<1> QED
  BY <1>3 DEF Pending, AuditOf

-----------------------------------------------------------------------------
(* The steps, each as a step of the ledger.                                 *)

LEMMA EditStep ==
    ASSUME TypeOK, TypeOK', SessionMirrorsTable, SessionMirrorsTable', BatchOfOneSession,
           [Next]_vars, ~CommitSession, UNCHANGED work_sessions
    PROVE  Ledger!Edit \/ UNCHANGED Ledger!ledger
<1>1. UNCHANGED <<bin_stock, audit_log>> /\ OwnEdit
  BY OwnEditStep
<1>2. work_session_id' = work_session_id /\ Phase' = Phase
  BY SameTableSamePhase
<1>3. CASE work_session_id # 0
  <2>1. Phase # "closed"
    BY <1>3, PhaseOfTable
  <2> QED
    BY <1>1, <1>2, <2>1 DEF Ledger!Edit
<1>4. CASE work_session_id = 0
  <2>1. \A r \in buffered_operations \cup buffered_operations' : r.ws # work_session_id
    <3>1. \A r \in buffered_operations \cup buffered_operations' : r.ws \in Sessions
      BY DEF TypeOK, Rows
    <3> QED
      BY <1>4, <3>1 DEF Sessions
  <2>2. buffered_operations' = buffered_operations
    BY <1>1, <2>1 DEF OwnEdit
  <2> QED
    BY <1>1, <1>2, <2>2 DEF Ledger!ledger, AuditOf, BufferedOf
<1> QED
  BY <1>3, <1>4

LEMMA OpenStep ==
    ASSUME TypeOK, RowsOfOpened, OpenSession
    PROVE  Ledger!Open
<1>1. PICK s \in Sessions : work_sessions[s] = "absent" /\ work_session_id' = s
  BY DEF OpenSession
<1>2. Phase = "closed"
  BY DEF OpenSession, Phase
<1>3. Phase' = "open"
  BY <1>1 DEF OpenSession, Phase, Sessions
<1>4. BufferedOf(work_session_id)' = {}
  BY <1>1 DEF OpenSession, RowsOfOpened, BufferedOf
<1>5. Pending' = {}
  BY <1>4 DEF Pending, AuditOf
<1> QED
  BY <1>2, <1>3, <1>5 DEF Ledger!Open, OpenSession, Pending

LEMMA RestoreStep ==
    ASSUME RestoreSession
    PROVE  Ledger!Restore
BY DEF RestoreSession, Ledger!Restore, Phase, BufferedOf, AuditOf

LEMMA DiscardStep ==
    ASSUME TypeOK, TypeOK', SessionMirrorsTable, RollbackSession
    PROVE  Ledger!Discard
<1>1. work_session_id # 0 /\ work_session_id' = 0 /\ UNCHANGED <<bin_stock, audit_log>>
  BY DEF RollbackSession
<1>2. Phase # "closed" /\ Phase' = "closed"
  BY <1>1, PhaseOfTable DEF Phase
<1>3. Pending' = {}
  BY <1>1, ClosedEmpties
<1> QED
  BY <1>1, <1>2, <1>3 DEF Ledger!Discard, Pending

LEMMA FreezeStep ==
    ASSUME Ticker, Idle
    PROVE  Ledger!Freeze
<1>1. Phase = "open" /\ Phase' = "frozen" /\ UNCHANGED <<bin_stock, audit_log>>
  BY DEF Ticker, IsOpen, Phase
<1>2. buffered_operations \subseteq buffered_operations'
  BY DEF Ticker, CloseBinSessions
<1>3. BufferedOf(work_session_id) \subseteq BufferedOf(work_session_id)'
  BY <1>2 DEF Ticker, BufferedOf
<1>4. Pending \subseteq Pending'
  BY <1>3 DEF Pending, AuditOf
<1> QED
  BY <1>1, <1>4 DEF Ledger!Freeze, Pending

(* What the ledger calls moved is the quantity the commit moves.            *)
LEMMA MovedIsQty ==
    ASSUME TypeOK, FiniteTables, SessionMirrorsTable, work_session_id # 0,
           NEW n \in Batches, NEW op, NEW c \in Bins \X Items
    PROVE  Ledger!Moved(AuditOf(SessionRows(n)), op, c) =
              Qty(Select(SessionRows(n), op, c[1], c[2]))
<1> DEFINE sel == Select(SessionRows(n), op, c[1], c[2])
<1>1. work_session_id \in Sessions
  BY SessionNotCommitted
<1>2. SessionRows(n) \in SUBSET Rows /\ IsFiniteSet(SessionRows(n))
  BY <1>1, SessionRowsType
<1>3. sel \in SUBSET SessionRows(n)
  BY DEF Select
<1>4. sel \in SUBSET Rows /\ IsFiniteSet(sel)
  BY <1>2, <1>3, FS_Subset
<1>5. Qty(AuditOf(sel)) = Qty(sel)
  BY <1>3, <1>4, SessionRowsOwn, QtyAudited
<1>6. {r \in AuditOf(SessionRows(n)) : r.op = op /\ <<r.bin, r.item>> = c} = AuditOf(sel)
  <2>1. c = <<c[1], c[2]>>
    OBVIOUS
  <2>2. \A x, y : <<x, y>> = c <=> x = c[1] /\ y = c[2]
    BY <2>1
  <2> QED
    BY <2>2 DEF AuditOf, Select
<1>7. \A R : Ledger!Units(R) = Qty(R)
  BY DEF Ledger!Units, Qty, RowUnits, Ledger!Cardinality, Cardinality,
     Ledger!IsFiniteSet, IsFiniteSet
<1> QED
  BY <1>5, <1>6, <1>7 DEF Ledger!Moved

LEMMA ApplyStep ==
    ASSUME TypeInv, TypeOK', SessionMirrorsTable, BatchOfOneSession,
           AuditIsCommittedBuffer, CommitSession
    PROVE  Ledger!Apply
<1>0. TypeOK /\ FiniteTables /\ work_session_id # 0 /\ work_session_id' = 0
  BY DEF TypeInv, CommitSession
<1>1. Phase # "closed" /\ Phase' = "closed"
  BY <1>0, PhaseOfTable DEF Phase
<1>2. PICK n \in Batches :
         /\ IsNextBatch(n)
         /\ bin_stock' = [c \in Bins \X Items |->
               bin_stock[c] + Qty(Select(SessionRows(n), "add", c[1], c[2]))
                            - Qty(Select(SessionRows(n), "remove", c[1], c[2]))]
         /\ audit_log' = audit_log \cup AuditOf(SessionRows(n))
  BY DEF CommitSession, ApplyRows
<1>3. audit_log' \ audit_log = AuditOf(SessionRows(n))
  BY <1>0, <1>2, CommitAuditFresh
<1>4. Pending \subseteq AuditOf(SessionRows(n))
  BY DEF Pending, AuditOf, SessionRows
<1>5. bin_stock' = [c \in Bins \X Items |->
                       bin_stock[c] + Ledger!Moved(audit_log' \ audit_log, "add", c)
                                    - Ledger!Moved(audit_log' \ audit_log, "remove", c)]
  BY <1>0, <1>2, <1>3, MovedIsQty
<1>6. Pending' = {}
  BY <1>0, ClosedEmpties
<1> QED
  BY <1>1, <1>2, <1>3, <1>4, <1>5, <1>6 DEF Ledger!Apply, Pending

LEMMA LedgerStep ==
    LedgerInv /\ LedgerInv' /\ [Next]_vars => [Ledger!Next]_(Ledger!ledger)
<1> SUFFICES ASSUME LedgerInv, LedgerInv', [Next]_vars
             PROVE  [Ledger!Next]_(Ledger!ledger)
  OBVIOUS
<1>0. /\ TypeInv /\ TypeOK /\ SessionMirrorsTable /\ BatchOfOneSession
      /\ AuditIsCommittedBuffer /\ RowsOfOpened /\ TypeOK' /\ SessionMirrorsTable'
  BY DEF LedgerInv, AuditInv, TypeInv
<1>1. CASE CommitSession
  BY <1>0, <1>1, ApplyStep DEF Ledger!Next
<1>2. CASE ~CommitSession /\ UNCHANGED work_sessions
  BY <1>0, <1>2, EditStep DEF Ledger!Next
<1>3. CASE OpenSession
  BY <1>0, <1>3, OpenStep DEF Ledger!Next
<1>4. CASE RestoreSession
  BY <1>4, RestoreStep DEF Ledger!Next
<1>5. CASE RollbackSession
  BY <1>0, <1>5, DiscardStep DEF Ledger!Next
<1>6. CASE Ticker /\ Idle
  BY <1>6, FreezeStep DEF Ledger!Next
<1>7. \/ UNCHANGED work_sessions
      \/ OpenSession \/ RestoreSession \/ CommitSession \/ RollbackSession
      \/ Ticker /\ Idle
  BY DEF Next, ScanUnknownBin, ToggleClose, OpenBinSession, RefocusBin, StageItem,
     AccumulateItem, RefuseRemoval, ScanItem, ManualOperation, DeleteOperation,
     UpdateOperationQuantity, CreateBin, Tick, Ticker, Restart, CrashInClose,
     CrashInManual, tables, vars
<1> QED
  BY <1>1, <1>2, <1>3, <1>4, <1>5, <1>6, <1>7

LEMMA LedgerInit == Init => Ledger!Init
<1> SUFFICES ASSUME Init PROVE Ledger!Init
  OBVIOUS
<1>1. Phase = "closed"
  BY DEF Init, Phase
<1>2. AuditOf(BufferedOf(work_session_id)) = {}
  BY DEF Init, BufferedOf, AuditOf
<1> QED
  BY <1>1, <1>2 DEF Init, Ledger!Init

(***************************************************************************)
(* The engine implements the ledger of work sessions: the stock changes    *)
(* only when a session is applied, by the rows that enter the audit log in *)
(* that step and with every row pending then, and nothing pending outlives *)
(* its session.                                                            *)
(***************************************************************************)
THEOREM LedgerImplemented == Spec => ImplementsLedger
<1> QED
  BY LedgerInit, LedgerStep, LedgerInvariant, PTL DEF Spec, ImplementsLedger, Ledger!Spec
=============================================================================
