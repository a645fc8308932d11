--------------------------- MODULE GrammarEngine ---------------------------
(***************************************************************************)
(* The scanning grammar and the work session of the backend                *)
(* (backend/src/grammar/engine.c) over the tables it writes                *)
(* (backend/sql/schema.sql).                                               *)
(*                                                                         *)
(* Every entry point of engine.c holds e->lock from its first statement to *)
(* its last write, so one call is one step.  The scanner thread, the HTTP  *)
(* thread and the one-second ticker call in any order; the process may be  *)
(* killed between two calls or between two autocommitted statements of one *)
(* call, and starts again from the tables.                                 *)
(*                                                                         *)
(* A call the code refuses (returning -1) changes nothing and is no step.  *)
(*                                                                         *)
(* A definition introduced as "Mistake:" is not part of the model: it is a *)
(* plausible error in the code of the definition that follows it, kept to  *)
(* show which property notices it.                                         *)
(***************************************************************************)
EXTENDS Integers, FiniteSets

CONSTANTS
    Bins,             \* bin codes that may ever exist
    Items,            \* items that may ever exist
    Bins0, Items0,    \* those already in the tables
    Stock0,           \* bin_stock at the start, [Bins \X Items -> Nat]
    Contents,         \* item_pack_contents: pack -> [Items -> Nat]
    MonoItem,         \* mono_item_id of the mono bins
    NoBin,            \* focused_bin_id = 0
    NoPack,           \* via_pack_item_id IS NULL
    Calls,            \* the parts of the interface the clients use
    Quantities,       \* quantities a client sends (http_server.c: positive)
    ScanOpTimeout,    \* config.scan_op_timeout_seconds, in ticks
    WorkSessionIdle,  \* WORK_SESSION_IDLE_SECONDS, in ticks
    MaxSession,       \* bound: work sessions ever opened
    MaxBatch,         \* bound: batches of rows ever buffered
    MaxPending        \* bound: quantity of an entry not yet buffered

Vias     == Items \cup {NoPack}
Entries  == Items \X Vias        \* a pending_item_t: item, via_pack_item_id
Sessions == 1..MaxSession
Absent   == -1                   \* no row with this code
Provenance == Sessions \cup {Absent, 0}  \* 0: created_in_work_session_id NULL

ASSUME ConstantsAssumption ==
    /\ IsFiniteSet(Bins) /\ IsFiniteSet(Items)
    /\ NoBin \notin Bins /\ NoPack \notin Items
    /\ Bins0 \subseteq Bins /\ Items0 \subseteq Items
    /\ Stock0 \in [Bins \X Items -> Nat]
    /\ \A c \in Bins \X Items : Stock0[c] > 0 => c \in Bins0 \X Items0
    /\ DOMAIN Contents \subseteq Items0
    /\ \A p \in DOMAIN Contents :
          /\ Contents[p] \in [Items -> Nat]
          /\ \A i \in Items : Contents[p][i] > 0 => i \in Items0
    /\ DOMAIN MonoItem \subseteq Bins
    /\ \A b \in DOMAIN MonoItem :
          MonoItem[b] \in Items /\ (b \in Bins0 => MonoItem[b] \in Items0)
    /\ Quantities \subseteq Nat \ {0}
    /\ ScanOpTimeout \in Nat \ {0} /\ WorkSessionIdle \in Nat \ {0}
    /\ MaxSession \in Nat /\ MaxBatch \in Nat /\ MaxPending \in Nat

VARIABLES
    (* the tables: what survives the process *)
    work_sessions,       \* status of each work session
    buffered_operations, \* set of rows, those of finished sessions included
    bin_stock,
    audit_log,           \* set of rows
    bins, items,         \* provenance of each code, or Absent
    (* struct grammar_engine: lost with the process *)
    work_session_id, work_session_status,
    focused_bin_id,
    session_op,          \* bin_sessions: "none" where a bin has none
    session_items,       \* their pending lists, entry -> quantity
    unassigned_items,
    item_age,            \* now - last_item_at, saturated at the timeout
    activity_age         \* now - last_activity_at, saturated likewise

tables   == <<work_sessions, buffered_operations, bin_stock, audit_log, bins, items>>
grammar  == <<focused_bin_id, session_op, session_items, unassigned_items, item_age>>
session  == <<work_session_id, work_session_status>>
vars     == <<tables, session, grammar, activity_age>>

-----------------------------------------------------------------------------
(* Pending lists.  accumulate_into keeps one node per entry, so a list is  *)
(* the quantity of each entry, 0 where it has no node.                     *)

EmptyList == [e \in Entries |-> 0]

Accumulate(list, more) == [e \in Entries |-> list[e] + more[e]]

Expand(i, quantity) ==
    [e \in Entries |->
        IF i \in DOMAIN Contents
        THEN IF e[2] = i THEN Contents[i][e[1]] * quantity ELSE 0
        ELSE IF e = <<i, NoPack>> THEN quantity ELSE 0]

Fits(list) == \A e \in Entries : list[e] <= MaxPending

(* Quantities are added up by counting their units: a sum of quantities is *)
(* the cardinality of a set, which both TLC and the proofs can work with.  *)

ListUnits(list, i) == UNION {{v} \X (1 .. list[<<i, v>>]) : v \in Vias}
ListQty(list, i)   == Cardinality(ListUnits(list, i))

RowUnits(rows) == UNION {{r} \X (1 .. r.qty) : r \in rows}
Qty(rows)      == Cardinality(RowUnits(rows))

-----------------------------------------------------------------------------
(* Rows of buffered_operations.  The rows one call inserts share a batch;  *)
(* a row is identified by its batch, bin and entry, as it is by its id.    *)

IsNextBatch(n) ==
    /\ \A r \in buffered_operations : r.batch < n
    /\ n = 1 \/ \E r \in buffered_operations : r.batch = n - 1

OpenBinSessions == {b \in Bins : session_op[b] # "none"}

(* The bound leaves every open bin-session the batch its closing needs, so *)
(* that it never holds up a close; the last number is never given to a row. *)
Batches == 1 .. (MaxBatch + 1)

BatchRoom ==
    \A r \in buffered_operations :
        r.batch + Cardinality(OpenBinSessions) < MaxBatch

RowsOf(n, op, b, list) ==
    {[batch |-> n, ws |-> work_session_id, op |-> op, bin |-> b,
      item |-> e[1], via |-> e[2], qty |-> list[e]] :
        e \in {f \in Entries : list[f] > 0}}

(* insert_buffered_operation ignores the result of its INSERT: a row whose *)
(* foreign keys do not resolve is not inserted.                            *)
Insertable(rows) ==
    {r \in rows : /\ bins[r.bin] # Absent
                  /\ items[r.item] # Absent
                  /\ r.via # NoPack => items[r.via] # Absent}

ClosedRows(n, b) == Insertable(RowsOf(n, session_op[b], b, session_items[b]))

(* Mistake: AND work_session_id = ? is forgotten. *)
BufferedOfAnySession(ws) == buffered_operations

BufferedOf(ws) == {r \in buffered_operations : r.ws = ws}

Select(rows, op, b, i) == {r \in rows : r.op = op /\ r.bin = b /\ r.item = i}

BufferedRemovedSum(b, i) ==
    Qty(Select(BufferedOf(work_session_id), "remove", b, i))

AuditOf(rows) ==
    {[batch |-> r.batch, op |-> r.op, bin |-> r.bin, item |-> r.item,
      via |-> r.via, qty |-> r.qty] : r \in rows}

-----------------------------------------------------------------------------
IsOpen  == work_session_id # 0 /\ work_session_status = "open"

(* Mistake: the focus stays where it was. *)
DropSessionsKeepFocus(S) ==
    /\ session_op' = [b \in Bins |-> IF b \in S THEN "none" ELSE session_op[b]]
    /\ session_items' =
         [b \in Bins |-> IF b \in S THEN EmptyList ELSE session_items[b]]
    /\ item_age' = [b \in Bins |-> IF b \in S THEN 0 ELSE item_age[b]]
    /\ UNCHANGED focused_bin_id

DropSessions(S) ==
    /\ session_op' = [b \in Bins |-> IF b \in S THEN "none" ELSE session_op[b]]
    /\ session_items' =
         [b \in Bins |-> IF b \in S THEN EmptyList ELSE session_items[b]]
    /\ item_age' = [b \in Bins |-> IF b \in S THEN 0 ELSE item_age[b]]
    /\ focused_bin_id' = IF focused_bin_id \in S THEN NoBin ELSE focused_bin_id

CloseBinSessions(S) ==
    /\ \E n \in Batches :
          /\ IsNextBatch(n)
          /\ buffered_operations' =
                buffered_operations \cup UNION {ClosedRows(n, b) : b \in S}
    /\ DropSessions(S)

(* Mistake: the staged items are forgotten about, not freed. *)
LoseMemoryKeepStaged ==
    /\ session_op' = [b \in Bins |-> "none"]
    /\ session_items' = [b \in Bins |-> EmptyList]
    /\ item_age' = [b \in Bins |-> 0]
    /\ focused_bin_id' = NoBin
    /\ UNCHANGED unassigned_items

LoseMemory ==
    /\ session_op' = [b \in Bins |-> "none"]
    /\ session_items' = [b \in Bins |-> EmptyList]
    /\ item_age' = [b \in Bins |-> 0]
    /\ focused_bin_id' = NoBin
    /\ unassigned_items' = EmptyList

Init ==
    /\ work_sessions = [s \in Sessions |-> "absent"]
    /\ buffered_operations = {}
    /\ bin_stock = Stock0
    /\ audit_log = {}
    /\ bins = [b \in Bins |-> IF b \in Bins0 THEN 0 ELSE Absent]
    /\ items = [i \in Items |-> IF i \in Items0 THEN 0 ELSE Absent]
    /\ work_session_id = 0
    /\ work_session_status = ""
    /\ focused_bin_id = NoBin
    /\ session_op = [b \in Bins |-> "none"]
    /\ session_items = [b \in Bins |-> EmptyList]
    /\ unassigned_items = EmptyList
    /\ item_age = [b \in Bins |-> 0]
    /\ activity_age = 0

-----------------------------------------------------------------------------
(* grammar_engine_on_scan: ignored unless a session is open; whatever the  *)
(* code, the scan counts as activity.                                      *)

ScanAccepted == "scan" \in Calls /\ IsOpen /\ activity_age' = 0

ScanUnknownBin(b) ==
    /\ ScanAccepted
    /\ bins[b] = Absent
    /\ UNCHANGED <<tables, session, grammar>>

(* handle_bin_scan of the focused bin: the toggle closes its session.      *)
ToggleClose(b) ==
    /\ ScanAccepted
    /\ bins[b] # Absent
    /\ focused_bin_id = b
    /\ CloseBinSessions({b})
    /\ UNCHANGED <<work_sessions, bin_stock, audit_log, bins, items, session,
                   unassigned_items>>

(* Mistake: without staged items op_type stays as calloc left it. *)
OpenBinSessionUndirected(b) ==
    /\ ScanAccepted
    /\ bins[b] # Absent
    /\ focused_bin_id # b
    /\ session_op[b] = "none"
    /\ BatchRoom
    /\ session_op' = [session_op EXCEPT ![b] =
                        IF unassigned_items = EmptyList THEN "" ELSE "add"]
    /\ session_items' = [session_items EXCEPT ![b] = unassigned_items]
    /\ unassigned_items' = EmptyList
    /\ item_age' = [item_age EXCEPT ![b] = 0]
    /\ focused_bin_id' = b
    /\ UNCHANGED <<tables, session>>

(* Mistake: unassigned_items is handed over, and not set to NULL. *)
OpenBinSessionKeepStaged(b) ==
    /\ ScanAccepted
    /\ bins[b] # Absent
    /\ focused_bin_id # b
    /\ session_op[b] = "none"
    /\ BatchRoom
    /\ session_op' = [session_op EXCEPT ![b] =
                        IF unassigned_items = EmptyList THEN "remove" ELSE "add"]
    /\ session_items' = [session_items EXCEPT ![b] = unassigned_items]
    /\ item_age' = [item_age EXCEPT ![b] = 0]
    /\ focused_bin_id' = b
    /\ UNCHANGED <<tables, session, unassigned_items>>

(* handle_bin_scan of another bin without a session: the staged items, if  *)
(* there are any, fix its direction.                                       *)
OpenBinSession(b) ==
    /\ ScanAccepted
    /\ bins[b] # Absent
    /\ focused_bin_id # b
    /\ session_op[b] = "none"
    /\ BatchRoom
    /\ session_op' = [session_op EXCEPT ![b] =
                        IF unassigned_items = EmptyList THEN "remove" ELSE "add"]
    /\ session_items' = [session_items EXCEPT ![b] = unassigned_items]
    /\ unassigned_items' = EmptyList
    /\ item_age' = [item_age EXCEPT ![b] = 0]
    /\ focused_bin_id' = b
    /\ UNCHANGED <<tables, session>>

(* handle_bin_scan of another bin that has a session: only the focus moves. *)
RefocusBin(b) ==
    /\ ScanAccepted
    /\ bins[b] # Absent
    /\ focused_bin_id # b
    /\ session_op[b] # "none"
    /\ focused_bin_id' = b
    /\ UNCHANGED <<tables, session, session_op, session_items,
                   unassigned_items, item_age>>

BinScan(b) == ToggleClose(b) \/ OpenBinSession(b) \/ RefocusBin(b)

(* Mistake: an unknown item is used without being created. *)
ScanItemUnrecorded(i) ==
    /\ ScanAccepted
    /\ UNCHANGED <<tables, session, session_op, focused_bin_id>>

(* An unknown item barcode creates the item first, in a statement of its   *)
(* own, even when the scan is then refused.  handle_item_scan's defensive  *)
(* branch (a focus without a session) is left out: FocusHasSession.        *)
ScanItem(i) ==
    /\ ScanAccepted
    /\ items' = [items EXCEPT ![i] = IF @ = Absent THEN work_session_id ELSE @]
    /\ UNCHANGED <<work_sessions, buffered_operations, bin_stock, audit_log,
                   bins, session, session_op, focused_bin_id>>

StageItem(i) ==
    /\ focused_bin_id = NoBin
    /\ unassigned_items' = Accumulate(unassigned_items, Expand(i, 1))
    /\ Fits(unassigned_items')
    /\ ScanItem(i)
    /\ UNCHANGED <<session_items, item_age>>

(* Mistake: earlier bin-sessions of the work session are not counted. *)
AvailableIgnoringBuffer(b, i) ==
    bin_stock[<<b, i>>] - ListQty(session_items[b], i)

(* What is left to remove: stock less what this work session has buffered  *)
(* and what the bin-session already holds.                                 *)
Available(b, i) ==
    bin_stock[<<b, i>>] - BufferedRemovedSum(b, i) - ListQty(session_items[b], i)

Removable(b, list) ==
    \A e \in Entries : list[e] > 0 => list[e] <= Available(b, e[1])

AccumulateItem(i) ==
    LET b == focused_bin_id IN
    /\ b # NoBin
    /\ session_op[b] = "remove" => Removable(b, Expand(i, 1))
    /\ session_items' =
         [session_items EXCEPT ![b] = Accumulate(@, Expand(i, 1))]
    /\ Fits(session_items'[b])
    /\ item_age' = [item_age EXCEPT ![b] = 0]
    /\ ScanItem(i)
    /\ UNCHANGED unassigned_items

RefuseRemoval(i) ==
    /\ focused_bin_id # NoBin
    /\ session_op[focused_bin_id] = "remove"
    /\ ~Removable(focused_bin_id, Expand(i, 1))
    /\ ScanItem(i)
    /\ UNCHANGED <<session_items, item_age, unassigned_items>>

-----------------------------------------------------------------------------
(* The work session.                                                       *)

OpenSession ==
    /\ work_session_id = 0
    /\ \E s \in Sessions :
          /\ work_sessions[s] = "absent"
          /\ \A t \in Sessions : t < s => work_sessions[t] # "absent"
          /\ \A t \in Sessions : work_sessions[t] \notin {"open", "frozen"}
          /\ work_sessions' = [work_sessions EXCEPT ![s] = "open"]
          /\ work_session_id' = s
    /\ work_session_status' = "open"
    /\ activity_age' = 0
    /\ UNCHANGED <<buffered_operations, bin_stock, audit_log, bins, items, grammar>>

RestoreSession ==
    /\ work_session_id # 0
    /\ work_session_status = "frozen"
    /\ work_sessions' = [work_sessions EXCEPT ![work_session_id] = "open"]
    /\ work_session_status' = "open"
    /\ activity_age' = 0
    /\ UNCHANGED <<buffered_operations, bin_stock, audit_log, bins, items,
                   work_session_id, grammar>>

(* Mistake: only the focused bin-session is folded in. *)
FoldedFocused(n) ==
    UNION {ClosedRows(n, b) : b \in OpenBinSessions \cap {focused_bin_id}}

(* The rows of a commit: what is buffered, and what it folds in.           *)
FoldedRows(n)  == UNION {ClosedRows(n, b) : b \in OpenBinSessions}
SessionRows(n) == BufferedOf(work_session_id) \cup FoldedRows(n)

(* Mistake: a removal is added to the stock. *)
ApplyUnsigned(rows) ==
    /\ bin_stock' = [c \in Bins \X Items |->
          bin_stock[c] + Qty(Select(rows, "add", c[1], c[2]))
                       + Qty(Select(rows, "remove", c[1], c[2]))]
    /\ audit_log' = audit_log \cup AuditOf(rows)

(* Mistake: additions are not audited. *)
ApplyUnaudited(rows) ==
    /\ bin_stock' = [c \in Bins \X Items |->
          bin_stock[c] + Qty(Select(rows, "add", c[1], c[2]))
                       - Qty(Select(rows, "remove", c[1], c[2]))]
    /\ audit_log' = audit_log \cup AuditOf({r \in rows : r.op = "remove"})

ApplyRows(rows) ==
    /\ bin_stock' = [c \in Bins \X Items |->
          bin_stock[c] + Qty(Select(rows, "add", c[1], c[2]))
                       - Qty(Select(rows, "remove", c[1], c[2]))]
    /\ audit_log' = audit_log \cup AuditOf(rows)

(* Commit folds every live bin-session into the buffer, drops what is      *)
(* staged, and applies the session's rows to bin_stock and audit_log in    *)
(* one transaction.  It does not care whether the session is frozen.       *)
CommitSession ==
    /\ "commit" \in Calls
    /\ work_session_id # 0
    /\ \E n \in Batches :
          /\ IsNextBatch(n)
          /\ buffered_operations' = buffered_operations \cup FoldedRows(n)
          /\ ApplyRows(SessionRows(n))
    /\ work_sessions' = [work_sessions EXCEPT ![work_session_id] = "committed"]
    /\ work_session_id' = 0
    /\ work_session_status' = ""
    /\ LoseMemory
    /\ UNCHANGED <<bins, items, activity_age>>

(* Mistake: bins are deleted before the rows that refer to them. *)
BinHeldBeforeRows(b, rows) == \E r \in buffered_operations \cup audit_log : r.bin = b

(* The deletes of rollback run in the order foreign keys ask for.  A       *)
(* DELETE that would leave a reference dangling deletes nothing, and its   *)
(* result is ignored: a bin is held by rows and audit rows, an item by     *)
(* those and by the mono bins that are still there.                        *)
BinHeld(b, rows) == \E r \in rows \cup audit_log : r.bin = b

ItemHeld(i, rows, binsLeft) ==
    \/ \E r \in rows \cup audit_log : i \in {r.item, r.via}
    \/ \E b \in DOMAIN MonoItem : binsLeft[b] # Absent /\ MonoItem[b] = i

DeleteCreated(table, held) ==
    LET doomed == {x \in DOMAIN table : table[x] = work_session_id}
    IN [x \in DOMAIN table |->
          IF x \in doomed /\ doomed \cap held = {} THEN Absent ELSE table[x]]

RollbackSession ==
    LET rows == buffered_operations \ BufferedOf(work_session_id) IN
    /\ "rollback" \in Calls
    /\ work_session_id # 0
    /\ buffered_operations' = rows
    /\ bins' = DeleteCreated(bins, {b \in Bins : BinHeld(b, rows)})
    /\ items' = DeleteCreated(items, {i \in Items : ItemHeld(i, rows, bins')})
    /\ work_sessions' = [work_sessions EXCEPT ![work_session_id] = "rolled_back"]
    /\ work_session_id' = 0
    /\ work_session_status' = ""
    /\ LoseMemory
    /\ UNCHANGED <<bin_stock, audit_log, activity_age>>

-----------------------------------------------------------------------------
(* The panel's edits of the buffer.  All are made with the work session's  *)
(* rows only; none looks at the live bin-sessions.                         *)

ManualAccepted(op, b, list) ==
    op = "remove" =>
        \A e \in Entries : list[e] > 0 =>
            list[e] <= bin_stock[<<b, e[1]>>] - BufferedRemovedSum(b, e[1])

ManualOperation(op, b, i, quantity) ==
    /\ "manual" \in Calls
    /\ IsOpen
    /\ ManualAccepted(op, b, Expand(i, quantity))
    /\ BatchRoom
    /\ \E n \in Batches :
          /\ IsNextBatch(n)
          /\ buffered_operations' = buffered_operations \cup
                Insertable(RowsOf(n, op, b, Expand(i, quantity)))
    /\ activity_age' = 0
    /\ UNCHANGED <<work_sessions, bin_stock, audit_log, bins, items, session,
                   grammar>>

DeleteOperation(r) ==
    /\ "delete" \in Calls
    /\ work_session_id # 0
    /\ r \in BufferedOf(work_session_id)
    /\ buffered_operations' = buffered_operations \ {r}
    /\ UNCHANGED <<work_sessions, bin_stock, audit_log, bins, items, session,
                   grammar, activity_age>>

UpdateOperationQuantity(r, quantity) ==
    /\ "update" \in Calls
    /\ work_session_id # 0
    /\ r \in BufferedOf(work_session_id)
    /\ buffered_operations' =
         (buffered_operations \ {r}) \cup {[r EXCEPT !.qty = quantity]}
    /\ UNCHANGED <<work_sessions, bin_stock, audit_log, bins, items, session,
                   grammar, activity_age>>

(* The INSERT fails on a barcode in use or a mono item that does not       *)
(* exist; the attempt is activity either way.                              *)
CreateBin(b) ==
    /\ "create" \in Calls
    /\ IsOpen
    /\ bins' = [bins EXCEPT ![b] =
         IF @ = Absent /\ (b \in DOMAIN MonoItem => items[MonoItem[b]] # Absent)
         THEN work_session_id ELSE @]
    /\ activity_age' = 0
    /\ UNCHANGED <<work_sessions, buffered_operations, bin_stock, audit_log,
                   items, session, grammar>>

-----------------------------------------------------------------------------
(* Time and the ticker.  The ticker is a step of its own: when it wakes, a *)
(* scan may have come first, however late.                                 *)

Older(age, cap) == IF age < cap THEN age + 1 ELSE age

Tick ==
    /\ item_age' = [b \in Bins |-> IF session_op[b] = "remove"
                                   THEN Older(item_age[b], ScanOpTimeout)
                                   ELSE item_age[b]]
    /\ activity_age' = Older(activity_age, WorkSessionIdle)
    /\ UNCHANGED <<tables, session, focused_bin_id, session_op, session_items,
                   unassigned_items>>

(* Mistake: only the focused bin is looked at. *)
ExpiredFocused ==
    {b \in {focused_bin_id} \ {NoBin} :
        session_op[b] = "remove" /\ item_age[b] >= ScanOpTimeout}

(* Mistake: a work session with something in flight is not idle. *)
IdleAndEmpty == activity_age >= WorkSessionIdle /\ OpenBinSessions = {}

Expired == {b \in Bins : session_op[b] = "remove" /\ item_age[b] >= ScanOpTimeout}
Idle    == activity_age >= WorkSessionIdle

(* One pass of ticker_thread_fn: it closes every expired removal, then     *)
(* freezes a work session that has been idle for too long.                 *)
Ticker ==
    /\ IsOpen
    /\ Expired # {} \/ Idle
    /\ CloseBinSessions(Expired)
    /\ IF Idle
       THEN /\ work_sessions' = [work_sessions EXCEPT ![work_session_id] = "frozen"]
            /\ work_session_status' = "frozen"
       ELSE UNCHANGED <<work_sessions, work_session_status>>
    /\ UNCHANGED <<bin_stock, audit_log, bins, items, work_session_id,
                   unassigned_items, activity_age>>

-----------------------------------------------------------------------------
(* The end of the process and its next start.                              *)

Active == {s \in Sessions : work_sessions[s] \in {"open", "frozen"}}

(* Mistake: a frozen session comes back open. *)
ReattachAsOpen ==
    /\ \/ Active = {} /\ work_session_id' = 0 /\ work_session_status' = ""
       \/ \E s \in Active : work_session_id' = s /\ work_session_status' = "open"
    /\ activity_age' = 0
    /\ LoseMemory

(* grammar_engine_create: re-attach to the session the tables show.        *)
Reattach ==
    /\ \/ Active = {} /\ work_session_id' = 0 /\ work_session_status' = ""
       \/ \E s \in Active : /\ work_session_id' = s
                            /\ work_session_status' = work_sessions[s]
    /\ activity_age' = 0
    /\ LoseMemory

Restart ==
    /\ "restart" \in Calls
    /\ Reattach
    /\ UNCHANGED tables

(* The process dies while bin-sessions are being closed (by a toggle, the  *)
(* ticker or a commit that has not reached its BEGIN): each row was its    *)
(* own transaction, so some sessions are buffered and one is in part.      *)
CrashInClose ==
    /\ "restart" \in Calls
    /\ work_session_id # 0
    /\ \E n \in Batches, b \in OpenBinSessions :
       \E done \in SUBSET (OpenBinSessions \ {b}), part \in SUBSET ClosedRows(n, b) :
          /\ IsNextBatch(n)
          /\ buffered_operations' = buffered_operations \cup part
                                      \cup UNION {ClosedRows(n, c) : c \in done}
    /\ Reattach
    /\ UNCHANGED <<work_sessions, bin_stock, audit_log, bins, items>>

(* The same for the rows a pack expands to in a manual operation.          *)
CrashInManual(op, b, i, quantity) ==
    /\ {"restart", "manual"} \subseteq Calls
    /\ IsOpen
    /\ ManualAccepted(op, b, Expand(i, quantity))
    /\ BatchRoom
    /\ \E n \in Batches :
       \E part \in SUBSET Insertable(RowsOf(n, op, b, Expand(i, quantity))) :
          /\ IsNextBatch(n)
          /\ buffered_operations' = buffered_operations \cup part
    /\ Reattach
    /\ UNCHANGED <<work_sessions, bin_stock, audit_log, bins, items>>

-----------------------------------------------------------------------------
Next ==
    \/ \E b \in Bins : ScanUnknownBin(b)
    \/ \E b \in Bins : ToggleClose(b)
    \/ \E b \in Bins : OpenBinSession(b)
    \/ \E b \in Bins : RefocusBin(b)
    \/ \E i \in Items : StageItem(i)
    \/ \E i \in Items : AccumulateItem(i)
    \/ \E i \in Items : RefuseRemoval(i)
    \/ OpenSession
    \/ RestoreSession
    \/ CommitSession
    \/ RollbackSession
    \/ \E op \in {"add", "remove"}, b \in Bins, i \in Items, q \in Quantities :
          ManualOperation(op, b, i, q)
    \/ \E r \in buffered_operations : DeleteOperation(r)
    \/ \E r \in buffered_operations, q \in Quantities : UpdateOperationQuantity(r, q)
    \/ \E b \in Bins : CreateBin(b)
    \/ Tick
    \/ Ticker
    \/ Restart
    \/ CrashInClose
    \/ \E op \in {"add", "remove"}, b \in Bins, i \in Items, q \in Quantities :
          CrashInManual(op, b, i, q)

Spec == Init /\ [][Next]_vars

(* Time passes and the ticker thread keeps waking up; nobody has to scan.  *)
Fairness == WF_vars(Tick) /\ WF_vars(Ticker)

FairSpec == Spec /\ Fairness

-----------------------------------------------------------------------------
(* Properties.                                                             *)

Status == {"absent", "open", "frozen", "committed", "rolled_back"}

Rows == [batch : Batches, ws : Sessions, op : {"add", "remove"}, bin : Bins,
         item : Items, via : Vias, qty : Nat \ {0}]

AuditRows == [batch : Batches, op : {"add", "remove"}, bin : Bins,
              item : Items, via : Vias, qty : Nat \ {0}]

(* Every variable has the values its column or struct member can hold; in  *)
(* particular every quantity in a table of operations is positive.         *)
TypeOK ==
    /\ work_sessions \in [Sessions -> Status]
    /\ buffered_operations \in SUBSET Rows
    /\ bin_stock \in [Bins \X Items -> Int]
    /\ audit_log \in SUBSET AuditRows
    /\ bins \in [Bins -> Provenance]
    /\ items \in [Items -> Provenance]
    /\ work_session_id \in Sessions \cup {0}
    /\ work_session_status \in {"", "open", "frozen"}
    /\ focused_bin_id \in Bins \cup {NoBin}
    /\ session_op \in [Bins -> {"none", "add", "remove"}]
    /\ session_items \in [Bins -> [Entries -> Nat]]
    /\ unassigned_items \in [Entries -> Nat]
    /\ item_age \in [Bins -> 0..ScanOpTimeout]
    /\ activity_age \in 0..WorkSessionIdle

(* A focused bin always has a bin-session, whichever of toggle, timeout,   *)
(* freeze, commit, rollback or restart came last: the branch of            *)
(* handle_item_scan that drops a scan for a focus without one is dead.     *)
FocusHasSession ==
    focused_bin_id # NoBin => focused_bin_id \in OpenBinSessions

(* What the engine remembers of the work session is what the table says,   *)
(* and the table holds at most one open or frozen session: restarts        *)
(* re-attach to the right one and idx_work_sessions_singleton_open never   *)
(* refuses an update the code does not check.                              *)
SessionMirrorsTable ==
    /\ Active = IF work_session_id = 0 THEN {} ELSE {work_session_id}
    /\ work_session_id # 0 => work_sessions[work_session_id] = work_session_status
    /\ work_session_id = 0 => work_session_status = ""

(* Nothing scanned in one work session is still in memory when the next    *)
(* one opens: without a session there is no bin-session, staged item or    *)
(* focus, and a bin without a bin-session holds no items.                  *)
NothingLeftInFlight ==
    /\ work_session_id = 0 => /\ OpenBinSessions = {}
                              /\ unassigned_items = EmptyList
    /\ \A b \in Bins \ OpenBinSessions : session_items[b] = EmptyList

Exists(r) == /\ bins[r.bin] # Absent
             /\ items[r.item] # Absent
             /\ r.via # NoPack => items[r.via] # Absent

(* Everything that refers to a bin or an item, in the tables or in memory, *)
(* refers to one that exists: no insert of scanned items can fail on its   *)
(* foreign keys and lose them without a word, and no rollback deletes a    *)
(* bin or item that a committed row still needs.                           *)
NoDanglingReferences ==
    /\ \A r \in buffered_operations \cup audit_log : Exists(r)
    /\ \A b \in OpenBinSessions : bins[b] # Absent
    /\ \A b \in OpenBinSessions, e \in Entries : session_items[b][e] > 0 =>
          Exists([bin |-> b, item |-> e[1], via |-> e[2]])
    /\ \A e \in Entries : unassigned_items[e] > 0 =>
          items[e[1]] # Absent /\ (e[2] # NoPack => items[e[2]] # Absent)
    /\ \A b \in DOMAIN MonoItem : bins[b] # Absent => items[MonoItem[b]] # Absent

Committed == {r \in buffered_operations : work_sessions[r.ws] = "committed"}

(* The audit log is the buffered rows of the committed sessions, each once: *)
(* no edit, rollback or crash changes, repeats or loses what was applied.  *)
AuditIsCommittedBuffer == audit_log = AuditOf(Committed)

(* Replaying the audit log over the initial stock gives bin_stock: no      *)
(* quantity moves without an audit row, and none twice.                    *)
StockReplaysAudit ==
    \A b \in Bins, i \in Items :
        bin_stock[<<b, i>>] =
            Stock0[<<b, i>>] + Qty(Select(audit_log, "add", b, i))
                             - Qty(Select(audit_log, "remove", b, i))

(* Rollback is a full undo: no buffered row, bin or item of a session that *)
(* was rolled back is left, in spite of the foreign keys between them.     *)
NoTraceOfRolledBack ==
    \A s \in Sessions : work_sessions[s] = "rolled_back" =>
        /\ BufferedOf(s) = {}
        /\ \A b \in Bins : bins[b] # s
        /\ \A i \in Items : items[i] # s

(* What the session's rows and live bin-sessions would do to the stock.    *)
Signed(op, n) == IF op = "add" THEN n ELSE -n

InFlightNet(b, i) ==
    Qty(Select(BufferedOf(work_session_id), "add", b, i))
      - Qty(Select(BufferedOf(work_session_id), "remove", b, i))
      + Signed(session_op[b], ListQty(session_items[b], i))

(* A commit moves exactly what is in flight into the stock: the rows of    *)
(* this session and the bin-sessions still open, each in its direction.    *)
CommitAppliesInFlight ==
    [][CommitSession => \A b \in Bins, i \in Items :
          bin_stock'[<<b, i>>] = bin_stock[<<b, i>>] + InFlightNet(b, i)]_vars

Opened(b) == session_op[b] = "none" /\ session_op'[b] # "none"

(* A bin scan or a pass of the ticker closes bin-sessions without changing *)
(* what they amount to, bin by bin and with their direction.  Staged items *)
(* go, all of them, to the one bin whose scan opens a bin-session, and are *)
(* staged no longer; otherwise - a toggle, a timeout, a focus that returns *)
(* to a bin-session - all of them remain staged.                           *)
BinScanConserves(i) ==
    /\ \A b \in Bins :
          InFlightNet(b, i)' = InFlightNet(b, i) +
             IF Opened(b) THEN ListQty(unassigned_items, i) ELSE 0
    /\ \A b, c \in Bins : Opened(b) /\ Opened(c) => b = c
    /\ ListQty(unassigned_items', i) =
          IF \E b \in Bins : Opened(b) THEN 0 ELSE ListQty(unassigned_items, i)

(* The scan of item j, a pack perhaps, is counted in one place: staged, or *)
(* in the bin in focus and in its direction; when refused, nowhere.        *)
ItemScanConserves(j, i) ==
    LET n == ListQty(Expand(j, 1), i) IN
    /\ ListQty(unassigned_items', i) =
          ListQty(unassigned_items, i) + IF StageItem(j) THEN n ELSE 0
    /\ \A b \in Bins :
          InFlightNet(b, i)' = InFlightNet(b, i) +
             IF AccumulateItem(j) /\ b = focused_bin_id
             THEN Signed(session_op[b], n) ELSE 0

(* As long as scans, toggles and timeouts are all that happens, no item is *)
(* lost between the places it may be in - staged, in a bin-session, in the *)
(* buffer - nor counted in two of them.  It says nothing of the end of the *)
(* work session: commit drops what is still staged.                        *)
ScansConserved ==
    [][/\ Ticker \/ (\E b \in Bins : BinScan(b)) =>
             \A i \in Items : BinScanConserves(i)
       /\ \A j \in Items :
             StageItem(j) \/ AccumulateItem(j) \/ RefuseRemoval(j) =>
                \A i \in Items : ItemScanConserves(j, i)]_vars

(* When only scans remove items, the scans of a work session never claim   *)
(* more of an item than the bin holds, in any order of toggles, timeouts,  *)
(* refusals, crashes in the middle of a close, and restarts.               *)
ScanRemovalCovered ==
    \A b \in Bins, i \in Items :
        /\ bin_stock[<<b, i>>] >= 0
        /\ work_session_id # 0 => BufferedRemovedSum(b, i)
              + (IF session_op[b] = "remove" THEN ListQty(session_items[b], i) ELSE 0)
                <= bin_stock[<<b, i>>]

(* An unattended removal does not stay open: while the work session is     *)
(* open, it is closed or gets another item, whatever bin is in focus.      *)
RemovalsTimeOut ==
    \A b \in Bins :
        []<>(session_op[b] # "remove" \/ ~IsOpen \/ item_age[b] = 0)

(* A work session nobody touches does not stay open.                       *)
IdleSessionFreezes == []<>(~IsOpen \/ activity_age = 0)
=============================================================================
