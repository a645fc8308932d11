# Storegizer in TLA+

Storegizer is a warehouse server: people scan bins and items, the server turns the
scans into additions and removals, collects them in a *work session*, and applies
them to the stock when a person commits the session. This directory holds TLA+
models of the backend, the TLC runs that check them on small instances, and TLAPS
proofs of what holds for every instance. Paths below are relative to the repository
(`backend/src/...` is `src/backend/src/...` in `PROJECT.json`).

## 1. The system

Three threads change state: the **scanner** thread (a code was read), the **HTTP**
thread (libmicrohttpd's one polling thread), and the engine's one-second **ticker**.
A fourth, the **service** thread of libwebsockets, sends the live feed. The **main**
thread starts them and stops them on a signal.

| Component | Code | State | Operations |
|---|---|---|---|
| Grammar engine | `backend/src/grammar/engine.c` | current work session and its status, focused bin, one *bin-session* per bin being worked on (direction, pending items, time of the last item), items staged without a bin, time of the last activity | scan; open, restore, commit, roll back a session; manual operation, delete, change the quantity of a row; create bin, item, tag, category; read and change settings; ticker |
| Tables | `backend/sql/schema.sql` | `work_sessions`, `buffered_operations`, `bin_stock`, `audit_log`, `bins`, `items`, categories, tags | SQL statements of the engine, each its own transaction except in commit and rollback |
| Live feed | `backend/src/ws/ws_server.c` | ring of the last 64 messages, per client the next message it wants | broadcast, connect, disconnect, write, service loop |
| Scanner | `backend/src/scanner/scanner_evdev.c` | code being assembled, shift | key event |
| HTTP server | `backend/src/http/http_server.c` | request body being received | look up fields, call the engine, answer |
| Settings | `backend/src/config/config.c` | timeout of removals, in memory and in a file | load, save, change |
| Lifecycle | `backend/src/main.c` | which parts exist | start and stop in order |
| Front end, printing | `frontend/`, `print-service/` | none the backend depends on | |

**Interaction.** Scanner and HTTP thread call the engine; the engine writes the tables
and calls `ws_server_broadcast`, mostly after it released `e->lock`; clients read the
state back over HTTP. Every entry point of the engine holds `e->lock` from its first
read to its last write, so engine calls are atomic towards each other, but not
towards a crash: outside commit and rollback every INSERT commits by itself.

**What is hard.** A bin-session can be ended by a toggle, a timeout, a commit, a
rollback or a restart, and a freeze leaves it open; each must leave focus, lists,
buffer and session consistent. The guard against removing more than there is must add
up three places. Memory and tables agree only as long as statements whose results
nobody checks do not fail. Foreign keys give the deletes of a rollback an order. A
crash can fall between two rows of one bin-session, two tags of one item, two segments
of one path. In the feed, one thread overwrites slots and asks for callbacks on another
thread that may be asleep, and a message tells of a change that another one may have
overtaken. Everything is stopped while it may still be calling everything else.
`PROJECT.json` lists the hazards with their lines and the properties that watch each.

**What makes each part correct.**

- Engine: stock moves only by commit, exactly by the audited rows, each once; while a
  session runs, what was scanned is in one place and in no second one, and a commit
  applies what is in a bin-session or buffered (not what is staged); scanning cannot take
  more than there is; a rollback leaves no trace; the memory follows the tables
  across crashes; removals time out, idle sessions freeze.
- Catalog: a path of categories is unique; a tag outside its scope is never linked;
  a rollback undoes all of it, half-made items too.
- Feed: a connected client gets each message in order and once, missing only what
  left the ring, and is never left waiting while there is something to send; with the
  engine, no panel is left showing an old state with nothing on its way to tell it.
- Settings: what was acknowledged is in force, after restarts and crashes too; a removal
  is closed before its session freezes, unless its timeout is longer than the idle limit.
- HTTP: fields reach the engine as sent, but for a quantity that does not fit an int;
  rows of finished sessions are out of reach.
- Scanner: a code is delivered as scanned; losses invent nothing.
- Lifecycle: nobody uses a part that is gone, and a signal ends the process.

## 2. Modules

| Module | What it is |
|---|---|
| `GrammarEngine` | engine.c over the tables of the work session |
| `WorkSessionLedger` | the abstract promise: stock, audit, one phase, pending rows |
| `GrammarEngineLedger` | refinement mapping of the engine to the ledger |
| `Catalog` | categories, tags, items with tags, and their rollback (engine.c, schema.sql) |
| `Settings` | the timeout: request, memory, edited file, restart; an open removal and the freeze |
| `HttpServer` | from a request to the call of the engine and the answer, with row ids |
| `WsServer` | ws_server.c, with libwebsockets as an external part |
| `LiveView` | engine, feed and panel composed (EXTENDS `WsServer`) |
| `Scanner` | scan_loop over the kernel's event queue |
| `Lifecycle` | main.c and where each thread is |
| `MCGrammarEngine`, `MCGrammarEngineLedger`, `MCHttpServer`, `MCScanner` | small instances for TLC |
| `GrammarDocs` | statements of the documentation the engine does not keep |
| `GrammarEngineProofs` | the engine's operators, types, session, audit, and the refinement |
| `GrammarEngineStockProofs` | references and rollback; removals, commits and scans against the stock |
| `LiveViewProofs` | the feed, then feed, engine and panels together |
| `CatalogProofs`, `ScannerProofs`, `SettingsProofs`, `HttpServerProofs`, `LifecycleProofs` | lemmas and theorems about the module of that name |

Definitions introduced by "Mistake:" are not part of any specification. Each is a
plausible error in the code of the definition after it, and `PROJECT.json`
("mutants") names the property that notices it.

### GrammarEngine

Variables carry the names of the tables and of the members of `struct
grammar_engine`. The differences:

- A row is a record without a numeric id: `batch` numbers the calls that inserted
  rows, and a row is unique within its batch by bin, item and pack. `source` and times
  are left out, nothing reads them. Ids are in `HttpServer`.
- `bins` and `items` map each code that can ever exist to the session that created it
  (0: NULL), or `Absent`. `MonoItem` and `Contents` are the columns
  `bins.mono_item_id` and table `item_pack_contents`, which no code updates.
- The pending list is a function from (item, pack) to quantity, since
  `accumulate_into` keeps one node for each. The list of bin-sessions becomes
  `session_op` and `session_items`, since there is one for each bin.
- Times of day become ages, saturated where the code only asks whether they reached
  a limit. `last_item_at` matters for removals only and ages only there.
- Quantities are added up by counting units (`Qty` is the cardinality of the set of
  pairs of a row and a number up to its quantity), so that the same definition serves TLC
  and the provers; a recursive sum would be out of the provers' reach.

One action is one call under `e->lock`. A refused call changes nothing and is no
action, with one exception: a scan that is refused still counts as activity and may
create its item (`RefuseRemoval`, `ScanUnknownBin`). `Expand` is single-level, as in
the code. `Insertable` is what the foreign keys do to an INSERT whose result is ignored.
In `RollbackSession` every DELETE either deletes all its rows or, if that left a
reference dangling, none.

`BinScan` is split by what the code branches on: `ToggleClose`, `OpenBinSession`,
`RefocusBin`; an item scan is `StageItem`, `AccumulateItem` or `RefuseRemoval`. `Ticker`
is one pass of the loop when it has something to do. `Tick` advances the clock and is
independent of `Ticker`: the thread may wake late, with a scan before it.

`Restart` ends the process between two calls; it is also a graceful stop, since
`grammar_engine_destroy` writes nothing. `CrashInClose` and `CrashInManual` end it between two
autocommitted inserts. `CrashInClose` lets any set of open bin-sessions have been
written entirely and one more in part. That covers a toggle, a pass of the ticker and
a commit before its BEGIN, and allows a little more than each of them: a property that
holds with it holds for the code. A crash inside BEGIN..COMMIT is a crash before it.

`Calls` switches parts of the interface on: an instance with only
`{"scan", "commit"}` is a warehouse whose panel is not used.

### Catalog

The tables `categories`, `tags`, `items`, `item_tags`, with the session that created each
row. `EnsureCategoryPath` walks the path and inserts what is missing, `CrashInPath` stops
after any of its inserts; `CreateItem` checks every tag it is given before it inserts the
item, creates and links them one by one, and `CrashInCreateItem` stops in between.
`WithinScope` is `category_is_within_scope_locked`, climbing at most `DepthGuard` (64)
parents. `RollbackSession` deletes links, items, tags, then categories leaf first in
`DepthGuard` rounds, and ids are given out again. A table with more rows is `With`, which keeps
the rows that are there. A crash between two calls leaves the tables as they are and is no step.

### Settings, HttpServer

`Settings` follows one number from the request (a `long`, checked by the handler), through the
cast to `int`, the engine's own check, memory and the truncated and rewritten file, to
`config_load` at the next start. The file is meant to be edited by hand: it may start with, and
be edited to, any number (`Edited`) or none, and `Load` casts it without a look, as
`json_int_field` does, so 0, negative and wrapped timeouts do occur in the model. Beside it runs
a work session (none, open, frozen) with one removal: the ticker looks at an open session only,
closes the removal if it has expired, then freezes the session if it is idle, with the
removal still open if that has not expired. The ages of both are read from a wall clock that may be
set; they are kept up to `Horizon`, beyond which all limits are reached, and an age that is
capped may be any larger one when the clock goes back. A session left frozen may be restored,
committed, rolled back or re-attached. `GrammarEngine` takes the timeout to be positive and fixed.

`HttpServer` has a body as a sequence of fields and looks keys
up as `json_get_*` do, anywhere in the text: a string that equals the key is taken for
it. `answer.args` is what the engine is called with, after the cast of a quantity to `int`
(`Call`). Its requests may come at any time and in any order, with ids of rows that are gone or
given out again: that covers stale pages, resent requests and several panels. Whether a
removal by hand is refused for lack of stock is left open there.

### WsServer and LiveView

A broadcast and every callback hold `ws->lock` and are one action each. The two calls
made after an unlock are actions of their own: `CancelService` and `Rearm`. The service
loop is `PollEnter`, `PollReturn`, `PollTimeout`, and between a return and the next poll it runs
callbacks. The external part is what the code relies on in libwebsockets:
`lws_callback_on_writable` sets a flag of the connection, a poll watches the flags set
when it began, `lws_cancel_service` makes the current poll, or the next one, return, and
a callback may come unasked after a message was sent in parts, which is why the code
checks that there is something to write. A
message is its sequence number: the slot's `seq` and `payload` are written together and
the payload is read by no decision. `unseen` is history. Memory that cannot be allocated
for a broadcast drops the message before it gets a number and is no step.

`LiveView` keeps those variables and adds a version number for what the engine's status
shows. A call that changes it (`ChangeState`) and its broadcast (`Announce`) are two
steps, as the code broadcasts after the unlock, so two threads may announce in the other
order, and errors (`AnnounceError`) come in between. The panel is external: it reads when
it has connected and after every `buffer_changed`, and an answer takes its time.

### Scanner, Lifecycle

`Scanner`: a device types press and release events, with shift around capitals, into a
kernel queue that may overrun; scan_loop reads them one by one and hands over a code at
Enter. `typing` is the key of the code the device is at and the number of its events sent
(`Stroke`: press and release, four events for a capital, two for Enter). Letters of two cases
stand for the key table; digits and separators go the way of a small letter.
`libevdev_next_event` returning SYNC ends the inner loop like "nothing came".
`NothingInvented` maps the places of what was delivered, and of what is in the buffer, into the
places of what was scanned, in their order: nothing is made up, doubled or moved.
`Lifecycle` has a program counter for main and a place for each thread (at its loop, in
the engine, broadcasting with or without `e->lock`, in a callback, listing); every part may
fail to start, and the signal may come at any time after it has been set up. Who may give scans (the
debug endpoint answers only if there is no scanner, main.c:70) is one assignment and left out.

## 3. Runs

`CHECK_DEADLOCK FALSE` is set wherever the bounds stop the system: when the
last session, batch or message is used up, no call may be left. `lifecycle` has no bound
and checks deadlock: the process stops in "exit" only.

| Run | Question | Result |
|---|---|---|
| `engine_full` | every operation, with an item and a mono bin that do not exist yet, two work sessions | 8 invariants hold, and the engine implements `WorkSessionLedger` |
| `engine_scan` | scanning with a crate of two bolts, deletion of rows, commits, crashes, a fair clock and ticker | the over-removal guard, `ScansConserved`, `CommitAppliesInFlight`, `RemovalsTimeOut`, `IdleSessionFreezes` hold |
| `catalog` | paths, tags, items, cut short, frozen, committed and rolled back | 4 invariants hold |
| `settings` | any number sent or in the file, wrapped, saved or not, crashes, freezes, the clock set | 4 properties hold |
| `http` | requests of all calls in any order, stale and repeated, quantities too large | 3 properties hold |
| `ws_feed` | two broadcasters, two clients, a ring of 2, 5 messages | 4 invariants, `SentInOrder`, `ClientsCatchUp` hold |
| `live_view` | two threads that change and announce, a panel that reads back | `NoSilentStaleness`, `ViewCatchesUp` hold |
| `scanner` | two codes through a queue of four events | 3 properties hold |
| `lifecycle` | failed starts, the signal at any time, all threads anywhere | 3 properties hold |
| `docs_manual_over_removal` | can the stock become negative? | yes: a manual removal next to a live one |
| `docs_staged_items` | does an item scanned before a bin go to that bin? | not if the bin has a bin-session in the background |
| `docs_accepted_not_buffered` | is what was answered 200 in the buffer? | not if its INSERT is refused |

The `docs_*` runs end with a counterexample, and "findings" in `PROJECT.json` quotes the
line each contradicts.

**Other divergences**, plain from the code and without a run of their own:

- `update_operation_quantity` (engine.c:755) validates nothing, so it can over-remove too:
  the same `StockNeverNegative`.
- A commit drops what is staged (engine.c:513), although the comment at engine.c:508 says that
  nothing in flight is lost.
- `ensure_tag` answers with the id of whatever was inserted last when its INSERT is refused
  (engine.c:823), as for a scope that was rolled back since; `engine.h:81` has it find or create.
- A scan that comes just after the timeout of its removal is staged, for addition (engine.c:341).
- `config_load` takes any number of the file (config.c:47, :59), 0, negative and wrapped ones
  too, which `PUT /api/settings` refuses. With one that is not positive every removal is closed
  within a second. `TypeOK` of `Settings` says that this is the only way to such a timeout.
- A timeout longer than the ten minutes of idleness (WORK_SESSION_IDLE_SECONDS), which a client
  may set, never comes into play unattended: the session freezes first (engine.c:353), and the
  ticker closes nothing in a frozen session (:332). The removal stays open until somebody
  restores, commits or rolls back. `FreezeClosesFirst` says that shorter ones do close, and
  `RemovalsTimeOut` of `Settings` that being left frozen is the only way to stay open.
- A crash can lose several bin-sessions, not at most one (`scanning-grammar.md:345`).
- Scans change mono bins (`scanning-grammar.md:215`), and nothing checks what is put into
  one (`:128`; `mono_item_id` is never read).
- A frozen session accepts deletions and changes but no new manual operation
  (`scanning-grammar.md:381`; engine.c:686).
- Items staged without a bin are not kept for a later scan to claim, as engine.h:59 has it,
  once a session is over.
- `config.h` says that a malformed file is logged; `json_int_field` falls back in silence.
- `create_item` accepts a barcode with the prefix of a bin.
- A client that fell behind the ring and finds only errors left keeps its old view until
  the next change (ws_server.c:29-33 takes any later message to do): `missed` in `LiveView`.
- A field whose name turns up as a value, say a bin labelled "kind", is read wrongly
  (http_server.c:66-68 knows the lookup to be simple). `FieldsAsSent` leaves such a field out
  (`NoStringIs`) and shows that no other field of the body is affected.
- A quantity of 2^31 or more is checked as a long and cast (http_server.c:507, 528): the engine is
  called with another number, which is buffered if it happens to be positive.

**Why the properties are not shallow.** `SessionMirrorsTable` relates memory, table and
singleton index over freezes and crashes. `NoDanglingReferences` is what makes the
unchecked INSERTs harmless, and it needs the whole of the rollback to hold.
`ScansConserved` follows every unit from its scan through staging and bin-sessions into the
buffer, bin by bin, and `CommitAppliesInFlight` from there into the stock;
`AuditIsCommittedBuffer` and `StockReplaysAudit` account for it afterwards. What is staged when the
session ends is outside them: commit, rollback and a restart drop it. `ScansConserved` says
that a staged item stays staged when the focus returns to a bin; that the documentation wants it
added is the finding of `docs_staged_items`.
`ScanRemovalCovered` is the
over-removal guard as an invariant of the scanner's part of the interface: with the
panel's manual and update calls it is false, which is the first finding. `NoSilentStaleness`
fails for every order of unlock, broadcast and read that loses a change.

**Bounds.** `MaxSession` work sessions, `MaxBatch` batches of rows, `MaxPending` of an entry
not yet buffered, `MaxSeq` messages. Two sessions are enough for what one leaves to the
next (its status, bins, items, rows, memory). Two bins give focus and background. A
second batch lets a row be buffered before a removal is judged. `BatchRoom` keeps one
batch for every open bin-session, so that the bound never prevents a close, and
without it the liveness results would be the bound's. `MaxPending` is 2 in `engine_scan`,
where a crate counts twice, and 1 in `engine_full`, which has no packs (their expansion is
in `engine_scan`, their part of every proof is general). `Quantities` of the panel is 2 in `engine_full`,
where scans insert ones: a row then changes its quantity, and an addition must be
committed before a removal by hand is accepted. The timeout of a removal is one tick; a
session idles for two in `engine_scan`, so that a removal can expire before it freezes.
`catalog` has paths of two segments over two names, `DepthGuard` 2 (the deepest path is
exactly as deep as the rounds allow), two items and two categories, so that ids are given
out again in the second session. `settings` has `IntLimit` 8: of the numbers sent 17 wraps to
a valid int, 8, 9 and 16 to none; of those in the file 12 wraps to a negative one, 22 to a
valid one, and 0 is 0. Sessions idle for 4 there, so that there are timeouts below (1, 3), above
(5, 6), and the clock is set at most twice, by up to 3 back and 2 ahead. `http` has `IntLimit` 4, with a
quantity of 9 that arrives as 1.
The ring of two wraps twice with 5 messages, so a client can fall behind by more than
a ring. `live_view` has one client, as two do not finish in reasonable time; clients do not
interact but through the ring, and the proof of `NoSilentStaleness` is for any number. Its
4 messages on a ring of 2 let the news of a change be pushed out by errors. `scanner` has a
limit of two characters, with a code of three, and a queue of four events, fewer than a
capital and Enter need. No symmetry is used.

**Fairness.**

- Engine: the clock advances and the ticker thread runs (weak fairness of
  `Tick` and `Ticker`); nobody has to scan, restore or commit. The loop has no exit but
  shutdown, and no caller keeps the mutex. The same in `Settings`, where nobody has to
  restore a frozen session either.
- Feed: weak fairness of the steps its threads take without waiting, and strong fairness of a
  poll that reports a given watched client, since a connection that keeps accepting data is
  reported again and again. A connection that stops accepting data is closed by TCP in the
  end, which `ClientsCatchUp` allows. The one-second timeout of the poll gets no fairness:
  `ClientsCatchUp` shows that the feed does not need it.
- `LiveView`: besides, a call that has changed the state gets to its broadcast, and a panel
  that has a reason to look asks, is answered and shows.
- Scanner: the thread reads what is there. Nothing is assumed of the device.
- Lifecycle: every thread gets its turn, a mutex is granted in the end to one who waits
  (strong fairness of taking a lock), and the device pauses now and then, as scan_loop looks
  at its flag only when nothing came.

## 4. Proofs

`tlapm` checks every module that holds theorems. Nothing is assumed but what the ASSUME of each
module says of its constants, which TLC evaluates in the runs, and a hypothesis in three theorems:
`ScansOnly` in `ScanRemovalCorrect`, `MaxPath <= DepthGuard` in `UndoneCorrect`, and in
`PositiveCorrect` that the numbers in the file are positive. Two of the
ASSUMEs say more than that bounds are numbers: `HttpAssumption`, that a body is a sequence of
fields whose names differ (an object made by a client's JSON library), and `ScannerAssumption`, that
a code is a non-empty sequence of characters and that the kernel's queue holds two events or more
(it needs room for its mark and the newest event).

| Theorem | Property, for all constants |
|---|---|
| `GrammarEngineProofs!TypeCorrect` | `TypeOK` |
| `GrammarEngineProofs!FocusCorrect` | `FocusHasSession` |
| `GrammarEngineProofs!SessionCorrect` | `SessionMirrorsTable` |
| `GrammarEngineProofs!InFlightCorrect` | `NothingLeftInFlight` |
| `GrammarEngineProofs!AuditCorrect` | `AuditIsCommittedBuffer` |
| `GrammarEngineProofs!StockCorrect` | `StockReplaysAudit` |
| `GrammarEngineProofs!LedgerImplemented` | `ImplementsLedger`, the refinement |
| `GrammarEngineStockProofs!ReferencesCorrect` | `NoDanglingReferences` |
| `GrammarEngineStockProofs!RollbackCorrect` | `NoTraceOfRolledBack` |
| `GrammarEngineStockProofs!ScanRemovalCorrect` | `ScanRemovalCovered`, given `ScansOnly` |
| `GrammarEngineStockProofs!CommitCorrect` | `CommitAppliesInFlight` |
| `GrammarEngineStockProofs!ScansCorrect` | `ScansConserved` |
| `LiveViewProofs!TypeCorrect` | `TypeOK` |
| `LiveViewProofs!RingCorrect` | `SlotHoldsItsMessage` |
| `LiveViewProofs!OrderCorrect` | `SentInOrder` |
| `LiveViewProofs!RequestsCorrect` | `NoLostRequest` |
| `LiveViewProofs!WakeupsCorrect` | `NoRequestSleptOn` |
| `LiveViewProofs!LiveTypeCorrect` | `LiveTypeOK` |
| `LiveViewProofs!PanelsCorrect` | `NoSilentStaleness` |
| `CatalogProofs!TypeCorrect` | `TypeOK` |
| `CatalogProofs!ScopeCorrect` | `LinksInScope` |
| `CatalogProofs!PathCorrect` | `PathAnswered` |
| `CatalogProofs!UndoneCorrect` | `NoTraceOfRolledBack`, given `MaxPath <= DepthGuard` |
| `ScannerProofs!DeliveredCorrect` | `DeliveredAsScanned` |
| `ScannerProofs!InventedCorrect` | `NothingInvented` |
| `SettingsProofs!TypeCorrect` | `TypeOK` |
| `SettingsProofs!PositiveCorrect` | the timeout is positive if those written into the file are |
| `SettingsProofs!AcceptedCorrect` | `AcceptedIsInForce` |
| `SettingsProofs!FreezeCorrect` | `FreezeClosesFirst` |
| `HttpServerProofs!TypeCorrect` | `TypeOK` |
| `HttpServerProofs!FieldsCorrect` | `FieldsAsSent` |
| `HttpServerProofs!FinishedCorrect` | `FinishedUntouched` |
| `LifecycleProofs!UseCorrect` | `UsesOnlyLive` |
| `LifecycleProofs!ExitCorrect` | `NothingLeftRunning` |

Every invariant and every action property that the passing runs check is proved, and so is the
refinement. What the runs alone show is liveness.

**Types and session.** `TypeOK` is not inductive as it stands: a focused bin without a
bin-session would put a scan into a list with no direction, and quantities are cardinalities,
which are numbers only for finite sets. The invariant proved is
`TypeInv == TypeOK /\ FiniteTables /\ FocusHasSession`, from which the first two
theorems follow. `SessionMirrorsTable` then needs that an open or frozen row is the
engine's own before a restart re-attaches.

**Audit and ledger.** For `AuditIsCommittedBuffer` the point is that
no step touches a row of a session that is not the current one. A commit must also not
audit a row twice: `BatchOfOneSession` says that the rows of one batch belong to one
session, so that rows of different sessions never look alike in the audit log, and
`SameCommitted` that every step but commit leaves the committed rows alone. `StockReplaysAudit` adds to that
the counting lemma: the rows a commit audits are new, so the quantities of the log are
the old ones plus theirs. Together they are `AuditInv`. The refinement adds `RowsOfOpened` (no row belongs to a session that
has not been opened, so a new session starts with nothing pending) in `LedgerInv`; every
step then is one of the ledger's or leaves `Phase`, the pending rows, stock and log alone, a
restart among the latter.

**References and rollback.** Only a rollback deletes bins and items; all other calls keep
those there are and create new ones for their own session. A row that is written refers to
what exists then. What remains is that a rollback deletes nothing a surviving row needs, which
the foreign keys see to, and that they refuse it nothing: `OwnCreations` says that a row of
another session never refers to what this one created, since it was written when that did not
exist, and `CreatedInOpened` that nothing bears the mark of a session not yet opened. `TraceInv` is
the conjunction, with `FirstItemsStay` for the packs and the mono items.

**Stock.** `Claimed(b, i)` is what a session's rows remove of an item in a bin plus what a live
removal there holds. The inductive part is `Covered`: the claim never exceeds the stock. A scan
adds at most what the guard says is left (`ListQtyAdded`: of each item it adds one entry only),
closing a list moves at most as much to the rows as it held (an injection of units), even when
a crash lets only part of them through, and a commit takes out at most the claim. It needs
`ScansOnly`, that the panel's manual and update calls are not used; the first finding shows that it
has to. `CommitCorrect` and `ScansCorrect` need equality instead: by `NoDanglingReferences` no INSERT of a
close is refused and by `IsNextBatch` its rows are new, so that the units of a list and of its
rows are in bijection (`ClosedAmount`, `BufferedAndClosed`). For `ScansCorrect` there is besides one lemma for
each kind of scan: `StagedStep` (at most one bin-session opens and takes all that is staged, or all of it
stays) and `ItemScanStep`, which rests on `ListQtySum`: a list grows by exactly what the barcode stands for.

**Feed.** `RingCorrect` rests on `next_seq - oldest_seq <= RING_CAPACITY`: within such a
window two sequence numbers never share a slot, which is a lemma about `%`.
`SentInOrder` uses it to know that the slot holds the message asked for, with `Positions`:
a connected client's `next_wanted` is the message after the last it was sent.
`NoLostRequest` and `NoRequestSleptOn` are inductive given `TypeOK`, which holds the fact
that connections are closed by the service thread only.

**Panels.** A step of the composition is a step of the feed or leaves it alone
(`FeedImplemented`), so the feed's theorems hold in it. `NoSilentStaleness` is strengthened by a
second half of `Fresh`: an answer that is out of date before the panel gets it must be followed by
something too, or showing it would be the last word. News leaves a client's window only by a
write, which brings it (`dirty`) or skips it (`missed`); a callback with nothing to write skips
nothing, since a client behind the ring always has something to be sent.

**Catalog.** `CatalogInv` is `TypeOK` with three facts about time. `OneAtATime`: of the sessions
before the last, all are over. `RowsStarted`: a row names a session that was opened. `Older`: a
row refers to rows of its own session or an earlier one only. So the session that is rolled back is the
last, and what refers to its rows is its own and goes first; this is why no DELETE is refused and no
reference is left dangling. `LinksInScope` needs that a rollback does not tear the chain between an
item and the scope of its tag: going up a chain rows only get older (`ChainOlder`), so all of it is
as old as the item's category, which stays. `PathAnswered` composes the part of the path that was found with the
part that was inserted, and needs that no sibling of the first inserted segment bears its name, which is
what finding none means. For `NoTraceOfRolledBack` the rounds of leaf-first deletes must reach the top:
`Shallow` says that every category has a depth of at most `MaxPath`, one more than its parent's,
and a chain of rows still held after `DepthGuard` rounds would be deeper than that. A client may
ask for a deeper path, and then the theorem says nothing: see section 5.

**Scanner.** Without a loss, what the reader has yet to read takes it exactly to where the device is.
`Lossless` says so: there is a run over the queued events (`Run`) from the reader's shift, buffer and
deliveries to those that the device's place in the code stands for (`TypedShift`, `TypedBarcode`,
`TypedDelivered`). An event sent makes the run longer by a step that agrees (`AfterEvent`, for small
letters, capitals and Enter, cut or not), an event read makes it shorter, a repetition adds a step
that changes nothing. Deliveries only grow along a run (`RunGrows`), which gives
`DeliveredAsScanned`. `NothingInvented` has to hold after losses too, and the invariant is another one:
`Traced` keeps two maps at once, from the characters delivered or buffered and from the presses queued, into
the places already struck by the device. An overrun forgets some of the queued presses, and
the order of the rest is left: that is all there is to it, wherever the queue is cut.

**Settings.** `TypeOK` is inductive; its core is that the cast of any `long` is an int, that the engine's
second check is made after it, and that a timeout loads as itself. It leaves the timeout a number of the
edited file as the only other case, and with none that is not positive `PositiveCorrect` follows. `FreezeClosesFirst` needs
`AgesOK`: as long as the clock was not set, an open session with an open removal has been idle at most a second
longer than the removal (`last_activity_at` is written first), through caps, restores and restarts; when it is
idle for the whole limit the removal is at its timeout, one at least shorter, and is closed in the same pass.

**HttpServer, Lifecycle.** `HttpServer!TypeOK` is inductive;
`FieldsAsSent` needs that for a key that no string of the body equals, the first mention is the
name of its field, and takes the cast of `Call` into account. `Lifecycle` has the invariant `LifeInv`: the
parts form a stack (`Stacked`), `Progress` says which part main has got to in starting or
stopping, and `Attended` that a thread lives only as long as its part.

**Induction.** The induction theorems of the library take an operator as a parameter and cannot be used
by the provers at hand. Where an argument goes by induction over a number (up a chain of categories, along
the events of a queue), it is made with a least counterexample: `LeastNat` derives from the
well-foundedness of `<` that a set of naturals has a least member. This serves for statements about
functions and sequences that are given; no recursive definition is used anywhere.

**Model-checked only.** Liveness, for which these provers lack ENABLED: `RemovalsTimeOut` (twice),
`IdleSessionFreezes`, `ClientsCatchUp`, `ViewCatchesUp`, `EveryCodeArrives`, `SignalEndsProcess`.

## 5. Not modelled

- **JSON and HTTP as text**: gathering a body from its parts, routes, escapes, the output, the
  listings (http_server.c 213-376), which read without `e->lock` but change nothing. A work
  session's entry in a status is cut at 512 bytes; the context of a request that is aborted leaks.
- **What is not checked and would need a failing library call**: writing the settings after
  the file was opened (a full disk: `AcceptedIsInForce` would not hold), `pthread_create`, `lws_write`,
  any SQLite statement but for its constraints. The code would go on with memory and tables apart.
- **A leak**: `db_open` leaves the handle of a failed `sqlite3_open` behind (db.c:29-31). `OpenDb` has it
  create nothing, and `NothingLeftRunning` speaks of what was created; the process ends with it anyway.
- **SQLite**: a statement, or BEGIN..COMMIT, is taken to be atomic and durable.
- **Scanner**: the table of keys (a digit with shift stays a digit), and a device that is
  unplugged, after which the thread keeps polling.
- **Width of quantities** in the engine: sums and products near 2^31. `HttpServer` and `Settings` have the
  casts where numbers come in; a `long` that wraps to another positive int is accepted as that.
- **A POST sent twice** does its work twice; the interface has nothing against it and no property speaks of it.
- **Category paths deeper than 64**: their upper part survives a rollback, and scopes above are not
  seen. `catalog` has the deepest path that is still covered.
- **Front end** (`App.tsx` keeps no state the backend depends on), **printing** (a third-party
  server), **access control** (a design document).

## 6. What could follow

Quantities of the engine with the width of an int; the body's gathering and the routes in `HttpServer`; a model of failing statements, if the code comes
to check them.
