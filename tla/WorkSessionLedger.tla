------------------------- MODULE WorkSessionLedger -------------------------
(***************************************************************************)
(* What the work session promises (docs/scanning-grammar.md, section 6):   *)
(* the stock changes in one way only, when a person applies a session, and *)
(* then by exactly the rows that enter the audit log at that moment, among *)
(* them every row that was pending.  Nothing pending outlives its session, *)
(* freezing and restoring lose nothing, and how the rows came to be        *)
(* pending (scans, bin-sessions, timeouts, restarts) does not matter here. *)
(***************************************************************************)
EXTENDS Integers, FiniteSets

CONSTANTS Bins, Items, Stock0

VARIABLES
    phase,      \* "closed", "open" or "frozen"
    pending,    \* rows waiting for a decision: op, bin, item, qty, ...
    stock,
    audit       \* rows applied

ledger == <<phase, pending, stock, audit>>

Units(rows)  == Cardinality(UNION {{r} \X (1 .. r.qty) : r \in rows})
Moved(rows, op, c) == Units({r \in rows : r.op = op /\ <<r.bin, r.item>> = c})

Init ==
    /\ phase = "closed"
    /\ pending = {}
    /\ stock = Stock0
    /\ audit = {}

Open ==
    /\ phase = "closed" /\ phase' = "open"
    /\ pending' = {}
    /\ UNCHANGED <<stock, audit>>

(* A row is added, changed or removed, by whatever means. *)
Edit ==
    /\ phase # "closed"
    /\ UNCHANGED <<phase, stock, audit>>

Freeze ==
    /\ phase = "open" /\ phase' = "frozen"
    /\ pending \subseteq pending'
    /\ UNCHANGED <<stock, audit>>

Restore ==
    /\ phase = "frozen" /\ phase' = "open"
    /\ UNCHANGED <<pending, stock, audit>>

Apply ==
    /\ phase # "closed" /\ phase' = "closed"
    /\ audit \subseteq audit'
    /\ pending \subseteq audit' \ audit
    /\ stock' = [c \in Bins \X Items |->
                    stock[c] + Moved(audit' \ audit, "add", c)
                             - Moved(audit' \ audit, "remove", c)]
    /\ pending' = {}

Discard ==
    /\ phase # "closed" /\ phase' = "closed"
    /\ pending' = {}
    /\ UNCHANGED <<stock, audit>>

Next == Open \/ Edit \/ Freeze \/ Restore \/ Apply \/ Discard

Spec == Init /\ [][Next]_ledger
=============================================================================
