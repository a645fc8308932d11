---------------------------- MODULE GrammarDocs ----------------------------
(***************************************************************************)
(* What docs/scanning-grammar.md says of the engine and the engine does    *)
(* not do: violated in the run that checks it.                             *)
(***************************************************************************)
EXTENDS MCGrammarEngine

(* docs/scanning-grammar.md, 4.3: the stock of an item in a bin cannot be  *)
(* driven below zero.  Neither a manual removal, which does not count the  *)
(* live bin-session, nor an edit of a row's quantity keeps to that.        *)
StockNeverNegative == \A c \in Bins \X Items : bin_stock[c] >= 0

(* docs/scanning-grammar.md, 4: an item scanned before a bin is added to   *)
(* that bin.  When the bin already has a bin-session, one of additions at  *)
(* that, its scan only moves the focus: what was staged stays staged, goes *)
(* to some bin opened later, or is dropped by the commit.                  *)
StagedGoToBinScanned ==
    [][\A b \in Bins :
          BinScan(b) /\ focused_bin_id # b /\ session_op[b] # "remove" =>
             \A i \in Items :
                InFlightNet(b, i)' = InFlightNet(b, i) + ListQty(unassigned_items, i)]_vars
=============================================================================
