-------------------------- MODULE MCGrammarEngine --------------------------
(* Small instances of GrammarEngine for TLC: one bin with stock, one mono   *)
(* bin the panel may create, one known item, one the scanner may discover.  *)
EXTENDS GrammarEngine

CONSTANTS shelf, box, bolt, nut, crate

NoContents == [p \in {} |-> 0]

MCStock == [c \in Bins \X Items |-> IF c = <<shelf, bolt>> THEN 1 ELSE 0]

(* A crate holds two bolts.                                                 *)
CrateContents ==
    [p \in {crate} |-> [i \in Items |-> IF i = bolt THEN 2 ELSE 0]]

CrateStock == [c \in Bins \X Items |-> IF c = <<shelf, bolt>> THEN 3 ELSE 0]

BoxOfNuts == [b \in {box} |-> nut]
NoMono    == [b \in {} |-> 0]
=============================================================================
