----------------------- MODULE MCGrammarEngineLedger -----------------------
EXTENDS GrammarEngineLedger, MCGrammarEngine
=============================================================================
