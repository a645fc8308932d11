------------------------------ MODULE MCScanner ------------------------------
(* Codes in lower and in mixed case, of which one is longer than the limit. *)
EXTENDS Scanner

MixedCodes == {<<"a", "B">>, <<"b">>, <<"A", "a", "b">>}
=============================================================================
