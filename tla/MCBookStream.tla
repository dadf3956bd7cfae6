---------------------------- MODULE MCBookStream ----------------------------
(***************************************************************************)
(* Registered symbols for TLC instances of BookStream.                     *)
(***************************************************************************)
EXTENDS BookStream

CONSTANTS AAPL, GOOGL

OneSymbol == <<AAPL>>
TwoSymbols == <<AAPL, GOOGL>>
=============================================================================
