------------------------- MODULE MCStrategyRuntime -------------------------
(***************************************************************************)
(* A market maker and another strategy for TLC.                            *)
(***************************************************************************)
EXTENDS StrategyRuntime, TLC

Intend(side, quantity) ==
    [side |-> side, quantity |-> quantity, own |-> TRUE, cheap |-> TRUE]

\* A buy with a sell after it, and three orders to be refused: one that is too
\* large, one in another's name and one that is too dear.
SomeProposals ==
    {<<>>,
     <<Intend("BUY", 2), Intend("SELL", 1)>>,
     <<Intend("SELL", 3), [Intend("SELL", 1) EXCEPT !.own = FALSE],
       [Intend("SELL", 1) EXCEPT !.cheap = FALSE]>>}

Symmetry == Permutations(OrderId)
=============================================================================
