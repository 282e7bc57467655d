-------------------------- MODULE MCStatusCollector --------------------------
(***************************************************************************)
(* A tree of seven blocks: a1 a2 a3 a4 on the genesis block, and b2 b3 on   *)
(* a1.  The branch of b2 has more work than the longer one of a3, so that   *)
(* the chain can get shorter; b3 can be overtaken by a4, which brings a2    *)
(* back.  The payment s is mined in either branch, at different heights; j  *)
(* is a joint payment that returns more to the treasury than it takes.      *)
(***************************************************************************)
EXTENDS StatusCollector

CONSTANTS g, a1, a2, a3, a4, b2, b3

MCBlocks == {g, a1, a2, a3, a4, b2, b3}
MCParent == [b \in MCBlocks \ {g} |->
               CASE b = a1 -> g [] b = a2 -> a1 [] b = a3 -> a2 [] b = a4 -> a3
                 [] b = b2 -> a1 [] b = b3 -> b2]
MCWork == [b \in MCBlocks |->
             CASE b = g -> 0 [] b = a1 -> 1 [] b = a2 -> 2 [] b = a3 -> 3
               [] b = b2 -> 4 [] b = b3 -> 5 [] b = a4 -> 7]

Reward(id) == [txid |-> id, coinbase |-> TRUE, ins |-> {}, outs |-> {[n |-> 1, value |-> 3]}]
Pay(id, ins, outs) == [txid |-> id, coinbase |-> FALSE, ins |-> ins, outs |-> outs]

s == Pay("s", {<<"r1", 1>>}, {[n |-> 0, value |-> 1]})
j == Pay("j", {<<"s", 0>>}, {[n |-> 0, value |-> 2], [n |-> 1, value |-> 2]})

MCTxs == [b \in MCBlocks |->
            CASE b = g -> <<>>
              [] b = a1 -> <<Reward("r1")>>
              [] b = a2 -> <<Reward("r2"), s>>
              [] b = a3 -> <<Reward("r3")>>
              [] b = a4 -> <<Reward("r4"), j, Pay("p", {<<"r2", 1>>, <<"j", 1>>}, {})>>
              [] b = b2 -> <<Reward("q2")>>
              [] b = b3 -> <<Reward("q3"), s>>]
=============================================================================
