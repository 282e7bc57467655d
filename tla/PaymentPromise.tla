--------------------------- MODULE PaymentPromise ---------------------------
(***************************************************************************)
(* What the wallet apps promise about payments whose result is unknown: a  *)
(* different transaction of a wallet is offered to the network only when   *)
(* every transaction that wallet offered before was accepted.              *)
(***************************************************************************)
CONSTANTS
    Txs,          \* the signed transactions
    Payer         \* the wallet that signed each transaction
VARIABLES
    offered,      \* the transactions handed to the node at least once
    accepted      \* those the node took into its mempool or chain

Init == offered = {} /\ accepted = {}

Offer(t) ==
    /\ \A u \in offered \ {t} : Payer[u] = Payer[t] => u \in accepted
    /\ offered' = offered \cup {t}
    /\ UNCHANGED accepted

Accept(t) ==
    /\ t \in offered
    /\ accepted' = accepted \cup {t}
    /\ UNCHANGED offered

Spec == Init /\ [][\E t \in Txs : Offer(t) \/ Accept(t)]_<<offered, accepted>>
=============================================================================
