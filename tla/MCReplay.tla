------------------------------ MODULE MCReplay ------------------------------
\* Values for TLC: two senders, one with two transactions; one transaction may
\* carry an authorization of the other sender.
EXTENDS Replay

Tx(sender, nonce, authority) == [sender |-> sender, nonce |-> nonce, authority |-> authority]
MCTxs == {Tx("a", 0, None), Tx("a", 1, None), Tx("b", 0, "a")}

\* Bound: executions are long only where the node has the one transaction and
\* stays on its chain; elsewhere they are over after a call, a step and an end.
LongAlone == Len(steps) + Len(calls) > 2 => reorgs = 0 /\ Len(chain) = 1 /\ Len(TxsOf(chain)[1]) = 1
=============================================================================
