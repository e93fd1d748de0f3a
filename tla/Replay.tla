------------------------------- MODULE Replay -------------------------------
\* replay_transaction: the transaction is asked for by hash, its block by number,
\* and the transactions before it are executed on the state of the parent block,
\* which is read, by number, whenever the execution needs a part of it. Between
\* any two of these requests the node may have moved to another chain.
\*
\* The chain is the sequence of the node's blocks after the genesis; a block is
\* known by its fork, the number of the reorganisation that brought it. A state
\* is what it makes of nonces: a transaction counts for its sender and, when it
\* carries an authorization (EIP-7702), for the account that signed it.
EXTENDS Inspector, FiniteSets

CONSTANTS
    None,
    Txs,                \* [sender, nonce, authority] (authority may be None)
    MaxBlocks, MaxInBlock, MaxReorgs

ASSUME ReplayAssumption == {MaxBlocks, MaxInBlock, MaxReorgs} \subseteq Nat
ASSUME TxsAssumption ==
    \A tx \in Txs : /\ tx = [sender |-> tx.sender, nonce |-> tx.nonce, authority |-> tx.authority]
                   /\ tx.nonce \in Nat
ASSUME NoneAssumption == None \notin {"pending", "no block", "rpc", "invalid", "panic"}

VARIABLES
    chain, reorgs,
    pc,                 \* the request or the execution the replay is at
    asked,              \* the transaction whose hash was given
    found,              \* where the node said it is
    block,              \* the block the node gave
    nonces,             \* accounts the database knows, fetched or changed
    parents,            \* the blocks before the block, as known to what was fetched
    executed,           \* transactions executed so far, as executed
    why                 \* why the replay failed

node == << chain, reorgs >>
vars == << chain, reorgs, pc, asked, found, block, nonces, parents, executed, why, execution >>

-----------------------------------------------------------------------------
\* Chains

\* The transactions of each block.
TxsOf(blocks) == [i \in DOMAIN blocks |-> blocks[i].txs]
Authority(tx) == IF tx.authority = None THEN {} ELSE {tx.authority}

\* What a sequence of transactions adds to the nonce of an account.
NonceAfter(txs, account) ==
    Cardinality({i \in DOMAIN txs : txs[i].sender = account})
    + Cardinality({i \in DOMAIN txs : account \in Authority(txs[i])})

\* What the transactions of a sequence of blocks make of it.
Positions(layout) == UNION {{i} \X DOMAIN layout[i] : i \in DOMAIN layout}
NonceOn(layout, account) ==
    Cardinality({p \in Positions(layout) : layout[p[1]][p[2]].sender = account})
    + Cardinality({p \in Positions(layout) : account \in Authority(layout[p[1]][p[2]])})

\* Every transaction has the nonce that those before it made of its sender's.
Legal(layout) ==
    \A i \in DOMAIN layout : \A j \in DOMAIN layout[i] :
        LET tx == layout[i][j] IN
        tx.nonce = NonceOn(SubSeq(layout, 1, i - 1), tx.sender)
                   + NonceAfter(SubSeq(layout[i], 1, j - 1), tx.sender)

\* The transactions of the blocks of a chain.
Layouts ==
    LET contents == UNION {[1..n -> Txs] : n \in 0..MaxInBlock}
    IN  {layout \in UNION {[1..n -> contents] : n \in 0..MaxBlocks} : Legal(layout)}

Chain(layout, fork) == [i \in DOMAIN layout |-> [fork |-> fork, txs |-> layout[i]]]

\* The node's chain is another one from some block on.
Reorg ==
    /\ reorgs < MaxReorgs
    /\ reorgs' = reorgs + 1
    /\ \E kept \in 0..(Len(chain) - 1), layout \in Layouts :
           /\ kept <= Len(layout) /\ \A i \in 1..kept : layout[i] = chain[i].txs
           /\ chain' = [i \in DOMAIN layout |->
                          IF i <= kept THEN chain[i] ELSE [fork |-> reorgs', txs |-> layout[i]]]
    /\ UNCHANGED << pc, asked, found, block, nonces, parents, executed, why, execution >>

-----------------------------------------------------------------------------
\* Requests

Going(next) == pc' = next /\ why' = why
Fails(reason) ==
    /\ pc' = "failed" /\ why' = reason
    /\ UNCHANGED << node, asked, found, block, nonces, parents, executed, execution >>

Init ==
    /\ chain \in {Chain(layout, 0) : layout \in Layouts} /\ reorgs = 0
    /\ pc = "transaction" /\ asked \in Txs
    /\ found = None /\ block = None
    /\ nonces = [s \in {} |-> 0] /\ parents = {} /\ executed = << >> /\ why = None
    /\ EvmInit

\* Where a transaction is on a chain: [number, index], none when it is pending.
Places(tx) == {p \in [number : DOMAIN chain, index : 1..MaxInBlock] :
                 p.index <= Len(chain[p.number].txs) /\ chain[p.number].txs[p.index] = tx}

GetTransaction ==
    /\ pc = "transaction"
    /\ IF Places(asked) = {} THEN Fails("pending")
       ELSE /\ \E p \in Places(asked) :
                  found' = [number |-> p.number, index |-> p.index, fork |-> chain[p.number].fork, at |-> reorgs]
            /\ Going("block")
            /\ UNCHANGED << node, asked, block, nonces, parents, executed, execution >>

\* Mutant of GetBlock: it waits for a block of that number.
MutGetBlock ==
    /\ pc = "block" /\ found.number <= Len(chain)
    /\ block' = [fork |-> chain[found.number].fork, txs |-> chain[found.number].txs,
                 parent |-> SubSeq(chain, 1, found.number - 1)]
    /\ Going("chain id")
    /\ UNCHANGED << node, asked, found, nonces, parents, executed, execution >>

GetBlock ==
    /\ pc = "block"
    /\ IF found.number > Len(chain) THEN Fails("no block")
       ELSE /\ block' = [fork |-> chain[found.number].fork, txs |-> chain[found.number].txs,
                         parent |-> SubSeq(chain, 1, found.number - 1)]
            /\ Going("chain id")
            /\ UNCHANGED << node, asked, found, nonces, parents, executed, execution >>

GetChainId ==
    /\ pc = "chain id" /\ Going("prior")
    /\ UNCHANGED << node, asked, found, block, nonces, parents, executed, execution >>

\* Any request may fail, those of the database too.
Fault == pc \notin {"done", "failed"} /\ Fails("rpc")

-----------------------------------------------------------------------------
\* Execution

\* Mutant of ParentNumber: the state is that of the block itself.
MutParentNumber == found.number

\* The number whose state is read: that of the block before.
ParentNumber == found.number - 1
HasParent == ParentNumber <= Len(chain)
Parent == SubSeq(chain, 1, ParentNumber)

\* Whatever an execution reads for the first time comes from the node's parent
\* block of that moment.
Read ==
    /\ pc \in {"prior", "target"} /\ HasParent
    /\ parents' = parents \cup {Parent}
    /\ UNCHANGED << node, pc, asked, found, block, nonces, executed, why, execution >>

\* The fields the replay passes on. It drops the type, the access list and the
\* blobs and their fee as well; they change the gas of an execution, which is not
\* counted here.
AlloyTxToRevmTx(tx) == [tx EXCEPT !.authority = None]

Known(account) == account \in DOMAIN nonces
NonceOf(account) == IF Known(account) THEN nonces[account] ELSE NonceOn(TxsOf(Parent), account)

\* Begins to execute the next transaction of the block: the account of the
\* sender is read, and its nonce has to be the one of the transaction.
Begins(tx, next) ==
    IF ~Known(tx.sender) /\ ~HasParent THEN Fails("rpc")
    ELSE IF tx.nonce # NonceOf(tx.sender) THEN Fails("invalid")
    ELSE /\ parents' = IF Known(tx.sender) THEN parents ELSE parents \cup {Parent}
         /\ nonces' = [s \in DOMAIN nonces \cup {tx.sender} |->
                          IF s = tx.sender THEN NonceOf(s) + 1 ELSE nonces[s]]
         /\ executed' = Append(executed, AlloyTxToRevmTx(tx))
         /\ Going(next)
         /\ UNCHANGED << node, asked, found, block, execution >>

\* Mutant of Prior: the transaction counts as one of those before it.
MutPrior == Len(executed) < found.index /\ Len(executed) < Len(block.txs)

Prior == Len(executed) < found.index - 1 /\ Len(executed) < Len(block.txs)

ReplayPrior == pc = "prior" /\ Prior /\ Begins(block.txs[Len(executed) + 1], "prior")

\* Mutant of StartTarget: the last transaction of the block is traced.
MutStartTarget == pc = "prior" /\ ~Prior /\ block.txs # << >> /\ Begins(Last(block.txs), "target")

\* The index comes from one request, the block from another.
StartTarget ==
    /\ pc = "prior" /\ ~Prior
    /\ IF found.index > Len(block.txs) THEN Fails("panic") ELSE Begins(block.txs[found.index], "target")

InspectTarget == pc = "target" /\ EvmNext /\ UNCHANGED << node, pc, asked, found, block, nonces, parents, executed, why >>

Finish ==
    /\ pc = "target" /\ Over /\ Going("done")
    /\ UNCHANGED << node, asked, found, block, nonces, parents, executed, execution >>

Proceed ==
    \/ GetTransaction \/ GetBlock \/ GetChainId \/ ReplayPrior \/ StartTarget \/ InspectTarget \/ Finish

Next == Proceed \/ Read \/ Fault \/ Reorg

\* The process runs, the node answers, and gas ends the execution.
Spec == Init /\ [][Next]_vars /\ WF_vars(Proceed)

-----------------------------------------------------------------------------
TypeOK ==
    /\ Legal(TxsOf(chain)) /\ reorgs \in 0..MaxReorgs
    /\ pc \in {"transaction", "block", "chain id", "prior", "target", "done", "failed"}
    /\ why \in {None, "pending", "no block", "rpc", "invalid", "panic"}
    /\ (pc = "failed") = (why # None)
    /\ found # None => Len(executed) <= found.index
    /\ Range(executed) \subseteq {AlloyTxToRevmTx(tx) : tx \in Txs}

\* What is traced is the transaction that was asked for, whenever the block the
\* node gives is the one it found the transaction in (replay.rs:33, 141).
ReplayedIsAsked ==
    pc = "done" /\ block.fork = found.fork => Last(executed) = AlloyTxToRevmTx(asked)

\* No transaction that was executed lost a field in its conversion.
Complete == \A i \in DOMAIN executed : executed[i] = block.txs[i]

\* The node still has the parent block of the block it gave.
OnParent == found.number - 1 <= Len(chain) /\ SubSeq(chain, 1, found.number - 1) = block.parent

\* As long as the node stays on the parent block, a transaction is executed on
\* the state in which the chain executed it: that of the parent block and of
\* exactly the transactions before it, all of them, once, in their order (replay.rs:5).
PreStateExact ==
    block # None /\ OnParent /\ Complete =>
        /\ parents \subseteq {block.parent}
        /\ \A s \in DOMAIN nonces : nonces[s] = NonceOn(TxsOf(block.parent), s) + NonceAfter(executed, s)
        /\ pc \in {"target", "done"} => executed = SubSeq(block.txs, 1, found.index)

\* On a node that stays on its chain every mined transaction can be executed
\* again: nonces are never wrong and the index is that of a transaction.
MinedReplays ==
    why \in {"invalid", "panic"} =>
        reorgs # found.at \/ \E i \in DOMAIN block.txs : block.txs[i].authority # None

\* The state before the target is right, so that a mined transaction can always
\* be executed again when the node stays on its chain (replay.rs:6).
EveryMinedReplays == why = "invalid" => reorgs # found.at

\* Every replay ends, with the data of the inspector or with an error.
Ends == pc \notin {"done", "failed"} ~> pc \in {"done", "failed"}
=============================================================================
