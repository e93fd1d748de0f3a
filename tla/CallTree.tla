------------------------------- MODULE CallTree -------------------------------
(***************************************************************************)
(* The tree of call frames of call_tree.rs.  The program stores a node's   *)
(* children inside the node and addresses the current frame by a vector of *)
(* child indices; here the nodes stand in one sequence, in the order in    *)
(* which enter_call creates them, each naming its parent, and `path' holds *)
(* the nodes from the root (node 1) to the current one.  The children of a *)
(* node, in creation order, are the nodes that name it as their parent.    *)
(*                                                                         *)
(* `now' is the index of the structLog entry being processed: it is the    *)
(* `step' argument of enter_call and exit_call.                            *)
(***************************************************************************)
EXTENDS Naturals, Sequences, FiniteSets

CONSTANTS Addr,        \* contract addresses, Address::ZERO included
          Root,        \* the target of the transaction
          MaxSteps     \* bound on the length of the trace

ASSUME RootAssumption == Root \in Addr
ASSUME MaxStepsAssumption == MaxSteps \in Nat

VARIABLES nodes, path, now

vars == <<nodes, path, now>>

CallType == {"Call", "DelegateCall", "StaticCall", "Create", "Create2"}

Node == [address : Addr, call_type : CallType \cup {"Transaction"},
         parent : Nat, start : Nat, end : Nat]

\* CallNode::new: the end of the range is 0 until the frame exits.
CallNode(address, type, parent, step) ==
    [address |-> address, call_type |-> type, parent |-> parent,
     start |-> step, end |-> 0]

NewNodes(address) == <<CallNode(address, "Transaction", 0, 0)>>
NewPath == <<1>>

Current(p) == p[Len(p)]
IsAtRoot(p) == Len(p) = 1

\* Mutant of NodesEntered: every frame becomes a child of the root.
NodesEnteredFlat(ns, p, address, type, step) ==
    Append(ns, CallNode(address, type, p[1], step))

\* enter_call: a new last child of the current node, which becomes current.
NodesEntered(ns, p, address, type, step) ==
    Append(ns, CallNode(address, type, Current(p), step))

PathEntered(ns, p) == Append(p, Len(ns) + 1)

\* exit_call, as often as the depth dropped; a call at the root does nothing.
PathLength(p, drop) == IF drop < Len(p) THEN Len(p) - drop ELSE 1

\* Mutants of NodesExited: only the current frame is closed; the range ends one
\* entry late; all frames created since are closed.
NodesExitedOnce(ns, p, drop, step) ==
    [n \in 1..Len(ns) |->
        IF n = Current(p) /\ Len(p) > 1 THEN [ns[n] EXCEPT !.end = step] ELSE ns[n]]
NodesExitedAfter(ns, p, drop, step) ==
    [n \in 1..Len(ns) |->
        IF \E k \in PathLength(p, drop) + 1 .. Len(p) : p[k] = n
        THEN [ns[n] EXCEPT !.end = step + 1]
        ELSE ns[n]]
NodesExitedSince(ns, p, drop, step) ==
    [n \in 1..Len(ns) |->
        IF n > p[PathLength(p, drop)] THEN [ns[n] EXCEPT !.end = step] ELSE ns[n]]

NodesExited(ns, p, drop, step) ==
    [n \in 1..Len(ns) |->
        IF \E k \in PathLength(p, drop) + 1 .. Len(p) : p[k] = n
        THEN [ns[n] EXCEPT !.end = step]
        ELSE ns[n]]
PathExited(p, drop) == [k \in 1..PathLength(p, drop) |-> p[k]]

-----------------------------------------------------------------------------
Init ==
    /\ nodes = NewNodes(Root)
    /\ path = NewPath
    /\ now = 0

\* The depth rose: the entry at `now' is the first one of a new frame.  The
\* first entry of a trace belongs to the root.
Enter(address, type) ==
    /\ now \in 1 .. MaxSteps - 1
    /\ nodes' = NodesEntered(nodes, path, address, type, now)
    /\ path' = PathEntered(nodes, path)
    /\ now' = now + 1

\* The depth fell by `drop': the entry at `now' is back in an earlier frame.
Exit(drop) ==
    /\ now \in 1 .. MaxSteps - 1
    /\ nodes' = NodesExited(nodes, path, drop, now)
    /\ path' = PathExited(path, drop)
    /\ now' = now + 1

\* An entry of the current frame.
Stay ==
    /\ now < MaxSteps
    /\ now' = now + 1
    /\ UNCHANGED <<nodes, path>>

Next ==
    \/ \E address \in Addr, type \in CallType : Enter(address, type)
    \/ \E drop \in 1 .. Len(path) : Exit(drop)
    \/ Stay

Spec == Init /\ [][Next]_vars

-----------------------------------------------------------------------------
\* Types of the tree: nodes with an address, a call type and indices.
TypeOK ==
    /\ nodes \in Seq(Node)
    /\ path \in Seq(Nat)
    /\ now \in Nat

OnPath(n) == \E k \in 1..Len(path) : path[k] = n

\* The current frame hangs from the root: each node on the path is a child of
\* the one before it.  `current_mut' follows exactly this chain.
PathIsBranch ==
    /\ Len(path) >= 1
    /\ path[1] = 1
    /\ \A k \in 1..Len(path) : path[k] \in 1..Len(nodes)
    /\ \A k \in 2..Len(path) : nodes[path[k]].parent = path[k-1]
    /\ \A j, k \in 1..Len(path) : j < k => path[j] < path[k]

\* A child frame has an end exactly when it is no longer on the path, so a
\* range (start, 0) is never a range that was closed and 0 is a safe "open".
OpenIffOnPath ==
    \A n \in 2..Len(nodes) : (nodes[n].end = 0) <=> OnPath(n)

\* A frame lies inside the frame that called it: it starts after its parent
\* did, and a parent that has exited has seen all its children exit before.
RangesNest ==
    \A n \in 2..Len(nodes) :
        LET p == nodes[n].parent IN
        /\ p \in 1 .. n - 1
        /\ nodes[p].start < nodes[n].start
        /\ (p # 1 /\ nodes[p].end # 0) =>
              /\ nodes[n].end # 0
              /\ nodes[n].end <= nodes[p].end

\* Two frames called from the same frame do not overlap: the earlier one has
\* exited when the later one is entered.
SiblingsDisjoint ==
    \A m, n \in 2..Len(nodes) :
        (m < n /\ nodes[m].parent = nodes[n].parent) =>
            /\ nodes[m].end # 0
            /\ nodes[m].end <= nodes[n].start

\* Every range is a non-empty interval of entries already processed.
RangesInTrace ==
    \A n \in 2..Len(nodes) :
        /\ nodes[n].start \in 1 .. now - 1
        /\ nodes[n].end # 0 =>
              /\ nodes[n].start < nodes[n].end
              /\ nodes[n].end < now

\* Ranges nest inside the trace, and those of siblings are apart.
Nested == RangesNest /\ SiblingsDisjoint /\ RangesInTrace

\* The path is a branch of the tree, and what is open is exactly what is on it.
PathIsOpenBranch == PathIsBranch /\ OpenIffOnPath

\* The ranges say which frames were live: those that hold the entry processed
\* last are the frames on the path.  (A range that holds an entry keeps doing
\* so, and one that does not never will: ClosedIsFinal.)
Covers(n, step) ==
    /\ nodes[n].start <= step
    /\ n = 1 \/ nodes[n].end = 0 \/ step < nodes[n].end

RangesCoverPath ==
    now > 0 => \A n \in 1..Len(nodes) : Covers(n, now - 1) <=> OnPath(n)

\* A closed range is final: no later call reopens it, moves its bounds or
\* re-parents it, and the nodes already created keep their identity.
ClosedIsFinal ==
    [][\A n \in 1..Len(nodes) :
          /\ n <= Len(nodes')
          /\ nodes'[n].start = nodes[n].start
          /\ nodes'[n].parent = nodes[n].parent
          /\ nodes[n].end # 0 => nodes'[n] = nodes[n]]_vars

=============================================================================
