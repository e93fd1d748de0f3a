---------------------------- MODULE CallTreeProofs ----------------------------
(***************************************************************************)
(* The invariants of CallTree, for every set of addresses and every length *)
(* of the trace.  They are inductive together: that the path is a branch   *)
(* of strictly increasing nodes tells which node an exit closes, and that  *)
(* a node is open exactly when it is on the path tells that nothing below  *)
(* a closed node is still open.                                            *)
(***************************************************************************)
EXTENDS CallTree, TLAPS

\* Inductive: see above.  All but the last conjunct are invariants TLC checks.
IInv ==
    /\ TypeOK
    /\ PathIsBranch
    /\ OpenIffOnPath
    /\ RangesNest
    /\ SiblingsDisjoint
    /\ RangesInTrace
    /\ nodes[1].start = 0

-----------------------------------------------------------------------------
(* What the operations make of nodes and path. *)

\* What the proofs use of the types: everything in sight is a natural number,
\* and a node stands on the path only once.
LEMMA Basics ==
    ASSUME TypeOK, PathIsBranch
    PROVE  /\ now \in Nat /\ Len(nodes) \in Nat
           /\ Len(path) \in Nat /\ Len(path) >= 1
           /\ \A n \in 1..Len(nodes) :
                 /\ nodes[n].parent \in Nat
                 /\ nodes[n].start \in Nat
                 /\ nodes[n].end \in Nat
           /\ \A k \in 1..Len(path) : path[k] \in 1..Len(nodes)
           /\ \A j, k \in 1..Len(path) : path[j] = path[k] => j = k
  <1>1. \A n \in 1..Len(nodes) : nodes[n] \in Node
    BY DEF TypeOK
  <1>2. now \in Nat /\ Len(nodes) \in Nat /\ Len(path) \in Nat /\ Len(path) >= 1
    BY DEF TypeOK, PathIsBranch
  <1>3. \A k \in 1..Len(path) : path[k] \in 1..Len(nodes)
    BY DEF PathIsBranch
  <1>4. ASSUME NEW j \in 1..Len(path), NEW k \in 1..Len(path), path[j] = path[k]
        PROVE  j = k
    <2>1. ~(path[j] < path[k]) /\ ~(path[k] < path[j])
      BY <1>2, <1>3, <1>4
    <2>2. ~(j < k) /\ ~(k < j)
      BY <2>1 DEF PathIsBranch
    <2>3. QED
      BY <1>2, <2>2
  <1>5. QED
    BY <1>1, <1>2, <1>3, <1>4 DEF Node

\* A sequence given element by element has those elements.
LEMMA SeqFromElements ==
    ASSUME NEW S, NEW m \in Nat, NEW f \in [1..m -> S]
    PROVE  f \in Seq(S) /\ Len(f) = m /\ DOMAIN f = 1..m
  OBVIOUS

\* The frames an exit leaves keep at least the root.
LEMMA PathLengthBounds ==
    ASSUME NEW p \in Seq(Nat), Len(p) >= 1, NEW drop \in Nat
    PROVE  PathLength(p, drop) \in 1..Len(p)
  BY DEF PathLength

\* enter_call appends one node and makes it current.
LEMMA EnteredShape ==
    ASSUME TypeOK, PathIsBranch,
           NEW address \in Addr, NEW type \in CallType, Enter(address, type)
    PROVE  /\ now \in Nat /\ now >= 1 /\ now' = now + 1
           /\ nodes' \in Seq(Node) /\ Len(nodes') = Len(nodes) + 1
           /\ \A n \in 1..Len(nodes) : nodes'[n] = nodes[n]
           /\ nodes'[Len(nodes) + 1].parent = path[Len(path)]
           /\ nodes'[Len(nodes) + 1].start = now
           /\ nodes'[Len(nodes) + 1].end = 0
           /\ path' \in Seq(Nat) /\ Len(path') = Len(path) + 1
           /\ \A k \in 1..Len(path) : path'[k] = path[k]
           /\ path'[Len(path) + 1] = Len(nodes) + 1
           /\ Len(nodes) \in Nat /\ Len(path) \in Nat
  <1> DEFINE node == CallNode(address, type, path[Len(path)], now)
  <1>1. now \in Nat /\ now >= 1 /\ now' = now + 1
    BY DEF Enter, TypeOK
  <1>2. nodes \in Seq(Node) /\ path \in Seq(Nat) /\ Len(path) \in 1..Len(path)
    BY DEF TypeOK, PathIsBranch
  <1>3. node \in Node
    BY <1>1, <1>2 DEF CallNode, Node
  <1>4. nodes' = Append(nodes, node) /\ path' = Append(path, Len(nodes) + 1)
    BY DEF Enter, NodesEntered, PathEntered, Current
  <1>5. node.parent = path[Len(path)] /\ node.start = now /\ node.end = 0
    BY DEF CallNode
  <1> HIDE DEF node
  <1>6. QED
    BY <1>1, <1>2, <1>3, <1>4, <1>5

\* exit_call closes the nodes of the path beyond the length kept, no other.
LEMMA ExitedShape ==
    ASSUME TypeOK, PathIsBranch, NEW drop \in Nat, Exit(drop)
    PROVE  \E keep \in 1..Len(path) :
           /\ now \in Nat /\ now >= 1 /\ now' = now + 1
           /\ nodes' \in Seq(Node) /\ Len(nodes') = Len(nodes)
           /\ \A n \in 1..Len(nodes) :
                 /\ nodes'[n].parent = nodes[n].parent
                 /\ nodes'[n].start = nodes[n].start
                 /\ (\E k \in keep + 1 .. Len(path) : path[k] = n)
                       => nodes'[n].end = now
                 /\ ~(\E k \in keep + 1 .. Len(path) : path[k] = n)
                       => nodes'[n] = nodes[n]
           /\ path' \in Seq(Nat) /\ Len(path') = keep
           /\ \A k \in 1..keep : path'[k] = path[k]
           /\ Len(nodes) \in Nat /\ Len(path) \in Nat
  <1> DEFINE keep == PathLength(path, drop)
             closed(n) == \E k \in keep + 1 .. Len(path) : path[k] = n
  <1>1. nodes \in Seq(Node) /\ path \in Seq(Nat) /\ Len(path) >= 1 /\ now \in Nat
    BY DEF TypeOK, PathIsBranch
  <1>2. keep \in 1..Len(path)
    BY <1>1, PathLengthBounds
  <1>3. /\ now >= 1 /\ now' = now + 1
        /\ nodes' = [n \in 1..Len(nodes) |->
                        IF closed(n) THEN [nodes[n] EXCEPT !.end = now]
                        ELSE nodes[n]]
        /\ path' = [k \in 1..keep |-> path[k]]
    BY <1>1 DEF Exit, NodesExited, PathExited
  <1>4a. \A n \in 1..Len(nodes) : nodes[n] \in Node
    BY <1>1
  <1>4b. ASSUME NEW x \in Node
         PROVE  LET y == [x EXCEPT !.end = now] IN
                /\ y \in Node
                /\ y.parent = x.parent /\ y.start = x.start /\ y.end = now
    BY <1>1 DEF Node
  <1>4. \A n \in 1..Len(nodes) :
           /\ nodes[n] \in Node
           /\ [nodes[n] EXCEPT !.end = now] \in Node
           /\ [nodes[n] EXCEPT !.end = now].parent = nodes[n].parent
           /\ [nodes[n] EXCEPT !.end = now].start = nodes[n].start
           /\ [nodes[n] EXCEPT !.end = now].end = now
    BY <1>4a, <1>4b
  <1> HIDE DEF keep, closed
  <1>5. nodes' \in [1..Len(nodes) -> Node] /\ path' \in [1..keep -> Nat]
    BY <1>1, <1>2, <1>3, <1>4, SMTT(30)
  <1>6. /\ nodes' \in Seq(Node) /\ Len(nodes') = Len(nodes)
        /\ path' \in Seq(Nat) /\ Len(path') = keep
    BY <1>1, <1>2, <1>5, SeqFromElements, SMTT(30)
  <1>7. \A n \in 1..Len(nodes) :
           /\ nodes'[n].parent = nodes[n].parent
           /\ nodes'[n].start = nodes[n].start
           /\ closed(n) => nodes'[n].end = now
           /\ ~closed(n) => nodes'[n] = nodes[n]
    BY <1>3, <1>4
  <1>8. \A k \in 1..keep : path'[k] = path[k]
    BY <1>3
  <1>9. Len(nodes) \in Nat /\ Len(path) \in Nat
    BY <1>1
  <1>10. QED
    <2>1. WITNESS keep \in 1..Len(path)
    <2>2. QED
      BY <1>1, <1>2, <1>3, <1>6, <1>7, <1>8, <1>9 DEF closed

-----------------------------------------------------------------------------
(* The inductive invariant. *)

\* The tree of CallTree::new: the root alone, open, its range starting at 0.
LEMMA InitIInv == Init => IInv
  <1> SUFFICES ASSUME Init PROVE IInv
    OBVIOUS
  <1> DEFINE root == CallNode(Root, "Transaction", 0, 0)
  <1>1. root \in Node
    BY RootAssumption DEF CallNode, Node
  <1>2. nodes = <<root>> /\ path = <<1>> /\ now = 0
    BY DEF Init, NewNodes, NewPath
  <1> HIDE DEF root
  <1>3. /\ nodes \in Seq(Node) /\ Len(nodes) = 1
        /\ path \in Seq(Nat) /\ Len(path) = 1 /\ path[1] = 1
    BY <1>1, <1>2
  <1>4. nodes[1].start = 0
    BY <1>2 DEF CallNode, root
  <1>5. TypeOK /\ PathIsBranch
    BY <1>2, <1>3 DEF TypeOK, PathIsBranch
  <1>6. OpenIffOnPath /\ RangesNest /\ SiblingsDisjoint /\ RangesInTrace
    BY <1>3 DEF OpenIffOnPath, RangesNest, SiblingsDisjoint, RangesInTrace
  <1>7. QED
    BY <1>4, <1>5, <1>6 DEF IInv

\* A frame is entered: the new node is open, on the path, and younger than all
\* nodes; its earlier siblings are not on the path, so they have exited.
LEMMA EnterIInv ==
    ASSUME IInv, NEW address \in Addr, NEW type \in CallType,
           Enter(address, type)
    PROVE  IInv'
  <1> DEFINE N == Len(nodes)
             P == Len(path)
             cur == path[P]
  <1>1. /\ TypeOK /\ PathIsBranch /\ OpenIffOnPath /\ RangesNest
        /\ SiblingsDisjoint /\ RangesInTrace
    BY DEF IInv
  <1>2. /\ nodes' \in Seq(Node) /\ path' \in Seq(Nat)
        /\ \A n \in 1..N : nodes'[n] = nodes[n]
        /\ \A k \in 1..P : path'[k] = path[k]
        /\ nodes'[N + 1].parent = cur
        /\ nodes'[N + 1].start = now
        /\ nodes'[N + 1].end = 0
        /\ path'[P + 1] = N + 1
        /\ Len(nodes') = N + 1 /\ Len(path') = P + 1
        /\ now \in Nat /\ now >= 1 /\ now' = now + 1
    BY <1>1, EnteredShape
  <1>3. /\ N \in Nat /\ P \in Nat /\ P >= 1
        /\ \A n \in 1..N :
              /\ nodes[n].parent \in Nat
              /\ nodes[n].start \in Nat
              /\ nodes[n].end \in Nat
        /\ \A k \in 1..P : path[k] \in 1..N
        /\ \A j, k \in 1..P : path[j] = path[k] => j = k
    BY <1>1, Basics
  <1>4. /\ path[1] = 1
        /\ \A k \in 2..P : nodes[path[k]].parent = path[k-1]
        /\ \A j, k \in 1..P : j < k => path[j] < path[k]
    BY <1>1 DEF PathIsBranch
  <1>5. \A n \in 2..N : (nodes[n].end = 0) <=> (\E k \in 1..P : path[k] = n)
    BY <1>1 DEF OpenIffOnPath, OnPath
  <1>6. \A n \in 2..N :
           /\ nodes[n].start \in 1 .. now - 1
           /\ nodes[n].end # 0 =>
                 nodes[n].start < nodes[n].end /\ nodes[n].end < now
    BY <1>1 DEF RangesInTrace
  <1>7. cur \in 1..N /\ \A k \in 1..P : path[k] <= cur
    BY <1>3, <1>4
  <1> HIDE DEF N, P, cur
  <1>8. TypeOK'
    BY <1>2 DEF TypeOK
  <1>9. PathIsBranch'
    <2>1. path'[1] = 1 /\ Len(path') >= 1
      BY <1>2, <1>3, <1>4
    <2>2. ASSUME NEW k \in 1 .. P + 1
          PROVE  /\ path'[k] \in 1 .. N + 1
                 /\ k # P + 1 => path'[k] \in 1 .. N
      <3>1. CASE k = P + 1
        BY <1>2, <1>3, <3>1
      <3>2. CASE k # P + 1
        <4>1. k \in 1..P
          BY <1>3, <3>2
        <4>2. path'[k] = path[k] /\ path[k] \in 1..N
          BY <1>2, <1>3, <4>1
        <4>3. QED
          BY <1>3, <3>2, <4>2
      <3>3. QED
        BY <3>1, <3>2
    <2>3. ASSUME NEW k \in 2 .. P + 1
          PROVE  nodes'[path'[k]].parent = path'[k-1]
      <3>1. CASE k = P + 1
        BY <1>2, <1>3, <3>1 DEF cur
      <3>2. CASE k # P + 1
        <4>1. k \in 2..P /\ path'[k] = path[k] /\ path'[k-1] = path[k-1]
          BY <1>2, <1>3, <3>2
        <4>2. path[k] \in 1..N
          BY <1>3, <4>1
        <4>3. QED
          BY <1>2, <1>4, <4>1, <4>2
      <3>3. QED
        BY <3>1, <3>2
    <2>4. ASSUME NEW j \in 1 .. P + 1, NEW k \in 1 .. P + 1, j < k
          PROVE  path'[j] < path'[k]
      <3>1. j \in 1..P /\ path'[j] = path[j] /\ path[j] \in 1..N
        BY <1>2, <1>3, <2>4
      <3>2. CASE k = P + 1
        BY <1>2, <1>3, <3>1, <3>2
      <3>3. CASE k # P + 1
        <4>1. k \in 1..P /\ path'[k] = path[k]
          BY <1>2, <1>3, <3>3
        <4>2. QED
          BY <1>4, <2>4, <3>1, <4>1
      <3>4. QED
        BY <3>2, <3>3
    <2>5. QED
      BY <1>2, <2>1, <2>2, <2>3, <2>4 DEF PathIsBranch
  <1>10. OpenIffOnPath'
    <2>1. ASSUME NEW n \in 2 .. N + 1
          PROVE  (nodes'[n].end = 0) <=> (\E k \in 1 .. P + 1 : path'[k] = n)
      <3>1. CASE n = N + 1
        BY <1>2, <1>3, <3>1
      <3>2. CASE n # N + 1
        <4>1. n \in 2..N /\ nodes'[n] = nodes[n]
          BY <1>2, <1>3, <3>2
        <4>2. (\E k \in 1 .. P + 1 : path'[k] = n) <=> (\E k \in 1..P : path[k] = n)
          BY <1>2, <1>3, <3>2, SMTT(30)
        <4>3. QED
          BY <1>5, <4>1, <4>2
      <3>3. QED
        BY <3>1, <3>2
    <2>2. QED
      BY <1>2, <2>1 DEF OpenIffOnPath, OnPath
  <1>11. nodes[cur].start < now /\ (cur # 1 => nodes[cur].end = 0)
    <2>1. cur # 1 => nodes[cur].end = 0
      BY <1>3, <1>5, <1>7 DEF cur
    <2>2. CASE cur = 1
      <3>1. nodes[1].start = 0
        BY DEF IInv
      <3>2. now >= 1 /\ now \in Nat
        BY <1>2
      <3>3. QED
        BY <2>1, <2>2, <3>1, <3>2
    <2>3. CASE cur # 1
      <3>1. cur \in 2..N
        BY <1>3, <1>7, <2>3
      <3>2. nodes[cur].start \in 1 .. now - 1
        BY <1>6, <3>1
      <3>3. now \in Nat
        BY <1>2
      <3>4. QED
        BY <2>1, <3>2, <3>3
    <2>4. QED
      BY <2>1, <2>2, <2>3
  <1>12. RangesNest'
    <2>1. ASSUME NEW n \in 2 .. N + 1
          PROVE  LET p == nodes'[n].parent IN
                 /\ p \in 1 .. n - 1
                 /\ nodes'[p].start < nodes'[n].start
                 /\ (p # 1 /\ nodes'[p].end # 0) =>
                       /\ nodes'[n].end # 0
                       /\ nodes'[n].end <= nodes'[p].end
      <3>1. CASE n = N + 1
        <4>1. nodes'[n].parent = cur /\ nodes'[cur] = nodes[cur]
          BY <1>2, <1>7, <3>1
        <4>2. cur \in 1 .. n - 1
          BY <1>3, <1>7, <3>1
        <4>3. QED
          BY <1>2, <1>11, <3>1, <4>1, <4>2
      <3>2. CASE n # N + 1
        <4> DEFINE p == nodes[n].parent
        <4>1. n \in 1..N /\ n \in 2..N /\ nodes'[n] = nodes[n]
          BY <1>2, <1>3, <3>2
        <4>2. /\ p \in 1 .. n - 1
              /\ nodes[p].start < nodes[n].start
              /\ (p # 1 /\ nodes[p].end # 0) =>
                    nodes[n].end # 0 /\ nodes[n].end <= nodes[p].end
          BY <1>1, <4>1 DEF RangesNest, N
        <4>3. p \in 1..N
          BY <1>3, <4>1, <4>2
        <4>4. nodes'[p] = nodes[p]
          BY <1>2, <4>3
        <4>5. QED
          BY <4>1, <4>2, <4>4
      <3>3. QED
        BY <3>1, <3>2
    <2>2. QED
      BY <1>2, <2>1 DEF RangesNest
  <1>13. ASSUME NEW m \in 2..N, nodes[m].parent = cur
         PROVE  nodes[m].end # 0 /\ nodes[m].end < now
    <2>1. ASSUME NEW k \in 1..P, path[k] = m
          PROVE  FALSE
      <3>1. k \in 2..P
        BY <1>3, <1>4, <2>1
      <3>2. path[k-1] = path[P] /\ k - 1 \in 1..P /\ P \in 1..P
        BY <1>3, <1>4, <1>13, <2>1, <3>1 DEF cur
      <3>3. k - 1 = P
        BY <1>3, <3>2
      <3>4. QED
        BY <1>3, <3>1, <3>3
    <2>2. QED
      BY <1>5, <1>6, <2>1
  <1>14. SiblingsDisjoint'
    <2>1. ASSUME NEW m \in 2 .. N + 1, NEW n \in 2 .. N + 1, m < n,
                 nodes'[m].parent = nodes'[n].parent
          PROVE  nodes'[m].end # 0 /\ nodes'[m].end <= nodes'[n].start
      <3>1. m \in 2..N /\ m \in 1..N /\ nodes'[m] = nodes[m] /\ nodes[m].end \in Nat
        BY <1>2, <1>3, <2>1
      <3>2. CASE n = N + 1
        <4>1. nodes[m].end # 0 /\ nodes[m].end < now
          BY <1>2, <1>13, <2>1, <3>1, <3>2
        <4>2. QED
          BY <1>2, <3>1, <3>2, <4>1
      <3>3. CASE n # N + 1
        <4>1. n \in 2..N /\ n \in 1..N
          BY <1>3, <3>3
        <4>2. nodes'[n] = nodes[n]
          BY <1>2, <4>1
        <4>3. QED
          BY <1>1, <2>1, <3>1, <4>1, <4>2 DEF SiblingsDisjoint, N
      <3>4. QED
        BY <3>2, <3>3
    <2>2. QED
      BY <1>2, <2>1 DEF SiblingsDisjoint
  <1>15. RangesInTrace'
    <2>1. ASSUME NEW n \in 2 .. N + 1
          PROVE  /\ nodes'[n].start \in 1..now
                 /\ nodes'[n].end # 0 =>
                       /\ nodes'[n].start < nodes'[n].end
                       /\ nodes'[n].end < now + 1
      <3>1. CASE n = N + 1
        BY <1>2, <3>1
      <3>2. CASE n # N + 1
        <4>1. n \in 2..N /\ n \in 1..N /\ nodes'[n] = nodes[n]
          BY <1>2, <1>3, <3>2
        <4>2. nodes[n].start \in Nat /\ nodes[n].end \in Nat
          BY <1>3, <4>1
        <4>3. QED
          BY ONLY <1>2, <1>6, <4>1, <4>2, SMTT(30)
      <3>3. QED
        BY <3>1, <3>2
    <2>2. now' - 1 = now
      BY <1>2
    <2>3. QED
      BY <1>2, <2>1, <2>2 DEF RangesInTrace
  <1>16. nodes'[1].start = 0
    BY <1>2, <1>3, <1>7 DEF IInv
  <1>17. QED
    BY <1>8, <1>9, <1>10, <1>12, <1>14, <1>15, <1>16 DEF IInv

\* Frames exit: the nodes closed are the end of the path.  A child of one of
\* them that was open is on the path too, and further along it.
LEMMA ExitIInv ==
    ASSUME IInv, NEW drop \in Nat, Exit(drop)
    PROVE  IInv'
  <1> DEFINE N == Len(nodes)
             P == Len(path)
  <1>1. /\ TypeOK /\ PathIsBranch /\ OpenIffOnPath /\ RangesNest
        /\ SiblingsDisjoint /\ RangesInTrace
    BY DEF IInv
  <1>2. PICK keep \in 1..P :
           /\ now \in Nat /\ now >= 1 /\ now' = now + 1
           /\ nodes' \in Seq(Node) /\ Len(nodes') = Len(nodes)
           /\ \A n \in 1..Len(nodes) :
                 /\ nodes'[n].parent = nodes[n].parent
                 /\ nodes'[n].start = nodes[n].start
                 /\ (\E k \in keep + 1 .. Len(path) : path[k] = n)
                       => nodes'[n].end = now
                 /\ ~(\E k \in keep + 1 .. Len(path) : path[k] = n)
                       => nodes'[n] = nodes[n]
           /\ path' \in Seq(Nat) /\ Len(path') = keep
           /\ \A k \in 1..keep : path'[k] = path[k]
           /\ Len(nodes) \in Nat /\ Len(path) \in Nat
    BY <1>1, ExitedShape
  <1> DEFINE closed(n) == \E k \in keep + 1 .. P : path[k] = n
  <1>3. /\ N \in Nat /\ P \in Nat /\ P >= 1
        /\ \A n \in 1..N :
              /\ nodes[n].parent \in Nat
              /\ nodes[n].start \in Nat
              /\ nodes[n].end \in Nat
        /\ \A k \in 1..P : path[k] \in 1..N
        /\ \A j, k \in 1..P : path[j] = path[k] => j = k
    BY <1>1, Basics
  <1>4. /\ path[1] = 1
        /\ \A k \in 2..P : nodes[path[k]].parent = path[k-1]
        /\ \A j, k \in 1..P : j < k => path[j] < path[k]
    BY <1>1 DEF PathIsBranch
  <1>5. \A n \in 2..N : (nodes[n].end = 0) <=> (\E k \in 1..P : path[k] = n)
    BY <1>1 DEF OpenIffOnPath, OnPath
  <1>6. \A n \in 2..N :
           /\ nodes[n].start \in 1 .. now - 1
           /\ nodes[n].end # 0 =>
                 nodes[n].start < nodes[n].end /\ nodes[n].end < now
    BY <1>1 DEF RangesInTrace
  <1>7. \A n \in 1..N :
           /\ nodes'[n].parent = nodes[n].parent
           /\ nodes'[n].start = nodes[n].start
           /\ closed(n) => nodes'[n].end = now
           /\ ~closed(n) => nodes'[n] = nodes[n]
    BY <1>2
  <1>8. /\ nodes' \in Seq(Node) /\ path' \in Seq(Nat)
        /\ Len(nodes') = N /\ Len(path') = keep
        /\ keep \in 1..P
        /\ \A k \in 1..keep : path'[k] = path[k]
        /\ now \in Nat /\ now >= 1 /\ now' = now + 1
    BY <1>2
  <1> HIDE DEF N, P
  <1>9. ~closed(1)
    BY <1>3, <1>4, <1>8
  <1>10. \A n \in 2..N : closed(n) => nodes[n].end = 0
    BY <1>3, <1>5, <1>8
  <1>11. \A n \in 1..N : (\E k \in 1..keep : path'[k] = n)
                            <=> (~closed(n) /\ \E k \in 1..P : path[k] = n)
    <2>1. ASSUME NEW k \in 1..keep
          PROVE  k \in 1..P /\ path'[k] = path[k] /\ ~closed(path[k])
      BY <1>3, <1>8
    <2>2. ASSUME NEW n \in 1..N, ~closed(n), NEW k \in 1..P, path[k] = n
          PROVE  k \in 1..keep /\ path'[k] = n
      BY <1>3, <1>8, <2>2
    <2> HIDE DEF closed
    <2>3. QED
      BY <2>1, <2>2
  <1>12. TypeOK'
    BY <1>8 DEF TypeOK
  <1>13. PathIsBranch'
    <2>1. Len(path') >= 1 /\ path'[1] = 1
      BY <1>3, <1>4, <1>8
    <2>2. ASSUME NEW k \in 1..keep
          PROVE  k \in 1..P /\ path'[k] = path[k] /\ path[k] \in 1..N
      BY <1>3, <1>8
    <2>3. ASSUME NEW k \in 2..keep
          PROVE  nodes'[path'[k]].parent = path'[k-1]
      <3>1. /\ k \in 1..keep /\ k \in 2..P /\ k - 1 \in 1..keep
        BY <1>3, <1>8
      <3>2. /\ path'[k] = path[k] /\ path'[k-1] = path[k-1]
            /\ path[k] \in 1..N
        BY <2>2, <3>1
      <3>3. QED
        BY <1>4, <1>7, <3>1, <3>2
    <2>4. ASSUME NEW j \in 1..keep, NEW k \in 1..keep, j < k
          PROVE  path'[j] < path'[k]
      BY <1>4, <2>2, <2>4
    <2>5. QED
      BY <1>8, <2>1, <2>2, <2>3, <2>4 DEF PathIsBranch
  <1> HIDE DEF closed
  <1>14. OpenIffOnPath'
    <2>1. ASSUME NEW n \in 2..N
          PROVE  (nodes'[n].end = 0) <=> (\E k \in 1..keep : path'[k] = n)
      <3>1. n \in 1..N
        BY <1>3
      <3>2. CASE closed(n)
        BY <1>7, <1>8, <1>11, <3>1, <3>2
      <3>3. CASE ~closed(n)
        BY <1>5, <1>7, <1>11, <3>1, <3>3
      <3>4. QED
        BY <3>2, <3>3
    <2>2. QED
      BY <1>8, <2>1 DEF OpenIffOnPath, OnPath
  <1>15. \A n \in 2..N : nodes[n].end # 0 => nodes'[n] = nodes[n]
    BY <1>3, <1>7, <1>10
  <1>16. RangesInTrace'
    <2>1. ASSUME NEW n \in 2..N
          PROVE  /\ nodes'[n].start \in 1..now
                 /\ nodes'[n].end # 0 =>
                       /\ nodes'[n].start < nodes'[n].end
                       /\ nodes'[n].end < now + 1
      <3>1. n \in 1..N /\ nodes[n].start \in Nat /\ nodes[n].end \in Nat
        BY <1>3
      <3>2. CASE closed(n)
        BY ONLY <1>6, <1>7, <1>8, <3>1, <3>2, SMTT(30)
      <3>3. CASE ~closed(n)
        BY ONLY <1>6, <1>7, <1>8, <3>1, <3>3, SMTT(30)
      <3>4. QED
        BY <3>2, <3>3
    <2>2. now' - 1 = now
      BY <1>8
    <2>3. QED
      BY <1>8, <2>1, <2>2 DEF RangesInTrace
  <1>17. SiblingsDisjoint'
    <2>1. ASSUME NEW m \in 2..N, NEW n \in 2..N, m < n,
                 nodes'[m].parent = nodes'[n].parent
          PROVE  nodes'[m].end # 0 /\ nodes'[m].end <= nodes'[n].start
      <3>1. m \in 1..N /\ n \in 1..N
        BY <1>3
      <3>2. nodes[m].parent = nodes[n].parent
        BY <1>7, <2>1, <3>1
      <3>3. nodes[m].end # 0 /\ nodes[m].end <= nodes[n].start
        BY <1>1, <2>1, <3>2 DEF SiblingsDisjoint, N
      <3>4. QED
        BY <1>7, <1>15, <3>1, <3>3
    <2>2. QED
      BY <1>8, <2>1 DEF SiblingsDisjoint
  <1>18. RangesNest'
    <2>1. ASSUME NEW n \in 2..N
          PROVE  LET p == nodes'[n].parent IN
                 /\ p \in 1 .. n - 1
                 /\ nodes'[p].start < nodes'[n].start
                 /\ (p # 1 /\ nodes'[p].end # 0) =>
                       /\ nodes'[n].end # 0
                       /\ nodes'[n].end <= nodes'[p].end
      <3> DEFINE p == nodes[n].parent
      <3>1. /\ p \in 1 .. n - 1
            /\ nodes[p].start < nodes[n].start
            /\ (p # 1 /\ nodes[p].end # 0) =>
                  nodes[n].end # 0 /\ nodes[n].end <= nodes[p].end
        BY <1>1 DEF RangesNest, N
      <3>2. n \in 1..N /\ p \in 1..N
        BY <1>3, <3>1
      <3>3. nodes'[n].parent = p /\ nodes'[p].start < nodes'[n].start
        BY <1>7, <3>1, <3>2
      <3>4. nodes[n].end # 0 => nodes'[n] = nodes[n] /\ nodes[n].end < now
        BY <1>6, <1>15
      <3>5. ASSUME p # 1, nodes'[p].end # 0
            PROVE  nodes'[n].end # 0 /\ nodes'[n].end <= nodes'[p].end
        <4>1. CASE ~closed(p)
          BY <1>7, <3>1, <3>2, <3>4, <3>5, <4>1
        <4>2. CASE closed(p)
          <5>1. nodes'[p].end = now
            BY <1>7, <3>2, <4>2
          <5>2. CASE nodes[n].end # 0
            BY ONLY <1>3, <1>8, <3>2, <3>4, <5>1, <5>2, SMTT(30)
          <5>3. CASE nodes[n].end = 0
            <6>1. PICK k \in 1..P : path[k] = n
              BY <1>5, <5>3
            <6>2. k \in 2..P /\ k - 1 \in 1..P /\ path[k-1] = p
              <7>1. k # 1
                BY <1>4, <2>1, <6>1, <1>3
              <7>2. k \in 2..P /\ k - 1 \in 1..P
                BY <1>3, <7>1
              <7>3. QED
                BY <1>4, <6>1, <7>2
            <6>3. PICK j \in keep + 1 .. P : path[j] = p
              BY <4>2 DEF closed
            <6>4. j \in 1..P
              BY <1>3, <1>8
            <6>5. j = k - 1
              BY <1>3, <6>2, <6>3, <6>4
            <6>6. k \in keep + 1 .. P
              BY <1>3, <1>8, <6>2, <6>3, <6>5
            <6>7. closed(n)
              BY <6>1, <6>6 DEF closed
            <6>8. QED
              BY <1>7, <1>8, <3>2, <5>1, <6>7
          <5>4. QED
            BY <5>2, <5>3
        <4>3. QED
          BY <4>1, <4>2
      <3>6. QED
        BY <3>1, <3>3, <3>5
    <2>2. QED
      BY <1>8, <2>1 DEF RangesNest
  <1>19. nodes'[1].start = 0
    <2>1. 1 \in 1..N
      BY <1>3
    <2>2. QED
      BY <1>7, <2>1 DEF IInv
  <1>20. QED
    BY <1>12, <1>13, <1>14, <1>16, <1>17, <1>18, <1>19 DEF IInv

\* An entry of the current frame, or none: only the clock may move.
LEMMA StayIInv ==
    ASSUME IInv, Stay \/ UNCHANGED vars
    PROVE  IInv'
  <1>1. /\ nodes' = nodes /\ path' = path
        /\ now' = now \/ now' = now + 1
        /\ now \in Nat
    BY DEF Stay, vars, IInv, TypeOK
  <1>2. TypeOK'
    BY <1>1 DEF IInv, TypeOK
  <1>3. PathIsBranch' /\ OpenIffOnPath' /\ RangesNest' /\ SiblingsDisjoint'
    BY <1>1 DEF IInv, PathIsBranch, OpenIffOnPath, OnPath, RangesNest,
                SiblingsDisjoint
  <1>4. RangesInTrace'
    <2>1. ASSUME NEW n \in 2..Len(nodes)
          PROVE  /\ nodes[n].start \in 1 .. now' - 1
                 /\ nodes[n].end # 0 =>
                       nodes[n].start < nodes[n].end /\ nodes[n].end < now'
      <3>1. /\ nodes[n].start \in 1 .. now - 1
            /\ nodes[n].end # 0 =>
                  nodes[n].start < nodes[n].end /\ nodes[n].end < now
        BY DEF IInv, RangesInTrace
      <3>2. nodes[n].end \in Nat
        <4>1. n \in 1..Len(nodes)
          BY DEF IInv, TypeOK
        <4>2. QED
          BY <4>1, Basics DEF IInv
      <3>3. QED
        BY <1>1, <3>1, <3>2
    <2>2. QED
      BY <1>1, <2>1 DEF RangesInTrace
  <1>5. QED
    BY <1>1, <1>2, <1>3, <1>4 DEF IInv

\* The tree of call_tree.rs keeps its shape, whatever frames are entered and
\* left in whatever order.
THEOREM CallTreeInvariant == Spec => []IInv
  <1>1. IInv /\ [Next]_vars => IInv'
    <2> SUFFICES ASSUME IInv, [Next]_vars PROVE IInv'
      OBVIOUS
    <2>1. ASSUME NEW address \in Addr, NEW type \in CallType,
                 Enter(address, type)
          PROVE  IInv'
      BY <2>1, EnterIInv
    <2>2. ASSUME NEW drop \in 1..Len(path), Exit(drop)
          PROVE  IInv'
      <3>1. drop \in Nat
        BY DEF IInv, TypeOK
      <3>2. QED
        BY <2>2, <3>1, ExitIInv
    <2>3. CASE Stay \/ UNCHANGED vars
      BY <2>3, StayIInv
    <2>4. QED
      BY <2>1, <2>2, <2>3 DEF Next
  <1>2. QED
    BY InitIInv, <1>1, PTL DEF Spec

-----------------------------------------------------------------------------
(* What the reader of a trace sees of the tree. *)

\* The range of a frame holds the last entry exactly when the frame is live.
LEMMA IInvCovers == IInv => RangesCoverPath
  <1> SUFFICES ASSUME IInv, now > 0, NEW n \in 1..Len(nodes)
               PROVE  Covers(n, now - 1) <=> OnPath(n)
    BY DEF RangesCoverPath
  <1>1. TypeOK /\ PathIsBranch /\ OpenIffOnPath /\ RangesInTrace
    BY DEF IInv
  <1>2. now \in Nat /\ Len(path) \in Nat /\ Len(path) >= 1
        /\ nodes[n].end \in Nat /\ nodes[n].start \in Nat
    BY <1>1, Basics
  <1>3. CASE n = 1
    <2>1. OnPath(n)
      BY <1>1, <1>2, <1>3 DEF PathIsBranch, OnPath
    <2>2. nodes[n].start = 0
      BY <1>3 DEF IInv
    <2>3. Covers(n, now - 1)
      BY <1>2, <1>3, <2>2 DEF Covers
    <2>4. QED
      BY <2>1, <2>3
  <1>4. CASE n # 1
    <2>1. n \in 2..Len(nodes)
      BY <1>4, <1>1, Basics
    <2>2. (nodes[n].end = 0) <=> OnPath(n)
      BY <1>1, <2>1 DEF OpenIffOnPath
    <2>3. /\ nodes[n].start \in 1 .. now - 1
          /\ nodes[n].end # 0 => nodes[n].end < now
      BY <1>1, <2>1 DEF RangesInTrace
    <2>4. Covers(n, now - 1) <=> nodes[n].end = 0
      BY <1>2, <1>4, <2>3 DEF Covers
    <2>5. QED
      BY <2>2, <2>4
  <1>5. QED
    BY <1>3, <1>4

\* Of the frames, those whose range holds the last entry processed are the
\* ones on the path: the ranges written by enter_call and exit_call say which
\* frames were live.
THEOREM RangesTellLiveFrames == Spec => []RangesCoverPath
  BY IInvCovers, CallTreeInvariant, PTL

\* A frame lies inside the trace and its caller's range, apart from its siblings'.
THEOREM CallsNest == Spec => []Nested
  <1>1. IInv => Nested
    BY DEF IInv, Nested
  <1>2. QED
    BY <1>1, CallTreeInvariant, PTL

\* The state of the tree stays well-typed.
THEOREM CallTreeTypes == Spec => []TypeOK
  <1>1. IInv => TypeOK
    BY DEF IInv
  <1>2. QED
    BY <1>1, CallTreeInvariant, PTL

\* path is a branch of the tree from the root, and the open ranges are exactly
\* those of the nodes on it, whatever enter_call and exit_call did before.
THEOREM OpenRangesAreOnPath == Spec => []PathIsOpenBranch
  <1>1. IInv => PathIsOpenBranch
    BY DEF IInv, PathIsOpenBranch
  <1>2. QED
    BY <1>1, CallTreeInvariant, PTL

\* enter_call and exit_call never touch a range that was closed before.
THEOREM ClosedRangesAreFinal == Spec => ClosedIsFinal
  <1> DEFINE final(n) == /\ n <= Len(nodes')
                         /\ nodes'[n].start = nodes[n].start
                         /\ nodes'[n].parent = nodes[n].parent
                         /\ nodes[n].end # 0 => nodes'[n] = nodes[n]
  <1>1. ASSUME IInv, [Next]_vars, NEW n \in 1..Len(nodes)
        PROVE  final(n)
    <2>1. TypeOK /\ PathIsBranch /\ OpenIffOnPath
      BY <1>1 DEF IInv
    <2>2. /\ Len(nodes) \in Nat /\ Len(path) \in Nat
          /\ n # 1 => n \in 2..Len(nodes)
      BY <2>1, Basics
    <2>3. ASSUME NEW address \in Addr, NEW type \in CallType,
                 Enter(address, type)
          PROVE  final(n)
      <3>1. /\ Len(nodes') = Len(nodes) + 1
            /\ \A m \in 1..Len(nodes) : nodes'[m] = nodes[m]
        BY <2>1, <2>3, EnteredShape
      <3>2. QED
        BY <2>2, <3>1
    <2>4. ASSUME NEW drop \in 1..Len(path), Exit(drop)
          PROVE  final(n)
      <3>1. drop \in Nat
        BY <2>2
      <3>2. PICK keep \in 1..Len(path) :
              /\ Len(nodes') = Len(nodes)
              /\ \A m \in 1..Len(nodes) :
                    /\ nodes'[m].parent = nodes[m].parent
                    /\ nodes'[m].start = nodes[m].start
                    /\ ~(\E k \in keep + 1 .. Len(path) : path[k] = m)
                          => nodes'[m] = nodes[m]
        BY <2>1, <2>4, <3>1, ExitedShape
      <3>3. ASSUME NEW k \in keep + 1 .. Len(path), path[k] = n
            PROVE  nodes[n].end = 0
        <4>1. k \in 1..Len(path) /\ 1 \in 1..Len(path) /\ k # 1
          BY <2>2
        <4>2. n # 1
          BY <2>1, <3>3, <4>1, Basics DEF PathIsBranch
        <4>3. QED
          BY <2>1, <2>2, <3>3, <4>1, <4>2 DEF OpenIffOnPath, OnPath
      <3>4. QED
        BY <2>2, <3>2, <3>3
    <2>5. CASE Stay \/ UNCHANGED vars
      BY <2>2, <2>5 DEF Stay, vars
    <2>6. QED
      BY <1>1, <2>3, <2>4, <2>5 DEF Next
  <1>2. IInv /\ [Next]_vars => [\A n \in 1..Len(nodes) : final(n)]_vars
    BY <1>1
  <1>3. QED
    BY <1>2, CallTreeInvariant, PTL DEF Spec, ClosedIsFinal

=============================================================================
