---------------------------- MODULE UniquenessTree ----------------------------
(***************************************************************************)
(* blst's test whether messages are distinct (src/rb_tree.c): an           *)
(* insert-only red-black tree in an array of nodes sized beforehand.  A    *)
(* message is a sequence of bytes; a node is the index of its record, and  *)
(* Nil is NULL.  The walk down the tree is kept, so that rebalancing can   *)
(* climb back up.                                                          *)
(***************************************************************************)
EXTENDS Integers, Sequences, FiniteSets

CONSTANT Messages    \* as many as blst_uniq_sizeof was told

ASSUME MessagesAssumption ==
    IsFiniteSet(Messages) /\ \A m \in Messages : m \in Seq(0 .. 255)

VARIABLES
    tree,       \* root, and nodes: sequence of records data, leafs, red
    inserted    \* the messages that were accepted

treeVars == <<tree, inserted>>

Nil == 0

Left == 1

Right == 2

Other(dir) == 3 - dir

\* Negative, zero or positive: the first byte that differs or else the length.
BytesCompare(a, b) ==
    LET n == IF Len(a) < Len(b) THEN Len(a) ELSE Len(b)
        differing == {i \in 1 .. n : a[i] # b[i]}
        first == CHOOSE i \in differing : \A j \in differing : i <= j
    IN IF differing = {} THEN Len(a) - Len(b) ELSE a[first] - b[first]

\* A round of the walk towards data, which ends at a node that holds it or at Nil.
Descend(t, data, w) ==
    LET cmp == BytesCompare(data, t.nodes[w.p].data)
        dir == IF cmp > 0 THEN Right ELSE Left
    IN IF w.p = Nil \/ w.found THEN w
       ELSE IF cmp = 0 THEN [w EXCEPT !.found = TRUE]
       ELSE [p |-> t.nodes[w.p].leafs[dir], found |-> FALSE,
             visited |-> Append(w.visited, w.p), dirs |-> Append(w.dirs, dir)]

\* From the root: the nodes visited and the directions taken.
Walk(t, data) ==
    LET walked[n \in 0 .. Len(t.nodes) + 1] ==
            IF n = 0 THEN [p |-> t.root, found |-> FALSE, visited |-> << >>, dirs |-> << >>]
            ELSE Descend(t, data, walked[n - 1])
    IN walked[Len(t.nodes) + 1]

Link(t, node, dir, leaf) == [t EXCEPT !.nodes[node].leafs[dir] = leaf]

\* t with the leaf at the k-th step of the walk replaced; the root if k is 0.
Hang(t, w, k, node) ==
    IF k > 0 THEN Link(t, w.visited[k], w.dirs[k], node) ELSE [t EXCEPT !.root = node]

Graft(t, w, data) ==
    LET z == Len(t.nodes) + 1
        node == [data |-> data, leafs |-> <<Nil, Nil>>, red |-> TRUE]
        grown == [t EXCEPT !.nodes = Append(@, node)]
    IN Hang(grown, w, Len(w.visited), z)

Red(t, node) == node # Nil /\ t.nodes[node].red

Paint(t, node, red) == [t EXCEPT !.nodes[node].red = red]

\* y, x's child in direction ydir, takes x's place and x becomes its child; if z
\* is y's inner child, z takes y's place first.
Rotate(t, w, k) ==
    LET x == w.visited[k - 1]
        ydir == w.dirs[k - 1]
        outer == w.visited[k]
        inner == t.nodes[outer].leafs[Other(ydir)]
        zig == w.dirs[k] # ydir
        y == IF zig THEN inner ELSE outer
        straight ==
            IF ~zig THEN t
            ELSE Link(Link(t, outer, Other(ydir), t.nodes[inner].leafs[ydir]), inner, ydir, outer)
        turned ==
            Link(Link(straight, x, ydir, straight.nodes[y].leafs[Other(ydir)]), y, Other(ydir), x)
    IN Hang(Paint(Paint(turned, x, TRUE), y, FALSE), w, k - 2, y)

(* (mutant: a red uncle is not painted black)                              *)
ClimbUncleRed(s, w) ==
    LET y == w.visited[s.k]
        x == w.visited[s.k - 1]
        uncle == s.t.nodes[x].leafs[Other(w.dirs[s.k - 1])]
    IN IF s.k < 2 \/ ~Red(s.t, y) THEN [s EXCEPT !.k = 0]
       ELSE IF Red(s.t, uncle)
       THEN [t |-> Paint(Paint(s.t, x, TRUE), y, FALSE), k |-> s.k - 2]
       ELSE [t |-> Rotate(s.t, w, s.k), k |-> 0]

\* One round: the node k steps down is red and so may be its parent y.
Climb(s, w) ==
    LET y == w.visited[s.k]
        x == w.visited[s.k - 1]
        uncle == s.t.nodes[x].leafs[Other(w.dirs[s.k - 1])]
    IN IF s.k < 2 \/ ~Red(s.t, y) THEN [s EXCEPT !.k = 0]
       ELSE IF Red(s.t, uncle)
       THEN [t |-> Paint(Paint(Paint(s.t, x, TRUE), y, FALSE), uncle, FALSE), k |-> s.k - 2]
       ELSE [t |-> Rotate(s.t, w, s.k), k |-> 0]

\* rb_tree_insert: whether data was new, and the tree with it.
Insert(t, data) ==
    LET w == Walk(t, data)
        depth == Len(w.visited)
        climbed[n \in 0 .. depth] ==
            IF n = 0 THEN [t |-> Graft(t, w, data), k |-> depth] ELSE Climb(climbed[n - 1], w)
        balanced == climbed[depth].t
    IN IF w.found THEN [new |-> FALSE, tree |-> t]
       ELSE [new |-> TRUE, tree |-> Paint(balanced, balanced.root, FALSE)]

----------------------------------------------------------------------------

\* blst_uniq_init
UniqInit ==
    /\ tree = [root |-> Nil, nodes |-> << >>]
    /\ inserted = {}

\* blst_uniq_test
UniqTest ==
    \E m \in Messages :
        LET answer == Insert(tree, m)
        IN /\ tree' = answer.tree
           /\ inserted' = IF answer.new THEN inserted \cup {m} ELSE inserted

UniqSpec == UniqInit /\ [][UniqTest]_treeVars

----------------------------------------------------------------------------

\* The messages below a node in order, and the numbers of black nodes on the
\* ways down to its leaves; a node whose depth is above fuel counts for none.
Below(fuel) ==
    LET below[n \in 0 .. fuel] ==
            [node \in 0 .. Len(tree.nodes) |->
                IF node = Nil \/ n = 0 THEN [data |-> << >>, blacks |-> {0}]
                ELSE LET left == below[n - 1][tree.nodes[node].leafs[Left]]
                         right == below[n - 1][tree.nodes[node].leafs[Right]]
                         black == IF tree.nodes[node].red THEN 0 ELSE 1
                     IN [data |-> left.data \o <<tree.nodes[node].data>> \o right.data,
                         blacks |-> {b + black : b \in left.blacks \cup right.blacks}]]
    IN below[fuel]

\* 2^n
TwoTo(n) ==
    LET twoTo[k \in 0 .. n] == IF k = 0 THEN 1 ELSE 2 * twoTo[k - 1]
    IN twoTo[n]

\* The tree holds the accepted messages in order, once each and nothing else,
\* so that a message is refused exactly if it is there; and it stays balanced,
\* which keeps the walk within the 64 entries of the code's arrays: no red
\* node has a red leaf and every way down has as many black nodes, so that it
\* is at most twice as long as the logarithm of the size.
UniquenessHolds ==
    LET all == Below(Len(tree.nodes))[tree.root]
    IN /\ \A m \in Messages : Insert(tree, m).new <=> m \notin inserted
       /\ {all.data[i] : i \in DOMAIN all.data} = inserted
       /\ \A i \in 2 .. Len(all.data) : BytesCompare(all.data[i - 1], all.data[i]) < 0
       /\ Cardinality(all.blacks) = 1
       /\ ~Red(tree, tree.root)
       /\ \A node \in DOMAIN tree.nodes : Red(tree, node) =>
            \A dir \in {Left, Right} : ~Red(tree, tree.nodes[node].leafs[dir])
       /\ \A m \in Messages :
            TwoTo(Len(Walk(tree, m).visited)) <= (Len(tree.nodes) + 1) * (Len(tree.nodes) + 1)
=============================================================================
