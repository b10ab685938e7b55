---------------------------- MODULE RedBlackTree ----------------------------
(***************************************************************************)
(* The tree of third_party/wepoll/Wepoll.c, which finds the state of a     *)
(* socket or of an epoll port: tree_add(), tree_del() and tree_find(),     *)
(* pointer by pointer.  The two halves of each macro, cis and trans, are   *)
(* the sides "left" and "right" in either order.                           *)
(*                                                                         *)
(* A node is named by its key: a tree has one node for a key.  The fields  *)
(* of a node that is not in the tree are those of a node just initialized. *)
(***************************************************************************)
EXTENDS Naturals, FiniteSets

CONSTANTS Keys,   \* numbers
          Null

Sides == {"left", "right"}
Other(side) == IF side = "left" THEN "right" ELSE "left"

VARIABLES
  tree,   \* root, child (left and right), parent and red of each node
  keys    \* history: the keys in it

TInit ==
  /\ tree = [root |-> Null, child |-> [s \in Sides |-> [k \in Keys |-> Null]],
             parent |-> [k \in Keys |-> Null], red |-> [k \in Keys |-> FALSE]]
  /\ keys = {}

-----------------------------------------------------------------------------
\* The side of its parent that a node is on
SideOf(t, node) ==
  IF t.child["left"][t.parent[node]] = node THEN "left" ELSE "right"

Red(t, node) == node # Null /\ t.red[node]
Colour(t, node, red) == [t EXCEPT !.red[node] = red]
SetParent(t, node, parent) ==
  IF node = Null THEN t ELSE [t EXCEPT !.parent[node] = parent]

\* What points to node, its parent or the tree, points to other.
Relink(t, node, other) ==
  IF t.parent[node] = Null THEN [t EXCEPT !.root = other]
  ELSE [t EXCEPT !.child[SideOf(t, node)][t.parent[node]] = other]

\* tree__rotate_left() is to the side "left".
Rotate(t, p, cis) ==
  LET trans == Other(cis)
      q == t.child[trans][p]
      moved == t.child[cis][q]
      linked == [Relink(t, p, q) EXCEPT !.parent[q] = t.parent[p], !.parent[p] = q,
                   !.child[trans][p] = moved, !.child[cis][q] = p]
  IN SetParent(linked, moved, p)

-----------------------------------------------------------------------------
(* tree_add()                                                              *)

\* The node below which a key belongs, or the one that has it
RECURSIVE Descend(_, _, _)
Descend(t, node, key) ==
  LET side == IF key < node THEN "left" ELSE "right"
  IN IF key = node \/ t.child[side][node] = Null THEN node
     ELSE Descend(t, t.child[side][node], key)

\* A node on the inner side changes places with its parent.
Outside(t, node, parent, cis) ==
  IF node = t.child[Other(cis)][parent]
  THEN [t |-> Rotate(t, parent, cis), parent |-> node]
  ELSE [t |-> t, parent |-> parent]

RECURSIVE RebalanceAfterInsert(_, _)
RebalanceAfterInsert(t, node) ==
  LET parent == t.parent[node]
  IN IF ~Red(t, parent) THEN t
     ELSE LET grandparent == t.parent[parent]
              cis == SideOf(t, parent)
              uncle == t.child[Other(cis)][grandparent]
              turned == Outside(t, node, parent, cis)
          IN IF Red(t, uncle)
             THEN RebalanceAfterInsert(
                    [t EXCEPT !.red[parent] = FALSE, !.red[uncle] = FALSE,
                              !.red[grandparent] = TRUE], grandparent)
             ELSE Rotate([turned.t EXCEPT !.red[turned.parent] = FALSE,
                                          !.red[grandparent] = TRUE],
                         grandparent, Other(cis))

\* The tree with the key, which it does not have
Inserted(t, key) ==
  LET parent == IF t.root = Null THEN Null ELSE Descend(t, t.root, key)
      linked == IF parent = Null THEN [t EXCEPT !.root = key]
                ELSE [t EXCEPT !.child[IF key < parent THEN "left" ELSE "right"][parent] = key]
      r == RebalanceAfterInsert([linked EXCEPT !.parent[key] = parent, !.red[key] = TRUE], key)
  IN Colour(r, r.root, FALSE)

-----------------------------------------------------------------------------
(* tree_del()                                                              *)

\* Mutant: the sibling's outer child keeps its colour.
MutBorrow(t, parent, sibling, cis) ==
  Rotate([t EXCEPT !.red[sibling] = t.red[parent], !.red[parent] = FALSE], parent, cis)

\* The sibling, whose outer child is red, takes the place of the parent.
Borrow(t, parent, sibling, cis) ==
  Rotate([t EXCEPT !.red[sibling] = t.red[parent], !.red[parent] = FALSE,
                   !.red[t.child[Other(cis)][sibling]] = FALSE], parent, cis)

\* node is Null when the subtree that lost a black node is empty.
RECURSIVE RebalanceAfterRemove(_, _, _)
RebalanceAfterRemove(t, node, parent) ==
  IF node = t.root THEN t
  ELSE
    LET cis == IF node = t.child["left"][parent] THEN "left" ELSE "right"
        trans == Other(cis)
        t1 == IF ~t.red[t.child[trans][parent]] THEN t
              ELSE Rotate([t EXCEPT !.red[t.child[trans][parent]] = FALSE,
                                    !.red[parent] = TRUE], parent, cis)
        sibling == t1.child[trans][parent]
        t2 == IF Red(t1, t1.child[trans][sibling]) THEN t1
              ELSE Rotate([t1 EXCEPT !.red[t1.child[cis][sibling]] = FALSE,
                                     !.red[sibling] = TRUE], sibling, trans)
        t3 == [t1 EXCEPT !.red[sibling] = TRUE]
    IN IF \E s \in Sides : Red(t1, t1.child[s][sibling])
       THEN Borrow(t2, parent, t2.child[trans][parent], cis)
       ELSE IF t3.red[parent] THEN Colour(t3, parent, FALSE)
       ELSE RebalanceAfterRemove(t3, parent, t3.parent[parent])

RECURSIVE Leftmost(_, _)
Leftmost(t, node) ==
  IF t.child["left"][node] = Null THEN node ELSE Leftmost(t, t.child["left"][node])

\* A node with two children: the next one gets its place and its colour, and is
\* missing where it was.  [t, node, parent, red] of the place that is missed.
Replace(t, node) ==
  LET left == t.child["left"][node]
      right == t.child["right"][node]
      next == Leftmost(t, right)
      rest == t.child["right"][next]
      placed == [Relink(t, node, next) EXCEPT !.red[next] = t.red[node],
                   !.child["left"][next] = left, !.parent[left] = next,
                   !.parent[next] = t.parent[node]]
      above == t.parent[next]
  IN IF next = right
     THEN [t |-> placed, node |-> rest, parent |-> next, red |-> t.red[next]]
     ELSE [t |-> [placed EXCEPT !.child["left"][above] = rest,
                                !.child["right"][next] = right, !.parent[right] = next],
           node |-> rest, parent |-> above, red |-> t.red[next]]

\* A node with at most one child
Unlink(t, node) ==
  LET next == IF t.child["left"][node] = Null THEN t.child["right"][node]
              ELSE t.child["left"][node]
  IN [t |-> Relink(t, node, next), node |-> next, parent |-> t.parent[node],
      red |-> t.red[node]]

\* The tree without the node
Removed(t, node) ==
  LET r == IF \E s \in Sides : t.child[s][node] = Null THEN Unlink(t, node)
           ELSE Replace(t, node)
      u == SetParent(r.t, r.node, r.parent)
      balanced == IF r.red THEN u
                  ELSE IF Red(u, r.node) THEN Colour(u, r.node, FALSE)
                  ELSE RebalanceAfterRemove(u, r.node, r.parent)
  IN [balanced EXCEPT !.child["left"][node] = Null, !.child["right"][node] = Null,
                      !.parent[node] = Null, !.red[node] = FALSE]

-----------------------------------------------------------------------------
\* tree_find()
Find(t, key) ==
  IF t.root = Null THEN FALSE ELSE Descend(t, t.root, key) = key

TreeAdd(key) ==
  /\ IF Find(tree, key) THEN UNCHANGED <<tree, keys>>
     ELSE tree' = Inserted(tree, key) /\ keys' = keys \cup {key}

TreeDel(key) ==
  /\ key \in keys
  /\ tree' = Removed(tree, key) /\ keys' = keys \ {key}

TNext == \E key \in Keys : TreeAdd(key) \/ TreeDel(key)

-----------------------------------------------------------------------------
\* The black nodes from a node down to a leaf: the set of their numbers
RECURSIVE BlackHeights(_)
BlackHeights(node) ==
  IF node = Null THEN {0}
  ELSE {h + (IF tree.red[node] THEN 0 ELSE 1) :
          h \in UNION {BlackHeights(tree.child[s][node]) : s \in Sides}}

\* After any sequence of insertions and removals, tree_find() finds exactly the
\* keys that are in the tree; parents and children agree; and the tree is
\* balanced: no red node has a red child, the root is black, and every way down
\* has the same number of black nodes.
TreeIsBalanced ==
  /\ \A k \in Keys : Find(tree, k) <=> k \in keys
  /\ \A k \in keys : \A s \in Sides :
       LET c == tree.child[s][k]
       IN c # Null => /\ c \in keys /\ tree.parent[c] = k
                      /\ ~(tree.red[k] /\ tree.red[c])
                      /\ (c < k) = (s = "left")
  /\ tree.root # Null => ~tree.red[tree.root] /\ tree.parent[tree.root] = Null
  /\ Cardinality(BlackHeights(tree.root)) = 1
=============================================================================
