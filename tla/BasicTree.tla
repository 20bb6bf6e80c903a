------------------------------- MODULE BasicTree -------------------------------
(***************************************************************************)
(* The balanced tree that the storage, the indexed maps and the rows of    *)
(* the layout are kept in.  A node has a key relative to what is before    *)
(* it, and the sum of the keys below it.                                   *)
(*                                                                         *)
(* Where a node is in memory does not matter: nodes go by their place in   *)
(* the order they were inserted in, and 0 is the node that is_null.        *)
(***************************************************************************)
EXTENDS Naturals, Sequences, FiniteSetsExt

CONSTANTS Keys, MaxNodes

VARIABLES tree, size

vars == <<tree, size>>

Null == 0
Ids == 0..MaxNodes
Nowhere == [n \in Ids |-> Null]
EmptyTree == [root |-> Null, left |-> Nowhere, right |-> Nowhere, parent |-> Nowhere, level |-> Nowhere, key |-> Nowhere, sum |-> Nowhere]

IsNull(t, n) == t.level[n] = 0
Eq(t, m, n) == (IsNull(t, m) /\ IsNull(t, n)) \/ m = n
Summed(t, n) == [t EXCEPT !.sum[n] = t.sum[t.left[n]] + t.key[n] + t.sum[t.right[n]]]

\* The pointer to a node: the root, or a child of another.
LeftOf(n) == [side |-> "left", of |-> n]
RightOf(n) == [side |-> "right", of |-> n]
PlaceOf(t, n) ==
  IF IsNull(t, t.parent[n]) THEN [side |-> "root", of |-> Null]
  ELSE IF Eq(t, t.left[t.parent[n]], n) THEN LeftOf(t.parent[n]) ELSE RightOf(t.parent[n])
At(t, place) == IF place.side = "root" THEN t.root ELSE t[place.side][place.of]
Put(t, place, n) == IF place.side = "root" THEN [t EXCEPT !.root = n] ELSE [t EXCEPT ![place.side][place.of] = n]
Under(t, n, p) == IF IsNull(t, n) THEN t ELSE [t EXCEPT !.parent[n] = p]

Skew(t, place) ==
  LET a == At(t, place)
      b == t.left[a]
      u == Under(t, t.right[b], a)
      v == [u EXCEPT !.parent[b] = u.parent[a], !.parent[a] = b, !.left[a] = u.right[b], !.right[b] = a]
  IN IF t.level[a] # t.level[b] THEN t ELSE Summed(Summed(Put(v, place, b), a), b)

Split(t, place) ==
  LET a == At(t, place)
      c == t.right[a]
      u == Under(t, t.left[c], a)
      v == [u EXCEPT !.parent[c] = u.parent[a], !.parent[a] = c, !.right[a] = u.left[c], !.left[c] = a, !.level[c] = @ + 1]
  IN IF t.level[a] # t.level[t.right[c]] THEN t ELSE Summed(Summed(Put(v, place, c), a), c)

RECURSIVE Leftmost(_, _), Rightmost(_, _)
Leftmost(t, n) == IF IsNull(t, t.left[n]) THEN n ELSE Leftmost(t, t.left[n])
Rightmost(t, n) == IF IsNull(t, t.right[n]) THEN n ELSE Rightmost(t, t.right[n])
Pred(t, n) == Rightmost(t, t.left[n])
Succ(t, n) == Leftmost(t, t.right[n])

\* insert_node: new goes before node, or to the end, and what is above it is
\* balanced again.
RECURSIVE Grown(_, _)
Grown(t, n) ==
  IF IsNull(t, n) THEN t
  ELSE LET u == Summed(t, n)
           place == PlaceOf(u, n)
           v == Split(Skew(u, place), place)
       IN Grown(v, v.parent[At(v, place)])

InsertNode(t, node, new) ==
  LET last == Rightmost(t, t.root)
      place == IF IsNull(t, node) THEN IF IsNull(t, last) THEN [side |-> "root", of |-> Null] ELSE RightOf(last)
               ELSE IF IsNull(t, t.left[node]) THEN LeftOf(node) ELSE RightOf(Pred(t, node))
  IN Grown([Put(t, place, new) EXCEPT !.parent[new] = place.of], new)

\* remove_node: a leaf takes the place of the node.  What is above the leaf's
\* old place lost a level, perhaps.
Lowered(t, n) ==
  LET down == [t EXCEPT !.level[n] = @ - 1]
      both == IF down.level[n] < down.level[t.right[n]] THEN [down EXCEPT !.level[t.right[n]] = @ - 1] ELSE down
      place == PlaceOf(t, n)
      r(u) == RightOf(At(u, place))
      rr(u) == RightOf(At(u, r(u)))
      s1 == Skew(both, place)
      s2 == Skew(s1, r(s1))
      s3 == Skew(s2, rr(s2))
      s4 == Split(s3, place)
  IN [tree |-> Split(s4, r(s4)), place |-> place]

RECURSIVE Shrunk(_, _)
Shrunk(t, n) ==
  IF IsNull(t, n) THEN t
  ELSE LET u == Summed(t, n)
           even == {u.level[n] - u.level[u.left[n]], u.level[n] - u.level[u.right[n]]} \subseteq {0, 1}
       IN IF even THEN Shrunk(u, u.parent[n])
          ELSE LET v == Lowered(u, n) IN Shrunk(v.tree, v.tree.parent[At(v.tree, v.place)])

Unhooked(t, leaf) ==
  LET child == IF IsNull(t, t.left[leaf]) THEN t.right[leaf] ELSE t.left[leaf]
  IN Put(Under(t, child, t.parent[leaf]), PlaceOf(t, leaf), child)
Inherits(t, node, leaf) ==
  LET u == IF ~Eq(t, t.parent[leaf], node)
           THEN [Unhooked(t, leaf) EXCEPT !.left[leaf] = Unhooked(t, leaf).left[node], !.right[leaf] = Unhooked(t, leaf).right[node]]
           ELSE IF ~Eq(t, t.left[node], leaf) THEN [t EXCEPT !.left[leaf] = t.left[node]]
           ELSE [t EXCEPT !.right[leaf] = t.right[node]]
  IN [Under(Under(u, u.left[leaf], leaf), u.right[leaf], leaf)
        EXCEPT !.parent[leaf] = t.parent[node], !.level[leaf] = t.level[node]]

RemoveNode(t, node) ==
  LET leaf == IF ~IsNull(t, t.left[node]) THEN Pred(t, node) ELSE Succ(t, node)
      bottom == IF Eq(t, t.parent[leaf], node) THEN leaf ELSE t.parent[leaf]
  IN IF IsNull(t, t.left[node]) /\ IsNull(t, t.right[node])
     THEN Shrunk(Put(t, PlaceOf(t, node), Null), t.parent[node])
     ELSE Shrunk(Put(Inherits(t, node, leaf), PlaceOf(t, node), leaf), bottom)

-----------------------------------------------------------------------------
\* Iterators: a node, and the sum of what is before it.
RECURSIVE UpFromRight(_, _), UpFromLeft(_, _)
UpFromRight(t, n) == IF Eq(t, n, t.right[t.parent[n]]) THEN UpFromRight(t, t.parent[n]) ELSE t.parent[n]
UpFromLeft(t, n) == IF Eq(t, n, t.left[t.parent[n]]) THEN UpFromLeft(t, t.parent[n]) ELSE t.parent[n]
Begin(t) == [node |-> Leftmost(t, t.root), offset |-> 0]
End == [node |-> Null, offset |-> 0]
Forth(t, it) ==
  [node |-> IF ~IsNull(t, t.right[it.node]) THEN Succ(t, it.node) ELSE UpFromRight(t, it.node),
   offset |-> it.offset + t.key[it.node]]

RECURSIVE LastOffset(_, _)
LastOffset(t, n) == t.sum[t.left[n]] + (IF IsNull(t, t.right[n]) THEN 0 ELSE t.key[n] + LastOffset(t, t.right[n]))
Back(t, it) ==
  IF IsNull(t, it.node) THEN [node |-> Rightmost(t, t.root), offset |-> LastOffset(t, t.root)]
  ELSE LET n == IF ~IsNull(t, t.left[it.node]) THEN Pred(t, it.node) ELSE UpFromLeft(t, it.node)
       IN [node |-> n, offset |-> it.offset - t.key[n]]

\* lower_bound, and upper_bound if beyond, of an offset.
RECURSIVE Bound(_, _, _, _, _)
Bound(t, x, y, offset, beyond) ==
  LET at == x.offset + t.sum[t.left[x.node]] IN
  IF IsNull(t, x.node) THEN y
  ELSE IF offset < at \/ (offset = at /\ ~beyond)
  THEN Bound(t, [x EXCEPT !.node = t.left[@]], [node |-> x.node, offset |-> at], offset, beyond)
  ELSE Bound(t, [node |-> t.right[x.node], offset |-> at + t.key[x.node]], y, offset, beyond)
LowerBound(t, offset) == Bound(t, [node |-> t.root, offset |-> 0], End, offset, FALSE)
UpperBound(t, offset) == Bound(t, [node |-> t.root, offset |-> 0], End, offset, TRUE)
Found(t, offset) == LET it == LowerBound(t, offset) IN IF ~IsNull(t, it.node) /\ it.offset = offset THEN it ELSE End

-----------------------------------------------------------------------------
\* The nodes by other names: m was from[m], n is name[n].
Renamed(t, from, name) ==
  LET pointers(f) == [m \in Ids |-> name[f[from[m]]]]
      plain(f) == [m \in Ids |-> f[from[m]]]
  IN [root |-> name[t.root], left |-> pointers(t.left), right |-> pointers(t.right), parent |-> pointers(t.parent),
      level |-> plain(t.level), key |-> plain(t.key), sum |-> plain(t.sum)]
NewNode(t, n, key) ==
  [Renamed(t, [m \in Ids |-> IF m < n THEN m ELSE IF m = n THEN Null ELSE m - 1], [m \in Ids |-> IF m < n THEN m ELSE m + 1])
     EXCEPT !.level[n] = 1, !.key[n] = key, !.sum[n] = key]
Disposed(t, first, last) ==
  LET gone == last - first IN
  Renamed(t, [m \in Ids |-> IF m < first THEN m ELSE IF m + gone > size THEN Null ELSE m + gone],
          [n \in Ids |-> IF n < first THEN n ELSE n - gone])

RECURSIVE EraseRange(_, _, _)
EraseRange(t, it, last) ==
  IF Eq(t, it.node, last) THEN t ELSE EraseRange(RemoveNode(t, it.node), Forth(t, it), last)

RECURSIVE KeyUpdated(_, _)
KeyUpdated(t, n) == IF IsNull(t, n) THEN t ELSE KeyUpdated(Summed(t, n), t.parent[n])

Init == tree = EmptyTree /\ size = 0

\* insert: before the n-th node, or at the end.
Insert(n, key) ==
  /\ size < MaxNodes
  /\ tree' = InsertNode(NewNode(tree, n, key), IF n > size THEN Null ELSE n + 1, n)
  /\ size' = size + 1

\* erase: from the node first, not the node last.
Erase(first, last) ==
  /\ tree' = Disposed(EraseRange(tree, [node |-> first, offset |-> 0], IF last > size THEN Null ELSE last), first, last)
  /\ size' = size - (last - first)

\* update_key: up to the root.
Update(n, key) ==
  /\ tree' = KeyUpdated([tree EXCEPT !.key[n] = key], n)
  /\ UNCHANGED size

Next ==
  \/ \E n \in 1..(size + 1), key \in Keys : Insert(n, key)
  \/ \E first \in 1..size : \E last \in (first + 1)..(size + 1) : Erase(first, last)
  \/ \E n \in 1..size, key \in Keys : Update(n, key)

Spec == Init /\ [][Next]_vars

-----------------------------------------------------------------------------
\* The node that stands for nothing stays what it is.
NullUntouched == \A f \in DOMAIN tree \ {"root"} : tree[f][Null] = Null

\* structural_integrity: no path is more than twice as long as another, and
\* parents and sums are right.
Balanced ==
  \A n \in 1..size :
    /\ tree.level[n] = tree.level[tree.left[n]] + 1
    /\ tree.level[n] - tree.level[tree.right[n]] \in {0, 1}
    /\ tree.level[n] > tree.level[tree.right[tree.right[n]]]
    /\ \A c \in {tree.left[n], tree.right[n]} \ {Null} : tree.parent[c] = n
    /\ tree.sum[n] = tree.sum[tree.left[n]] + tree.key[n] + tree.sum[tree.right[n]]

\* Where the n-th node is.
Offset[n \in Nat] == IF n <= 1 THEN 0 ELSE Offset[n - 1] + tree.key[n - 1]
Node(n) == IF n > size THEN End ELSE [node |-> n, offset |-> Offset[n]]

\* Iterators visit the nodes in their order, either way.
InOrder ==
  /\ Begin(tree) = Node(1)
  /\ \A n \in 1..size : /\ Forth(tree, Node(n)).node = Node(n + 1).node
                        /\ Back(tree, IF n < size THEN Node(n + 1) ELSE End) = Node(n)

\* An offset is looked up as if one node after the other was.
BoundsFound ==
  \A o \in 0..(Offset[size + 1] + 1) :
    LET first(S) == IF S = {} THEN End ELSE Node(Min(S)) IN
    /\ LowerBound(tree, o) = first({n \in 1..size : Offset[n] >= o})
    /\ UpperBound(tree, o) = first({n \in 1..size : Offset[n] > o})
    /\ Found(tree, o) = first({n \in 1..size : Offset[n] = o})

TreeSound == NullUntouched /\ Balanced /\ InOrder /\ BoundsFound
=============================================================================
