---------------------------- MODULE ScopeSelectors ----------------------------
(***************************************************************************)
(* Matching a scope against a selector: match.cc and scope.cc of the scope *)
(* framework.  A scope is a sequence of elements, the outermost first, an  *)
(* element is a sequence of atoms ("text.html" has two).  A path of a      *)
(* selector is                                                             *)
(*   [scopes |-> <<[atoms |-> ..., prev |-> BOOLEAN], ...>>, bol, eol]     *)
(* where prev is "> ", bol is "^ " and eol is " $".  The code walks from   *)
(* the innermost element outwards with room for one point to return to;    *)
(* the reference is the set of all ways to lay the path over the scope.    *)
(* A variable holds the scopes and the selector under test.                *)
(***************************************************************************)
EXTENDS Naturals, Sequences, FiniteSets, FiniteSetsExt, SequencesExt

CONSTANTS Scopes,     \* the scopes tried with a path
          Paths,      \* the paths tried
          Sides,      \* the scopes tried at both sides of a caret
          Composites, \* the sequences of expressions tried with them
          Aux,        \* the first atoms of elements that "$" skips: attr, dyn
          Star         \* the atom "*"

VARIABLE input        \* [left, right: scopes, path, composite]

\* node_t: its ancestors are the elements before it, node 0 is none.
AtomsOf(scope, node) == Len(scope[node])
IsAuxiliary(element) == element[1] \in Aux

\* prefix_match: the elements of a selector match as many atoms as they have.
PrefixMatch(lhs, rhs) ==
  /\ Len(lhs) <= Len(rhs)
  /\ \A i \in DOMAIN lhs : lhs[i] \in {rhs[i], Star}

\* 1 / exp2(n), in units of the smallest value that occurs.
Unit == 24
HalfToThe(n) == 2 ^ (Unit - n)
WeightAt(power, atoms) == MapThenSumSet(LAMBDA n : HalfToThe(power - n), 0 .. Len(atoms) - 1)

-----------------------------------------------------------------------------
(* path_t::does_match.  The state of its loop: the node and the selector's *)
(* element to match next, the score, the atoms passed so far, and the      *)
(* place to return to (bt = 0 is none, btNode = 0 with bt > 0 is the end   *)
(* that "$" asks for).                                                     *)

RECURSIVE SkipAuxiliary(_, _, _)
SkipAuxiliary(scope, node, power) ==
  IF node > 0 /\ IsAuxiliary(scope[node])
  THEN SkipAuxiliary(scope, node - 1, power + AtomsOf(scope, node))
  ELSE <<node, power>>

WalkInit(path, scope) ==
  LET skipped == IF path.eol THEN SkipAuxiliary(scope, Len(scope), 0) ELSE <<Len(scope), 0>>
  IN  [node |-> skipped[1], power |-> skipped[2], sel |-> Len(path.scopes), score |-> 0,
       bt |-> IF path.eol THEN Len(path.scopes) ELSE 0, btNode |-> 0, btScore |-> 0, back |-> 0]

ElementMatches(path, scope, w) ==
  /\ ~(path.bol /\ w.node > 1 /\ w.sel = 1)
  /\ PrefixMatch(path.scopes[w.sel].atoms, scope[w.node])

Passed(scope, w) == [w EXCEPT !.power = @ + AtomsOf(scope, w.node)]

\* A slip: the place to return to is moved along with the walk.
KeepAlways(path, w) ==
  IF ~path.scopes[w.sel].prev THEN [w EXCEPT !.bt = 0]
  ELSE [w EXCEPT !.bt = w.sel, !.btNode = w.node, !.btScore = w.score]

\* What the walk keeps to return to when it takes the element w.sel.
Keep(path, w) ==
  IF ~path.scopes[w.sel].prev THEN [w EXCEPT !.bt = 0]
  ELSE IF w.bt # 0 THEN w
  ELSE [w EXCEPT !.bt = w.sel, !.btNode = w.node, !.btScore = w.score]

Take(path, w) ==
  [Keep(path, w) EXCEPT !.score = @ + WeightAt(w.power, path.scopes[w.sel].atoms), !.sel = @ - 1, !.node = @ - 1]

Return(w) ==
  [w EXCEPT !.node = w.btNode - 1, !.sel = w.bt, !.score = w.btScore, !.bt = 0, !.back = @ + 1]

RECURSIVE Walk(_, _, _)
Walk(path, scope, w) ==
  IF w.node = 0 \/ w.sel = 0 THEN w
  ELSE IF ElementMatches(path, scope, w) THEN Walk(path, scope, Take(path, Passed(scope, w)))
  ELSE IF w.bt = 0 THEN Walk(path, scope, [Passed(scope, w) EXCEPT !.node = @ - 1])
  ELSE IF w.btNode = 0 THEN w
  ELSE Walk(path, scope, Return(Passed(scope, w)))

PathWalk(path, scope) == Walk(path, scope, WalkInit(path, scope))
PathMatches(path, scope) == PathWalk(path, scope).sel = 0
PathRank(path, scope) == PathWalk(path, scope).score

-----------------------------------------------------------------------------
(* composite_t::does_match over the expressions of a selector, each        *)
(* [op, negate, side, path] with side "L", "R", "B" or "none".  left and   *)
(* right are the scopes of a context_t; a plain path looks at the right.   *)

\* filter_t::does_match and, without a side, path_t::does_match.
ExpressionMatches(e, left, right) ==
  CASE e.side = "L" -> PathMatches(e.path, left)
    [] e.side = "B" -> PathMatches(e.path, left) /\ PathMatches(e.path, right)
    [] OTHER -> PathMatches(e.path, right)
ExpressionRank(e, left, right) ==
  CASE e.side = "L" -> PathRank(e.path, left)
    [] e.side = "B" -> Max({PathRank(e.path, left), PathRank(e.path, right)})
    [] OTHER -> PathRank(e.path, right)

Combine(res, op, local) ==
  CASE op = "none" -> local
    [] op = "or" -> res \/ local
    [] op = "and" -> res /\ local
    [] op = "minus" -> res /\ ~local

\* The result so far decides the expression without a look at the scope.
Skipped(res, op) == IF res THEN op = "or" ELSE op \in {"and", "minus"}

\* With no rank wanted.
CompositeMatches(composite, left, right) ==
  FoldLeft(LAMBDA res, e :
             IF Skipped(res, e.op) THEN res
             ELSE Combine(res, e.op, ExpressionMatches(e, left, right) # e.negate), FALSE, composite)

\* With the rank: the result, and the best rank of the parts that match.
CompositeRank(composite, left, right) ==
  FoldLeft(LAMBDA acc, e :
             LET local == ExpressionMatches(e, left, right)
             IN  <<Combine(acc[1], e.op, local # e.negate),
                   IF local THEN Max({acc[2], ExpressionRank(e, left, right)}) ELSE acc[2]>>, <<FALSE, 0>>, composite)

-----------------------------------------------------------------------------
(* scope.cc.                                                               *)

\* shared_prefix walks outwards until the elements are the same.
SharedPrefix(lhs, rhs) ==
  LET n == Min({Len(lhs), Len(rhs)})
      same == {i \in 1 .. n : lhs[i] = rhs[i]}
  IN  IF same = {} THEN <<>> ELSE SubSeq(lhs, 1, Max(same))

HasPrefix(lhs, rhs) == SubSeq(lhs, 1, Min({Len(lhs), Len(rhs)})) = rhs

\* xml_difference: the elements it closes and the ones it opens.
CommonRoot(from, to) == Max({k \in 0 .. Min({Len(from), Len(to)}) : SubSeq(from, 1, k) = SubSeq(to, 1, k)})
Difference(from, to) ==
  [closed |-> SubSeq(from, CommonRoot(from, to) + 1, Len(from)), opened |-> SubSeq(to, CommonRoot(from, to) + 1, Len(to))]

-----------------------------------------------------------------------------
(* The reference: a path matches when its elements can be laid on elements *)
(* of the scope, in order.                                                 *)

\* The last element that "$" may mean: what follows is auxiliary.
Innermost(scope) == Max({0} \cup {i \in DOMAIN scope : ~IsAuxiliary(scope[i])})

Layings(path, scope) ==
  LET n == Len(path.scopes)
  IN  {f \in [1 .. n -> DOMAIN scope] :
         /\ \A i \in 1 .. n : PrefixMatch(path.scopes[i].atoms, scope[f[i]])
         /\ \A i \in 2 .. n : IF path.scopes[i].prev THEN f[i] = f[i - 1] + 1 ELSE f[i] > f[i - 1]
         /\ path.bol => f[1] = 1
         /\ path.eol => f[n] = Innermost(scope)}

AtomsFrom(scope, i) == MapThenSumSet(LAMBDA k : AtomsOf(scope, k), i .. Len(scope))
LayingRank(path, scope, f) ==
  MapThenSumSet(LAMBDA i : WeightAt(AtomsFrom(scope, f[i]), path.scopes[i].atoms), DOMAIN f)

NoPath == [scopes |-> <<>>, bol |-> FALSE, eol |-> FALSE]

Init ==
  \/ \E s \in Scopes, p \in Paths : input = [left |-> s, right |-> s, path |-> p, composite |-> <<>>]
  \/ \E l, r \in Sides, c \in Composites : input = [left |-> l, right |-> r, path |-> NoPath, composite |-> c]

Next == UNCHANGED input
Spec == Init /\ [][Next]_input

\* The walk with its one place to return to finds a way to lay the path if
\* there is any (match.cc:31-107).
WalkFindsMatch == PathMatches(input.path, input.left) <=> Layings(input.path, input.left) # {}

\* Of several ways it takes the one of the best rank, unless it had to
\* return: it then counts the atoms of the elements it passes again
\* (match.cc:56).
WalkRanksBest ==
  LET w == PathWalk(input.path, input.left)
  IN  w.sel = 0 /\ w.back = 0 =>
        w.score = Max({LayingRank(input.path, input.left, f) : f \in Layings(input.path, input.left)})

\* A selector gives the same answer whether a rank is wanted or not
\* (match.cc:112-163).
RankedAsUnranked ==
  CompositeMatches(input.composite, input.left, input.right)
    <=> CompositeRank(input.composite, input.left, input.right)[1]

\* The prefix of the scopes at the two sides of a caret is a prefix of both
\* (scope.cc:180-195), if scopes that once differ have nothing in common
\* further in.
ForkOnce(lhs, rhs) ==
  \A i \in 1 .. Min({Len(lhs), Len(rhs)}) : lhs[i] = rhs[i] => SubSeq(lhs, 1, i) = SubSeq(rhs, 1, i)
PrefixIsShared ==
  ForkOnce(input.left, input.right) =>
    /\ HasPrefix(input.left, SharedPrefix(input.left, input.right))
    /\ HasPrefix(input.right, SharedPrefix(input.left, input.right))
    /\ Len(SharedPrefix(input.left, input.right)) = CommonRoot(input.left, input.right)
=============================================================================
