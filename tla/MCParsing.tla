------------------------------- MODULE MCParsing -------------------------------
(***************************************************************************)
(* The grammars, texts, scopes and selectors that the parser of grammars   *)
(* and the matching of scopes are checked with (GrammarParse and           *)
(* ScopeSelectors).                                                        *)
(***************************************************************************)
EXTENDS Naturals, Sequences

CONSTANTS NoName, Star, Aux

\* Patterns: a character, the two in a row, an empty match where an x
\* follows, and one at the end.
Patterns == {"x", "y", "xy", "ahead", "eol"}
Hits(t) == [p \in Patterns |->
  CASE p \in {"x", "y"} -> {<<i - 1, i>> : i \in {i \in DOMAIN t : t[i] = p}}
    [] p = "xy" -> {<<i - 1, i + 1>> : i \in {i \in 1 .. Len(t) - 1 : t[i] = "x" /\ t[i + 1] = "y"}}
    [] p = "ahead" -> {<<i - 1, i - 1>> : i \in {i \in DOMAIN t : t[i] = "x"}}
    [] p = "eol" -> {<<Len(t), Len(t)>>}]
TextOf(t) == [len |-> Len(t), hits |-> Hits(t)]
LineTexts == {{TextOf(<<"x", "y">>), TextOf(s)} : s \in {<<>>, <<"x", "x">>, <<"y", "x">>}}

Plain == [kind |-> "group", pattern |-> "x", close |-> "x", anchored |-> FALSE, name |-> NoName, content |-> NoName,
          kids |-> <<>>, target |-> 0, last |-> FALSE, caps |-> <<>>, closeCaps |-> <<>>, inj |-> <<>>]
Root(kids) == [Plain EXCEPT !.name = "root", !.kids = kids]
Include(r) == [Plain EXCEPT !.kind = "include", !.target = r]
Match(p, caps) == [Plain EXCEPT !.kind = "match", !.pattern = p, !.name = "m", !.caps = caps]
Begin(kind, p, q, name, kids) ==
  [Plain EXCEPT !.kind = kind, !.pattern = p, !.close = q, !.name = name, !.content = "in", !.kids = kids]
Capture(ahead, r) == [ahead |-> ahead, name |-> "cap", rule |-> r]

\* A match with captures, and a rule that includes the whole grammar.
\* Captured text is parsed by a group with one rule.
Nesting ==
  {<<Root(<<2, 3>>), Match(p, caps), [Begin("end", q, r, "b", <<6>>) EXCEPT !.last = l],
     [Plain EXCEPT !.kids = <<5>>], Begin("end", "ahead", "y", "c", <<>>), Include(1)>> :
     p \in {"x", "xy", "ahead"}, caps \in {<<>>, <<Capture(FALSE, 4), Capture(TRUE, 0)>>},
     q \in {"x", "ahead", "eol"}, r \in {"y", "eol"}, l \in BOOLEAN}

\* A rule that each line must confirm, with another inside.
Confirming ==
  {<<Root(<<2, 3>>), Begin("while", p, q, "w", <<1>>), [Begin("end", r, s, "b", <<1>>) EXCEPT !.closeCaps = caps]>> :
     p \in {"x", "ahead"}, q \in {"x", "y"}, r \in {"x", "y", "eol"}, s \in {"y", "ahead"},
     caps \in {<<>>, <<Capture(FALSE, 0)>>}}

\* A rule that is injected where a scope is, in front of the others or behind,
\* and that only matches where the search begins.
Injecting ==
  {<<[Root(<<2>>) EXCEPT !.inj = <<[left |-> l, when |-> w, rule |-> 3]>>],
     Begin("end", p, "y", "b", <<>>), [Match("x", <<>>) EXCEPT !.anchored = a]>> :
     l \in BOOLEAN, w \in {"root", "b"}, p \in {"x", "ahead"}, a \in BOOLEAN}

LineGrammars == Nesting \cup Confirming \cup Injecting

-----------------------------------------------------------------------------
Atoms == {<<"a">>, <<"b">>}
UpTo(S, n) == UNION {[1 .. k -> S] : k \in 0 .. n}
TriedScopes ==
  UpTo(Atoms \cup {<<"a", "b">>}, 3) \cup [1 .. 5 -> Atoms] \cup {s \o <<<<Aux>>>> : s \in [1 .. 2 -> Atoms]}
PathElements ==
  [atoms : Atoms, prev : BOOLEAN] \cup [atoms : {<<Star>>, <<"a", "b">>}, prev : {FALSE}]
TriedPaths ==
  [scopes : UNION {[1 .. k -> PathElements] : k \in 1 .. 2} \cup [1 .. 3 -> [atoms : Atoms, prev : BOOLEAN]],
   bol : BOOLEAN, eol : BOOLEAN]

SideScopes == UpTo({<<"a">>, <<"b">>}, 2)
OnePath(atom) == [scopes |-> <<[atoms |-> atom, prev |-> FALSE]>>, bol |-> FALSE, eol |-> FALSE]
Expressions(op) == [op : {op}, negate : BOOLEAN, side : {"none", "L", "B"}, path : {OnePath(<<"a">>), OnePath(<<"b">>)}]
TriedComposites ==
  {<<e, f, g>> : e \in Expressions("none"), f \in Expressions("or") \cup Expressions("and"),
                 g \in {x \in Expressions("minus") \cup Expressions("or") : ~x.negate /\ x.side # "B"}}
=============================================================================
