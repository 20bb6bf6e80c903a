--------------------------------- MODULE Globs ---------------------------------
(***************************************************************************)
(* File globs: parse_glob.cc turns one into a regular expression, or into  *)
(* the strings its braces stand for, and glob.cc has lists of them.        *)
(*                                                                         *)
(* A glob and a path are sequences of characters.  A parsed glob is a      *)
(* sequence of branches, what is to match and then what may not; a branch  *)
(* is a sequence of nodes [is, text, alts].  The regular expression of a   *)
(* node is modelled by where its matches end.  The variable holds the case *)
(* under test.                                                             *)
(***************************************************************************)
EXTENDS Naturals, Sequences, FiniteSets, FiniteSetsExt, SequencesExt

CONSTANTS Inputs

VARIABLE input

Node(is, text, alts) == [is |-> is, text |-> text, alts |-> alts]
Text(s) == Node("text", s, <<>>)
CharAt(t, p) == IF p \in DOMAIN t THEN t[p] ELSE "end"
Read(p, nodes) == [ok |-> TRUE, at |-> p, nodes |-> nodes]
Fail(p) == [ok |-> FALSE, at |-> p, nodes |-> <<>>]

\* parse_escape: any character in a glob, a few where only braces are read.
Escape(kind, t, p) ==
  IF CharAt(t, p) = "\\" /\ p < Len(t) /\ (kind = "glob" \/ t[p + 1] \in {"\\", "{", ",", "}"})
  THEN Read(p + 2, <<Text(<<t[p + 1]>>)>>) ELSE Fail(p)

\* parse_optional, parse_any_recursive, parse_any, parse_character_class.
Wild(t, p) ==
  LET end == {q \in p + 1 .. Len(t) : t[q] = "]"}
  IN  CASE t[p] = "?" -> Read(p + 1, <<Node("optional", <<>>, <<>>)>>)
        [] t[p] = "*" -> IF CharAt(t, p + 1) # "*" THEN Read(p + 1, <<Node("any", <<>>, <<>>)>>)
                         ELSE IF CharAt(t, p + 2) # "/" THEN Read(p + 2, <<Node("deep", <<>>, <<>>)>>)
                         ELSE Read(p + 3, <<Node("deep", <<"/">>, <<>>)>>)
        [] t[p] = "[" -> IF end = {} THEN Fail(p)
                         ELSE Read(Min(end) + 1, <<Node("class", SubSeq(t, p + 1, Min(end) - 1), <<>>)>>)
        [] OTHER -> Fail(p)

RECURSIVE Branch(_, _, _, _, _), Alternatives(_, _, _, _)

\* Braces without a comma are text, in which only escapes mean something.
RECURSIVE Literal(_, _, _)
LiteralAt(escape, kind, t, p) ==
  IF escape.ok THEN escape.nodes \o Literal(kind, t, escape.at) ELSE <<Text(<<t[p]>>)>> \o Literal(kind, t, p + 1)
Literal(kind, t, p) == IF p > Len(t) THEN <<>> ELSE LiteralAt(Escape(kind, t, p), kind, t, p)

\* parse_brace_expansion.
Behind(alt, kind, t, p, alts) ==
  CASE CharAt(t, alt.at) = "," -> Alternatives(kind, t, alt.at + 1, Append(alts, alt.nodes))
    [] CharAt(t, alt.at) = "}" -> Read(alt.at + 1, Append(alts, alt.nodes))
    [] OTHER -> Fail(p)
Alternatives(kind, t, p, alts) == Behind(Branch(kind, t, p, TRUE, <<>>), kind, t, p, alts)
Group(group, kind, t, p) ==
  IF ~group.ok THEN Fail(p)
  ELSE IF Len(group.nodes) > 1 THEN Read(group.at, <<Node("group", <<>>, group.nodes)>>)
  ELSE Read(group.at, Literal(kind, SubSeq(t, p, group.at - 1), 1))
Braces(kind, t, p) == IF t[p] # "{" THEN Fail(p) ELSE Group(Alternatives(kind, t, p + 1, <<>>), kind, t, p)

\* parse, up to an exclusion, or within braces to what ends an alternative.
IsExclude(t, p) == t[p] \in {"!", "~"} /\ p < Len(t)
OrElse(found, other) == IF found.ok THEN found ELSE other
Then(found, kind, t, p, inBraces, nodes) ==
  IF found.ok THEN Branch(kind, t, found.at, inBraces, nodes \o found.nodes)
  ELSE IF kind = "glob" /\ ~inBraces /\ IsExclude(t, p) THEN Read(p, nodes)
  ELSE Branch(kind, t, p + 1, inBraces, Append(nodes, Text(<<t[p]>>)))
Branch(kind, t, p, inBraces, nodes) ==
  IF p > Len(t) \/ (inBraces /\ CharAt(t, p) \in {",", "}"}) THEN Read(p, nodes)
  ELSE Then(OrElse(Escape(kind, t, p), OrElse(IF kind = "glob" THEN Wild(t, p) ELSE Fail(p), Braces(kind, t, p))), kind, t, p, inBraces, nodes)
RECURSIVE Parse(_, _)
Branches(branch, t) == <<branch.nodes>> \o (IF branch.at > Len(t) THEN <<>> ELSE Parse(t, branch.at + 1))
Parse(t, p) == Branches(Branch("glob", t, p, FALSE, <<>>), t)

-----------------------------------------------------------------------------
(* to_regexp: where in s a match that starts behind i characters may end.  *)

\* (?!\.)|(?<!^|/): not before the dot of a hidden file.
NotHidden(s, i) == CharAt(s, i + 1) # "." \/ (i > 0 /\ s[i] # "/")
InComponent(s, i) == {j \in i .. Len(s) : \A k \in i + 1 .. j : s[k] # "/"}
NoDotAfterSlash(s, i, j) == \A k \in i + 1 .. j : s[k] = "/" => CharAt(s, k + 1) # "."
InClass(text, c) == IF text # <<>> /\ text[1] = "^" THEN c \notin Range(Tail(text)) ELSE c \in Range(text)

AnyEnds(dots, s, i) == IF dots \/ NotHidden(s, i) THEN InComponent(s, i) ELSE {}
\* A slash behind "**" is not one of those that a dot may not follow.
DeepEnds(dots, text, s, i) ==
  {i} \cup {j \in i + Len(text) .. Len(s) :
              /\ SubSeq(s, j - Len(text) + 1, j) = text
              /\ dots \/ (NotHidden(s, i) /\ NoDotAfterSlash(s, i, j - Len(text)))}

RECURSIVE Ends(_, _, _, _)
NodeEnds(n, dots, s, i) ==
  CASE n.is = "text"     -> IF CharAt(s, i + 1) = n.text[1] THEN {i + 1} ELSE {}
    [] n.is = "optional" -> IF i < Len(s) THEN {i + 1} ELSE {}
    [] n.is = "class"    -> IF i < Len(s) /\ InClass(n.text, s[i + 1]) THEN {i + 1} ELSE {}
    [] n.is = "any"      -> AnyEnds(dots, s, i)
    [] n.is = "deep"     -> DeepEnds(dots, n.text, s, i)
    [] n.is = "group"    -> UNION {Ends(n.alts[k], dots, s, {i}) : k \in DOMAIN n.alts}
Ends(nodes, dots, s, from) ==
  IF nodes = <<>> THEN from ELSE Ends(Tail(nodes), dots, s, UNION {NodeEnds(nodes[1], dots, s, i) : i \in from})

\* (?:.*/)?(?:...)$
FromHere(s) == {0} \cup {i \in DOMAIN s : s[i] = "/"}
Matches(nodes, dots, s) == Len(s) \in Ends(nodes, dots, s, FromHere(s))

\* convert_glob_to_regexp and does_match.  Nothing to match is anything; nothing
\* to exclude is nothing; and no glob matches nothing.
Included(nodes, dots, s) == nodes = <<>> \/ Matches(nodes, dots, s)
Excluded(branches, s) == \E i \in 2 .. Len(branches) : branches[i] # <<>> /\ Matches(branches[i], TRUE, s)
MatchesParsed(branches, dots, s) == Included(branches[1], dots, s) /\ ~Excluded(branches, s)
DoesMatch(glob, dots, s) == glob # <<>> /\ MatchesParsed(Parse(glob, 1), dots, s)

EscapeGlob(s) == FlattenSeq([i \in DOMAIN s |->
  IF s[i] \in {"[", "\\", "?", "*", "{", "~", "!"} THEN <<"\\", s[i]>> ELSE <<s[i]>>])

\* expand_braces: every string so far with every alternative behind it.  An empty
\* one that is not the first has no node and is lost.
RECURSIVE Expand(_, _), ExpandAlts(_, _)
ExpandAlts(strings, alts) ==
  IF Len(alts) = 1 THEN Expand(strings, alts[1])
  ELSE ExpandAlts(strings, Front(alts)) \o (IF Last(alts) = <<>> THEN <<>> ELSE Expand(strings, Last(alts)))
Expand(strings, nodes) ==
  IF nodes = <<>> THEN strings
  ELSE Expand(IF nodes[1].is = "text" THEN [i \in DOMAIN strings |-> strings[i] \o nodes[1].text]
              ELSE ExpandAlts(strings, nodes[1].alts), Tail(nodes))
ExpandBraces(t) == Expand(<<<<>>>>, Branch("braces", t, 1, FALSE, <<>>).nodes)

\* glob_list_t: the first glob for the type of item that matches decides; an empty
\* list excludes nothing.  A record is [glob, exclude, type].
ForType(record, type) == record.type = "any" \/ type = "any" \/ record.type = type
Exclude(list, s, type, default) ==
  LET Decided(hits) == IF hits = {} THEN default ELSE list[Min(hits)].exclude
  IN  list # <<>> /\ Decided({i \in DOMAIN list : ForType(list[i], type) /\ DoesMatch(list[i].glob, list[i].exclude, s)})
Include(list, s, type, default) == ~Exclude(list, s, type, ~default)

-----------------------------------------------------------------------------
Init == input \in Inputs

\* A glob matches what one of the strings its braces stand for matches.
BracesAgree(glob, s) == DoesMatch(glob, FALSE, s) <=> \E g \in Range(ExpandBraces(glob)) : DoesMatch(g, FALSE, s)

\* Escaped, a name matches itself in any folder and nothing else.
EscapedMatchesOnly(name, s) == DoesMatch(EscapeGlob(name), TRUE, s) <=> s = name \/ IsSuffix(<<"/">> \o name, s)

\* What matches "glob!not" matches the one and not the other; and the same from a
\* list that excludes the one and includes the other.
ExclusionAgrees(glob, not, s) ==
  LET both == DoesMatch(glob \o <<"!">> \o not, FALSE, s)
      List(type) == <<[glob |-> not, exclude |-> TRUE, type |-> type], [glob |-> glob, exclude |-> FALSE, type |-> "any"]>>
  IN  /\ both <=> DoesMatch(glob, FALSE, s) /\ ~DoesMatch(not, TRUE, s)
      /\ both <=> Include(List("file"), s, "file", FALSE)
      /\ DoesMatch(glob, FALSE, s) <=> Include(List("file"), s, "folder", FALSE)

\* Hidden files are matched only by a glob that spells the dot.
HiddenStays(glob, s) ==
  /\ DoesMatch(glob, FALSE, s) => DoesMatch(glob, TRUE, s)
  /\ DoesMatch(glob, FALSE, s) /\ Range(glob) \cap {"?", "."} = {} => s[Max({0} \cup {i \in DOMAIN s : s[i] = "/"}) + 1] # "."

GlobsHold ==
  CASE input.is = "braces"  -> \A s \in input.paths : BracesAgree(input.glob, s)
    [] input.is = "escaped" -> \A s \in input.paths : EscapedMatchesOnly(input.glob, s)
    [] input.is = "exclude" -> \A s \in input.paths : ExclusionAgrees(input.glob, input.not, s)
    [] input.is = "hidden"  -> \A s \in input.paths : HiddenStays(input.glob, s)

=============================================================================
