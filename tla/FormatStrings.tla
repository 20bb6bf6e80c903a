----------------------------- MODULE FormatStrings -----------------------------
(***************************************************************************)
(* Format strings and snippets: parser.cc reads a string into nodes, and   *)
(* format_string.cc expands them.                                          *)
(*                                                                         *)
(* A string is a sequence of characters.  "a" and "b" stand for letters,   *)
(* "A" and "B" are the same in upper case, "1" for digits; "up" is the     *)
(* name of a case change, and "chr" what \x makes.  A node is              *)
(*   [is, name, a, b, opt]                                                 *)
(* with the name or text of the node, the nodes within (pattern, format,   *)
(* content; choices), and its options.  A regular expression is the string *)
(* that it matches.  The variable holds the case under test.               *)
(***************************************************************************)
EXTENDS Naturals, Sequences, FiniteSets, FiniteSetsExt, SequencesExt

CONSTANTS Inputs, None

VARIABLE input

Node(is, name, a, b, opt) == [is |-> is, name |-> name, a |-> a, b |-> b, opt |-> opt]
Leaf(is, name) == Node(is, name, <<>>, <<>>, <<>>)

Digits == {"0", "1"}
Letters == {"a", "b", "A", "B", "up"}
Options == {"g"}   \* of "giems", which are letters elsewhere

CharAt(t, p) == IF p <= Len(t) THEN t[p] ELSE "end"
SpanEnd(t, p, chars) == Min({q \in p .. Len(t) + 1 : CharAt(t, q) \notin chars})
Span(t, p, chars) == SubSeq(t, p, SpanEnd(t, p, chars) - 1)
Fail(p) == [ok |-> FALSE, at |-> p, nodes |-> <<>>]
Read(p, nodes) == [ok |-> TRUE, at |-> p, nodes |-> nodes]
One(p, node) == Read(p, <<node>>)
OrElse(found, other) == IF found.ok THEN found ELSE other

\* parse_until: where the stop character is, 0 for nowhere, and the text before
\* it, in which a backslash hides stop characters and itself.
RECURSIVE Until(_, _, _, _)
Until(t, p, stop, res) ==
  IF p > Len(t) THEN [at |-> 0, text |-> <<>>]
  ELSE IF t[p] \in stop THEN [at |-> p, text |-> res]
  ELSE LET q == IF t[p] = "\\" /\ CharAt(t, p + 1) \in stop \cup {"\\"} THEN p + 1 ELSE p
       IN  Until(t, q + 1, stop, Append(res, t[q]))

\* text_node: a character is put behind the text before it.
AddText(nodes, c) ==
  IF nodes # <<>> /\ Last(nodes).is = "text" THEN [nodes EXCEPT ![Len(nodes)].name = Append(@, c)]
  ELSE Append(nodes, Leaf("text", <<c>>))
Joined(nodes, more) ==
  IF nodes # <<>> /\ Last(nodes).is = "text" /\ more # <<>> /\ more[1].is = "text"
  THEN FoldLeft(AddText, nodes, more[1].name) \o Tail(more)
  ELSE nodes \o more

-----------------------------------------------------------------------------
(* The parser: what is read at place p of t.                               *)

VariableSimple(t, p) ==
  LET digits == Span(t, p + 1, Digits)  name == Span(t, p + 1, Letters \cup Digits)
  IN  IF digits # <<>> THEN One(p + 1 + Len(digits), Leaf("variable", digits))
      ELSE IF name # <<>> THEN One(p + 1 + Len(name), Leaf("variable", name)) ELSE Fail(p)

CaseChanges == {"U", "L", "E", "u", "l"}
ControlCodes == [n |-> "nl", t |-> "tab", r |-> "cr"]

\* \x{...} and \xHH.
HexCode(t, p) ==
  LET value == Until(t, p + 3, {"}"}, <<>>)
  IN  IF CharAt(t, p + 2) = "{" /\ value.at > 0
      THEN IF Range(value.text) \subseteq Digits THEN One(value.at + 1, Leaf("text", <<"chr">>)) ELSE Fail(p)
      ELSE IF CharAt(t, p + 2) \in Digits /\ CharAt(t, p + 3) \in Digits THEN One(p + 4, Leaf("text", <<"chr">>))
      ELSE Fail(p)

Escape(t, p, chars) ==
  IF CharAt(t, p + 1) \in chars THEN One(p + 2, Leaf("text", <<t[p + 1]>>)) ELSE Fail(p)

\* parse_control_code, parse_case_change, parse_escape.
Backslash(kind, t, p, chars) ==
  LET c == CharAt(t, p + 1)
      hex == HexCode(t, p)
  IN  IF kind = "format" /\ c \in DOMAIN ControlCodes THEN One(p + 2, Leaf("text", <<ControlCodes[c]>>))
      ELSE IF kind = "format" /\ c = "x" /\ hex.ok THEN hex
      ELSE IF kind = "format" /\ c \in CaseChanges THEN One(p + 2, Leaf("case", <<c>>))
      ELSE Escape(t, p, chars)

Special(kind) == IF kind = "format" THEN {"\\", "$", "("} ELSE {"\\", "$", "tick"}

\* A character that begins nothing.
Plain(t, p) == One(p + 1, Leaf("text", <<t[p]>>))

RECURSIVE Content(_, _, _, _, _), VariableComplex(_, _, _), Pattern(_, _, _), ChoiceList(_, _, _)

\* "/" pattern "/" format "/" options "}"
OptionsEnd(t, p) == p + Len(Span(t, p, Options))
Formatted(is, name, pattern, format, t) ==
  IF format.ok /\ CharAt(t, OptionsEnd(t, format.at)) = "}"
  THEN One(OptionsEnd(t, format.at) + 1, Node(is, name, pattern, format.nodes, Span(t, format.at, Options))) ELSE Fail(format.at)
TransformBy(pattern, t, p, name) ==
  IF CharAt(t, pattern.at) = "/"
  THEN Formatted("transform", name, pattern.nodes, Content("format", t, pattern.at + 1, {"/"}, <<>>), t) ELSE Fail(p)
Transform(t, p, name) == TransformBy(Pattern(t, p, <<>>), t, p, name)

PatternBehind(element, t, nodes) == Pattern(t, element.at, Joined(nodes, element.nodes))
Pattern(t, p, nodes) ==
  IF CharAt(t, p) \in {"/", "end"} THEN Read(p, nodes)
  ELSE PatternBehind(OrElse(CASE t[p] = "\\" -> Escape(t, p, {"\\", "/"})
                               [] t[p] = "$" -> VariableComplex("format", t, p)
                               [] OTHER -> Fail(p), Plain(t, p)), t, nodes)

\* ":+", ":?", ":-" and ":" alone.
Whole(is, name, set, content, p) ==
  IF content.ok THEN One(content.at, IF is = "fallback" THEN Node(is, name, content.nodes, <<>>, <<>>) ELSE Node(is, name, set, content.nodes, <<>>))
  ELSE Fail(p)
ConditionalOn(set, kind, t, p, name) ==
  IF set.ok /\ t[p] = "+" THEN One(set.at, Node("condition", name, set.nodes, <<>>, <<>>))
  ELSE IF set.ok THEN Whole("condition", name, set.nodes, Content(kind, t, set.at, {"}"}, <<>>), p)
  ELSE Fail(p)
Conditional(kind, t, p, name) ==
  ConditionalOn(Content(kind, t, p + 1, {IF t[p] = "+" THEN "}" ELSE ":"}, <<>>), kind, t, p, name)
Fallback(kind, t, p, name) ==
  Whole("fallback", name, <<>>, Content(kind, t, IF CharAt(t, p) = "-" THEN p + 1 ELSE p, {"}"}, <<>>), p)

\* ":/" and the names of changes: "up" is the only one that is known here.
RECURSIVE Changes(_, _, _, _)
Changes(t, p, name, known) ==
  LET option == Until(t, p, {"/", "}"}, <<>>)
      all == IF option.text = <<"up">> THEN <<"up">> ELSE known
  IN  IF option.at = 0 THEN Fail(p)
      ELSE IF t[option.at] = "}" THEN One(option.at + 1, Node("change", name, <<>>, <<>>, all))
      ELSE Changes(t, option.at + 1, name, all)

VariableComplex(kind, t, p) ==
  LET name == Until(t, p + 2, {"/", ":", "}"}, <<>>)
      q    == name.at + 1
  IN  IF CharAt(t, p + 1) # "{" \/ name.at = 0 THEN Fail(p)
      ELSE CASE t[name.at] = "}" -> One(q, Leaf("variable", name.text))
             [] t[name.at] = "/" -> Transform(t, q, name.text)
             [] t[name.at] = ":" ->
                  CASE CharAt(t, q) \in {"+", "?"} -> Conditional(kind, t, q, name.text)
                    [] CharAt(t, q) = "/" -> Changes(t, q + 1, name.text, <<>>)
                    [] OTHER -> Fallback(kind, t, q, name.text)

\* parse_condition: (?1:set:not), (?1:set).
ConditionOn(set, index, t, p) ==
  IF ~set.ok THEN Fail(p)
  ELSE IF t[set.at - 1] = ")" THEN One(set.at, Node("condition", index, set.nodes, <<>>, <<>>))
  ELSE Whole("condition", index, set.nodes, Content("format", t, set.at, {")"}, <<>>), p)
Condition(t, p) ==
  LET index == Span(t, p + 2, Digits)
  IN  IF CharAt(t, p + 1) # "?" \/ index = <<>> \/ CharAt(t, p + Len(index) + 2) # ":" THEN Fail(p)
      ELSE ConditionOn(Content("format", t, p + Len(index) + 3, {":", ")"}, <<>>), index, t, p)

\* parse_placeholder: $1, ${1}, ${1:content}, ${1/regexp/format/options}, ${1|choices|}.
\* The nodes of a choice that has no end are kept: "${1|}" has one.
ChoicesBehind(choice, t, p, all) ==
  IF ~choice.ok THEN [ok |-> t[p - 1] = "|", at |-> p, nodes |-> all]
  ELSE IF t[choice.at - 1] = "," THEN ChoiceList(t, choice.at, all)
  ELSE Read(choice.at, all)
ChoiceWith(choice, t, p, choices) == ChoicesBehind(choice, t, p, Append(choices, Node("choice", <<>>, choice.nodes, <<>>, <<>>)))
ChoiceList(t, p, choices) == ChoiceWith(Content("format", t, p, {",", "|"}, <<>>), t, p, choices)
MirrorOf(regexp, t, p, index) ==
  IF regexp.at > 0
  THEN Formatted("mirror", index, <<Leaf("text", regexp.text)>>, Content("format", t, regexp.at + 1, {"/"}, <<>>), t) ELSE Fail(p)
Mirror(t, p, index) == MirrorOf(Until(t, p, {"/"}, <<>>), t, p, index)
ChoicesOf(choices, t, p, index) ==
  IF choices.ok /\ CharAt(t, choices.at) = "}"
  THEN One(choices.at + 1, Node("choices", index, choices.nodes, <<>>, <<>>)) ELSE Fail(p)
Filled(content, p, index) ==
  IF content.ok THEN One(content.at, Node("placeholder", index, content.nodes, <<>>, <<>>)) ELSE Fail(p)
Braced(t, p, index) ==
  CASE CharAt(t, p) = ":" -> Filled(Content("snippet", t, p + 1, {"}"}, <<>>), p, index)
    [] CharAt(t, p) = "/" -> Mirror(t, p + 1, index)
    [] CharAt(t, p) = "|" -> ChoicesOf(ChoiceList(t, p + 1, <<>>), t, p, index)
    [] CharAt(t, p) = "}" -> One(p + 1, Leaf("placeholder", index))
    [] OTHER -> Fail(p)
Placeholder(t, p) ==
  LET index == Span(t, p + 1, Digits)  inside == Span(t, p + 2, Digits)
  IN  IF index # <<>> THEN One(p + 1 + Len(index), Leaf("placeholder", index))
      ELSE IF CharAt(t, p + 1) = "{" /\ inside # <<>> THEN Braced(t, p + 2 + Len(inside), inside) ELSE Fail(p)

Code(t, p) ==
  LET code == Until(t, p + 1, {"tick"}, <<>>) IN IF code.at > 0 THEN One(code.at + 1, Leaf("code", code.text)) ELSE Fail(p)

Variable(kind, t, p) == OrElse(VariableSimple(t, p), VariableComplex(kind, t, p))
Dollar(kind, t, p) == OrElse(IF kind = "snippet" THEN Placeholder(t, p) ELSE Fail(p), Variable(kind, t, p))

\* What begins at p, if it is more than text.
Element(kind, t, p, stop) ==
  CASE t[p] = "$" -> Dollar(kind, t, p)
    [] t[p] = "(" /\ kind = "format" -> Condition(t, p)
    [] t[p] = "tick" /\ kind = "snippet" -> Code(t, p)
    [] t[p] = "\\" -> Backslash(kind, t, p, Special(kind) \cup stop)
    [] OTHER -> Fail(p)

\* parse_format_string and parse_snippet: up to a stop character, or the end.
Behind(element, kind, t, stop, nodes) == Content(kind, t, element.at, stop, Joined(nodes, element.nodes))
Content(kind, t, p, stop, nodes) ==
  IF CharAt(t, p) \in stop THEN Read(p + 1, nodes)
  ELSE IF p > Len(t) THEN [ok |-> stop = {}, at |-> p, nodes |-> nodes]
  ELSE Behind(OrElse(Element(kind, t, p, stop), Plain(t, p)), kind, t, stop, nodes)

Parse(kind, t) == Content(kind, t, 1, {}, <<>>)

-----------------------------------------------------------------------------
(* The way to write nodes (which the program has no need to do): every     *)
(* construct in its form with braces, characters that mean something       *)
(* behind a backslash.                                                     *)
Escaped(s, chars) == FlattenSeq([i \in DOMAIN s |-> IF s[i] \in chars THEN <<"\\", s[i]>> ELSE <<s[i]>>])

RECURSIVE Shown(_, _, _)
ShownNode(kind, n, stop) ==
  LET Name == Escaped(n.name, {"\\", "/", ":", "}"})
  IN  CASE n.is = "text" -> Escaped(n.name, Special(kind) \cup stop)
        [] n.is = "variable" -> <<"$", "{">> \o Name \o <<"}">>
        [] n.is = "case" -> <<"\\">> \o n.name
        [] n.is = "condition" -> <<"$", "{">> \o Name \o <<":", "?">> \o Shown(kind, n.a, {":"}) \o <<":">> \o Shown(kind, n.b, {"}"}) \o <<"}">>
        [] n.is = "fallback" -> <<"$", "{">> \o Name \o <<":", "-">> \o Shown(kind, n.a, {"}"}) \o <<"}">>
        [] n.is = "change" -> <<"$", "{">> \o Name \o <<":", "/">> \o n.opt \o <<"}">>
        [] n.is = "transform" -> <<"$", "{">> \o Name \o <<"/">> \o Shown("pattern", n.a, {"/"}) \o <<"/">> \o Shown("format", n.b, {"/"}) \o <<"/">> \o n.opt \o <<"}">>
        [] n.is = "code" -> <<"tick">> \o Escaped(n.name, {"\\", "tick"}) \o <<"tick">>
        [] n.is = "placeholder" -> <<"$", "{">> \o n.name \o <<":">> \o Shown("snippet", n.a, {"}"}) \o <<"}">>
        [] n.is = "mirror" -> <<"$", "{">> \o n.name \o <<"/">> \o Escaped(n.a[1].name, {"\\", "/"}) \o <<"/">> \o Shown("format", n.b, {"/"}) \o <<"/">> \o n.opt \o <<"}">>
        [] n.is = "choices" -> <<"$", "{">> \o n.name \o <<"|">> \o FlattenSeq([i \in DOMAIN n.a |->
             Shown("format", n.a[i].a, {",", "|"}) \o <<IF i < Len(n.a) THEN "," ELSE "|">>]) \o <<"}">>
Shown(kind, nodes, stop) ==
  FlattenSeq([i \in DOMAIN nodes |->
    IF kind = "pattern" THEN IF nodes[i].is = "text" THEN Escaped(nodes[i].name, {"\\", "/"}) ELSE ShownNode("format", nodes[i], {})
    ELSE ShownNode(kind, nodes[i], stop)])

-----------------------------------------------------------------------------
(* The expansion: acc is the visitor's [res, changes], where a change of   *)
(* case is <<place, style>>.                                               *)
UpperOf == [a |-> "A", b |-> "B"]
LowerOf == [A |-> "a", B |-> "b"]
Cased(map, s) == [i \in DOMAIN s |-> IF s[i] \in DOMAIN map THEN map[s[i]] ELSE s[i]]
Styled(style, s) ==
  CASE style \in {"U", "u"} -> Cased(UpperOf, s)
    [] style \in {"L", "l"} -> Cased(LowerOf, s)
    [] style = "E" -> s
Nothing == [res |-> <<>>, changes |-> <<>>]

\* handle_case_changes: the text from each change to the next in its style, of
\* which two are for a character only.
Piece(res, from, to, style) ==
  LET end == IF style \in {"u", "l"} /\ from < to THEN from + 1 ELSE to
  IN  Styled(style, SubSeq(res, from + 1, end)) \o SubSeq(res, end + 1, to)
CaseChanged(acc) ==
  LET changes == <<<<0, "E">>>> \o acc.changes \o <<<<Len(acc.res), "E">>>>
  IN  FlattenSeq([i \in 1 .. Len(changes) - 1 |-> Piece(acc.res, changes[i][1], changes[i + 1][1], changes[i][2])])

Value(env, name) == IF name \in DOMAIN env THEN env[name] ELSE None

\* The first match of the pattern at or behind a place, None without one.
Search(pattern, s, from) ==
  LET matches == {i \in from .. Len(s) - Len(pattern) : SubSeq(s, i + 1, i + Len(pattern)) = pattern}
  IN  IF matches = {} THEN None ELSE Min(matches)

RECURSIVE Traverse(_, _, _), Replace(_, _, _, _, _, _, _)

\* Mutant: after an empty match no character is kept.
AfterEmptyLost(s, it) == <<>>

AfterEmpty(s, it) == <<s[it + 1]>>

\* replace: res is what there is for s up to it.
Replace(s, pattern, format, repeat, env, it, res) ==
  LET m    == Search(pattern, s, it)
      end  == m + Len(pattern)
      here == Traverse(format, [x \in DOMAIN env \cup {<<"0">>} |-> IF x = <<"0">> THEN pattern ELSE env[x]], Nothing)
      new  == res \o SubSeq(s, it + 1, m) \o CaseChanged(here)
  IN  IF m = None THEN res \o SubSeq(s, it + 1, Len(s))
      ELSE IF ~repeat \/ (pattern = <<>> /\ end = Len(s)) THEN new \o SubSeq(s, end + 1, Len(s))
      ELSE IF pattern = <<>> THEN Replace(s, pattern, format, repeat, env, end + 1, new \o AfterEmpty(s, end))
      ELSE Replace(s, pattern, format, repeat, env, end, new)

Add(acc, s) == [acc EXCEPT !.res = @ \o s]
Visit(n, env, acc) ==
  LET value == Value(env, n.name)
  IN  CASE n.is = "text" -> Add(acc, n.name)
        [] n.is = "case" -> [acc EXCEPT !.changes = Append(@, <<Len(acc.res), n.name[1]>>)]
        [] n.is = "variable" -> IF value = None THEN acc ELSE Add(acc, value)
        [] n.is = "fallback" -> IF value = None THEN Traverse(n.a, env, acc) ELSE Add(acc, value)
        [] n.is = "condition" -> Traverse(IF value = None THEN n.b ELSE n.a, env, acc)
        [] n.is = "change" -> IF value = None THEN acc ELSE Add(acc, IF n.opt = <<>> THEN value ELSE Cased(UpperOf, value))
        [] n.is = "transform" ->
             Add(acc, Replace(IF value = None THEN <<>> ELSE value, CaseChanged(Traverse(n.a, env, Nothing)), n.b, n.opt # <<>>, env, 0, <<>>))
Traverse(nodes, env, acc) == FoldLeft(LAMBDA r, n : Visit(n, env, r), acc, nodes)
ExpandNodes(nodes, env) == CaseChanged(Traverse(nodes, env, Nothing))

\* format_string::expand has a short cut, format_string::escape is its inverse.
Expand(t, env) == IF Range(t) \cap {"$", "(", "\\"} = {} THEN t ELSE ExpandNodes(Parse("format", t).nodes, env)
EscapeFormat(s) ==
  FlattenSeq([i \in DOMAIN s |->
    CASE s[i] = "nl" -> <<"\\", "n">>
      [] s[i] \in {"$", "("} \/ (s[i] = "\\" /\ i < Len(s) /\ s[i + 1] \in {"\\", "$", "(", "t", "r", "n"}) -> <<"\\", s[i]>>
      [] OTHER -> <<s[i]>>])

\* shell_escape: words between single quotes, quoted if they have to be.
QuotedWord(word) == IF Range(word) \cap {"$", "(", "\\", "tick", "nl", "space", "|"} # {} THEN <<"'">> \o word \o <<"'">> ELSE word
RECURSIVE ShellEscape(_)
ShellEscape(s) ==
  LET word == SubSeq(s, 1, Min({i \in 0 .. Len(s) : CharAt(s, i + 1) \in {"'", "end"}}))
  IN  IF Len(word) = Len(s) THEN QuotedWord(word)
      ELSE QuotedWord(word) \o <<"\\", "'">> \o ShellEscape(SubSeq(s, Len(word) + 2, Len(s)))

-----------------------------------------------------------------------------
Init == input \in Inputs

\* However a construct is broken, all of the string is read; and written down,
\* what was read is read again.  (A "$" in the pattern of a transformation has no
\* form that is not a variable; in a snippet, one whose name begins with a digit
\* may have none that is not a placeholder.)
RECURSIVE Ambiguous(_, _)
Ambiguous(kind, nodes) ==
  \E i \in DOMAIN nodes :
    \/ nodes[i].is = "transform" /\ \E j \in DOMAIN nodes[i].a : nodes[i].a[j].is = "text" /\ "$" \in Range(nodes[i].a[j].name)
    \/ kind = "snippet" /\ nodes[i].is \notin {"text", "placeholder", "mirror", "choices"} /\ nodes[i].name # <<>> /\ nodes[i].name[1] \in Digits
    \/ Ambiguous(kind, nodes[i].a) \/ Ambiguous(kind, nodes[i].b)
ReadAgain(read, kind, t) ==
  /\ read.ok /\ read.at = Len(t) + 1
  /\ ~Ambiguous(kind, read.nodes) => Parse(kind, Shown(kind, read.nodes, {})).nodes = read.nodes
ReadsAgain(kind, t) == ReadAgain(Parse(kind, t), kind, t)

\* A change of case holds until the next, or for a character; told one by one.
RECURSIVE Emitted(_, _)
Emitted(nodes, env) ==
  FlattenSeq([i \in DOMAIN nodes |->
    CASE nodes[i].is = "case" -> <<nodes[i]>>
      [] nodes[i].is = "condition" -> Emitted(IF Value(env, nodes[i].name) = None THEN nodes[i].b ELSE nodes[i].a, env)
      [] nodes[i].is = "fallback" /\ Value(env, nodes[i].name) = None -> Emitted(nodes[i].a, env)
      [] OTHER -> LET s == Visit(nodes[i], env, Nothing).res IN [j \in DOMAIN s |-> Leaf("text", <<s[j]>>)]])
CaseOneByOne(acc, item) ==
  IF item.is = "case" THEN [acc EXCEPT !.style = item.name[1]]
  ELSE [style |-> IF acc.style \in {"u", "l"} THEN "E" ELSE acc.style, res |-> acc.res \o Styled(acc.style, item.name)]
CasesApply(t, env) ==
  LET nodes == Parse("format", t).nodes
  IN  ExpandNodes(nodes, env) = FoldLeft(CaseOneByOne, [style |-> "E", res |-> <<>>], Emitted(nodes, env)).res

\* Replaced by itself, every match, a string stays what it is; replaced by
\* nothing, it is without the pattern.
ReplacesEach(s, pattern) ==
  /\ Replace(s, pattern, <<Leaf("variable", <<"0">>)>>, TRUE, <<>>, 0, <<>>) = s
  /\ Replace(s, pattern, <<Leaf("case", <<"U">>), Leaf("variable", <<"0">>)>>, FALSE, <<>>, 0, <<>>) =
       IF Search(pattern, s, 0) = None THEN s
       ELSE LET m == Search(pattern, s, 0) IN SubSeq(s, 1, m) \o Cased(UpperOf, pattern) \o SubSeq(s, m + Len(pattern) + 1, Len(s))

\* An escaped string expands to itself, unless a backslash is before a letter
\* that makes a change of case, or a code, or before a control character.
EscapesHold(s) ==
  (\A i \in 1 .. Len(s) - 1 : s[i] = "\\" => s[i + 1] \notin CaseChanges \cup {"x", "nl"}) => Expand(EscapeFormat(s), <<>>) = s

\* The shell reads one word, the string that was escaped, if it is not empty.
RECURSIVE ShellWord(_, _)
ShellWord(t, quoted) ==
  IF t = <<>> THEN <<>>
  ELSE IF t[1] = "'" THEN ShellWord(Tail(t), ~quoted)
  ELSE IF quoted \/ t[1] \notin {"\\", "$", "(", "tick", "nl", "space", "|"} THEN <<t[1]>> \o ShellWord(Tail(t), quoted)
  ELSE IF t[1] = "\\" /\ Len(t) > 1 THEN <<t[2]>> \o ShellWord(SubSeq(t, 3, Len(t)), FALSE)
  ELSE <<"split">>
ShellReads(s) == ShellWord(ShellEscape(s), FALSE) = s

FormatsHold ==
  CASE input.is \in {"format", "snippet"} -> ReadsAgain(input.is, input.text)
    [] input.is = "expand" -> CasesApply(input.text, input.env)
    [] input.is = "replace" -> ReplacesEach(input.text, input.pattern)
    [] input.is = "escape" -> EscapesHold(input.text) /\ ShellReads(input.text)
=============================================================================
