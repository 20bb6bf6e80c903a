------------------------------ MODULE MCLookups ------------------------------
(***************************************************************************)
(* The inputs that the modules of lookups and conversions are checked with *)
(* (Settings, FormatStrings, PathNames, Globs).                            *)
(***************************************************************************)
EXTENDS Naturals, Sequences, FiniteSets, FiniteSetsExt

SequencesUpTo(S, n) == UNION {[1 .. k -> S] : k \in 0 .. n}

\* Up to three sections of the default file, the global one, and one of a
\* directory; and of two directories.
SectionKinds ==
  [is : {"plain"}, rank : {1}, value : {"new", "old", "cwd"}]
    \cup [is : {"scope"}, rank : 1 .. 2, value : {"new", "old"}]
    \cup [is : {"glob"}, rank : 0 .. 1, value : {"new", "old", "cwd"}] \cup [is : {"scope"}, rank : {0}, value : {"new"}]
InFile(f, k) == [file |-> f, is |-> k.is, rank |-> k.rank, value |-> k.value]
AscendingFiles == {fs \in SequencesUpTo(1 .. 4, 3) : \A i \in 1 .. Len(fs) - 1 : fs[i] <= fs[i + 1]}
TriedCascades ==
  UNION {{[i \in DOMAIN fs |-> InFile(fs[i], ks[i])] : ks \in [DOMAIN fs -> SectionKinds]} :
           fs \in {fs \in AscendingFiles : fs \in SequencesUpTo(1 .. 3, 2) \/ fs \in {<<1, 2, 2>>, <<1, 1, 2>>, <<2, 3, 3>>, <<3, 3, 3>>, <<3, 3, 4>>, <<1, 3, 4>>}}}

SettingStrings == SequencesUpTo({"x", "'", "\"", "\\", "space", "tab", "nl", "#", ";", "]"}, 3)

Default(name, value) == [name |-> name, value |-> value]
TriedDefaults ==
  {<<>>, <<Default(<<>>, "a")>>, <<Default(<<"t">>, "a"), Default(<<>>, "b")>>,
   <<Default(<<"*">>, "a"), Default(<<"t", "p">>, "a")>>, <<Default(<<"*", "*">>, "a"), Default(<<"*">>, "b")>>}

-----------------------------------------------------------------------------
\* Strings of every construct; each is tried as it is, without one of its
\* characters, and with one replaced.
Constructs ==
  {<<"$", "{", "a", "}", "b">>, <<"$", "a", "b">>, <<"$", "{", "a", ":", "+", "b", "}">>, <<"$", "{", "a", ":", "b", "}">>,
   <<"$", "{", "a", ":", "?", "b", ":", "\\", "}", "}">>, <<"$", "{", "a", ":", "-", "$", "{", "b", "}", "}">>,
   <<"$", "{", "a", ":", "/", "up", "/", "up", "}">>, <<"$", "{", "a", "/", "b", "/", "$", "0", "/", "g", "}">>,
   <<"$", "{", "a", "/", "$", "{", "b", "}", "\\", "/", "/", "/", "}">>, <<"$", "{", "a", ":", "$", "{", "a", ":", "+", "$", "b", "}", "}">>,
   <<"(", "?", "1", ":", "a", ":", "$", "b", ")">>, <<"(", "?", "1", ":", "(", "?", "1", ":", "a", ")", ")">>,
   <<"\\", "U", "a", "\\", "E", "\\", "n", "\\", "$">>, <<"\\", "x", "{", "1", "}", "\\", "x", "1", "1", "\\", "\\">>,
   <<"$", "1", "$", "{", "1", ":", "a", "}">>, <<"$", "{", "1", ":", "$", "{", "1", "1", ":", "\\", "}", "}", "}">>,
   <<"$", "{", "1", "|", "a", ",", "\\", ",", "|", "}">>, <<"$", "{", "1", "/", "a", "/", "$", "{", "b", "}", "/", "g", "}">>,
   <<"tick", "a", "\\", "tick", "tick", "$", "{", "1", "}", "tick">>}
Without(s, i) == SubSeq(s, 1, i - 1) \o SubSeq(s, i + 1, Len(s))
FormatChars == {"$", "{", "}", ":", "/", "\\", "(", ")", "|", "1", "a", "?", "tick"}
Broken ==
  Constructs \cup UNION {{Without(s, i) : i \in DOMAIN s} : s \in Constructs}
    \cup UNION {{[s EXCEPT ![i] = c] : i \in DOMAIN s, c \in FormatChars} : s \in Constructs}
\* std::stoul throws for \x{}.
WithoutCode(s) == \A i \in 1 .. Len(s) - 3 : SubSeq(s, i, i + 3) # <<"\\", "x", "{", "}">>

CaseBits ==
  {<<"\\", c>> : c \in {"U", "L", "E", "u", "l"}}
    \cup {<<"a", "B">>, <<"$", "a", "B">>, <<"$", "{", "b", ":", "?", "\\", "u", ":", "B", "\\", "l", "}">>, <<"$", "{", "a", ":", "/", "up", "}">>,
          <<"$", "{", "a", "/", "a", "/", "\\", "U", "b", "/", "g", "}">>}
CasedTexts == {w \o x \o y \o z : w \in CaseBits, x \in CaseBits, y \in CaseBits, z \in {<<"a">>, <<"\\", "l", "A", "A">>}}
FormatInputs ==
  [is : {"format", "snippet"}, text : {s \in Broken : WithoutCode(s)}]
    \cup [is : {"expand"}, text : CasedTexts, env : {[x \in {<<"a">>} |-> <<"a", "B">>]}]
    \cup [is : {"replace"}, text : SequencesUpTo({"a", "b"}, 4), pattern : SequencesUpTo({"a", "b"}, 2)]
    \cup [is : {"escape"}, text : SequencesUpTo({"a", "U", "n", "$", "(", "\\", "'", "nl", "space"}, 3)]

-----------------------------------------------------------------------------
LastOfAll(s) == s[Len(s)]
NoDoubles(s, c) == \A i \in 2 .. Len(s) : ~(s[i] = c /\ s[i - 1] = c)
Rooted == {<<"/">> \o s : s \in SequencesUpTo({"/", ".", "a"}, 3)} \cup {<<"/", "a", "/", "b">>, <<"/", "b", "/", "a">>}
ShellWords == SequencesUpTo({"a", "space", "'", "\\", "nl", "\""}, 2) \ {<<>>}
FilePaths(n) ==
  {<<"/">> \o s : s \in {t \in SequencesUpTo({"/", "a", "b"}, n) : t # <<>> /\ LastOfAll(t) # "/" /\ t[1] # "/" /\ NoDoubles(t, "/")}}
OrderOfChars == [c \in {"/", "a", "b"} |-> IF c = "/" THEN 1 ELSE IF c = "a" THEN 2 ELSE 3]
DuplicateNames == SequencesUpTo({"a", ".", "copy", "2"}, 3) \ {<<>>, <<".">>, <<".", ".">>}
TakenPaths == {<<"/", "a">>, <<"/", "a", "copy">>, <<"/", "a", "copy", "2">>, <<"/", "a", ".", "a">>}

\* One link or two, none in place of a folder of the other.
LinkTexts == {<<"/", "b">>, <<"b">>, <<"/", "a">>, <<"b", "/", "a">>, <<".", ".", "/", "a">>, <<"/", "b", "/", "a">>}
LinkPlaces == {<<"/", "a">>, <<"/", "b">>, <<"/", "a", "/", "b">>, <<"/", "b", "/", "a">>}
Beside(s, t) == Len(s) > Len(t) \/ SubSeq(t, 1, Len(s)) # s
TriedLinks ==
  {l \in UNION {[S -> LinkTexts] : S \in kSubset(1, LinkPlaces) \cup kSubset(2, LinkPlaces)} :
     /\ \A x, y \in DOMAIN l : x # y => Beside(x, y)
     /\ \A x \in DOMAIN l : l[x][1] = "." => Len(x) > 2}
PathInputs ==
  [is : {"path"}, path : SequencesUpTo({"/", ".", "a"}, 6)]
    \cup [is : {"relative"}, path : Rooted, base : Rooted]
    \cup {[is |-> "words", words |-> <<v, w>>] : v \in ShellWords, w \in ShellWords}
    \cup {[is |-> "names", paths |-> <<p, q, r>>, order |-> OrderOfChars] :
            p \in FilePaths(3), q \in FilePaths(3), r \in {<<"/", "a">>, <<"/", "b", "/", "a">>, <<"/", "a", "/", "b", "/", "a">>}}
    \cup [is : {"unique"}, path : {<<"/">> \o n : n \in DuplicateNames}, suffix : {<<>>, <<"copy">>},
          taken : SUBSET TakenPaths, numbers : {<<"2", "3", "4">>}]
    \cup [is : {"links"}, path : {p \in FilePaths(4) : Len(p) < 7}, links : TriedLinks]

-----------------------------------------------------------------------------
\* Globs with braces, without an empty alternative behind a comma.
BracedGlobs ==
  {g \in SequencesUpTo({"a", "{", ",", "}", "*"}, 5) :
     /\ \E i \in DOMAIN g : g[i] = "{"
     /\ Cardinality({i \in DOMAIN g : g[i] = "*"}) < 2
     /\ \A k \in 2 .. Len(g) : ~(g[k - 1] = "," /\ g[k] \in {",", "}"})}
BracedPaths ==
  {<<"a">>, <<"a", "a">>, <<",", "a">>, <<"{", "a">>, <<"{", "a", "}">>, <<"a", ",", "a">>, <<"a", "}">>, <<"{", "}">>, <<"/", "a", ",">>}
OddNames == SequencesUpTo({"a", "{", ",", "}", "*", "!", "\\", "?"}, 2) \ {<<>>}
SomePaths == {s \in SequencesUpTo({"a", ".", "/"}, 4) : s # <<>> /\ LastOfAll(s) # "/" /\ NoDoubles(s, "/")}
FewGlobs ==
  {<<"a">>, <<"*">>, <<"a", "/", "*">>, <<"*", "*">>, <<"{", "a", ",", "?", "}">>, <<"[", "^", "a", "]">>, <<"*", "*", "/", "a">>}
GlobInputs ==
  [is : {"braces"}, glob : BracedGlobs, paths : {BracedPaths}]
    \cup {[is |-> "escaped", glob |-> g, paths |-> OddNames \cup {<<"/">> \o g, <<"a", "/", "a">>}] : g \in OddNames}
    \cup [is : {"exclude"}, glob : FewGlobs, not : FewGlobs, paths : {SomePaths}]
    \cup [is : {"hidden"}, glob : SequencesUpTo({"a", "*", "/", "?"}, 4) \ {<<>>}, paths : {SomePaths}]
=============================================================================
