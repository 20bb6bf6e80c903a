------------------------------- MODULE PathNames -------------------------------
(***************************************************************************)
(* Paths as strings, and the links in them: path.cc.                       *)
(*                                                                         *)
(* A path is a sequence of characters.  "copy" is the suffix of a          *)
(* duplicate, and a number behind a space is one character, of Numbers.    *)
(* The variable holds the case under test.                                 *)
(***************************************************************************)
EXTENDS Naturals, Sequences, FiniteSets, FiniteSetsExt, SequencesExt

CONSTANTS Inputs, None

VARIABLE input

Root == <<"/">>
IsAt(s, i, c) == i \in DOMAIN s /\ s[i] = c
StartsWith(s, prefix) == IsPrefix(prefix, s)

\* The components between slashes; what a slash ends has nothing behind it.
RECURSIVE Split(_)
Split(s) ==
  LET n == Min({i \in 1 .. Len(s) + 1 : i = Len(s) + 1 \/ IsAt(s, i, "/")})
  IN  IF s = <<>> THEN <<>> ELSE <<SubSeq(s, 1, n - 1)>> \o Split(SubSeq(s, n + 1, Len(s)))
Joined(components) ==
  FoldLeft(LAMBDA r, i : r \o (IF i = 1 THEN <<>> ELSE <<"/">>) \o components[i], <<>>, [i \in DOMAIN components |-> i])
JoinComponents(components) == IF components = <<<<>>>> THEN Root ELSE Joined(components)

\* remove_current_dir: "/./" and "//" become "/", and the end of "a/." and "a/"
\* is dropped.  (Of "/." nothing is left, and "./." is an exception: None.)
RemoveCurrentDir(p) ==
  LET Step(out, i) ==
        IF i > 1 /\ p[i] = "/" /\ p[i - 1] = "." /\ (i = 2 \/ p[i - 2] = "/") THEN Front(out)
        ELSE IF i > 1 /\ p[i] = "/" /\ p[i - 1] = "/" THEN out ELSE Append(out, p[i])
      Cut(out) == IF Len(out) > 1 /\ Last(p) = "/" THEN 1
                  ELSE IF Len(p) > 1 /\ p[Len(p) - 1] = "/" /\ Last(p) = "." THEN 2 ELSE 0
      Short(out, cut) == IF cut > Len(out) THEN None ELSE SubSeq(out, 1, Len(out) - cut)
      Shorter(out) == Short(out, Cut(out))
  IN  Shorter(FoldLeft(Step, <<>>, [i \in DOMAIN p |-> i]))

\* remove_parent_dir: from the end to the beginning each ".." swallows a
\* component, or is kept.  A component goes with the slash behind it, as the
\* string is read backwards.
RECURSIVE Kept(_, _)
Kept(s, toSkip) ==
  LET end   == Min({i \in 2 .. Len(s) + 1 : i = Len(s) + 1 \/ IsAt(s, i, "/")})
      part  == SubSeq(s, 1, end - 1)
      after == SubSeq(s, end, Len(s))
  IN  IF s = <<>> THEN FlattenSeq([i \in 1 .. toSkip |-> <<"/", ".", ".">>])
      ELSE IF part \in {<<".", ".">>, <<"/", ".", ".">>} THEN Kept(after, toSkip + 1)
      ELSE IF toSkip > 0 THEN Kept(after, toSkip - 1)
      ELSE part \o Kept(after, 0)
WithoutSlash(p) == IF p # <<>> /\ Last(p) = "/" THEN Front(p) ELSE p
KeptOf(p) == WithoutSlash(Reverse(Kept(Reverse(p), 0)))
RemoveParentDir(p) ==
  IF p = None THEN None ELSE IF IsAt(p, 1, "/") THEN Root \o KeptOf(Tail(p)) ELSE KeptOf(p)

Normalize(p) == RemoveParentDir(RemoveCurrentDir(p))

LastAt(s, c) == Max({0} \cup {i \in DOMAIN s : s[i] = c})
BaseOf(path) == SubSeq(path, LastAt(path, "/") + 1, Len(path))
Name(p) == BaseOf(Normalize(p))
Join(base, p) == Normalize(IF IsAt(p, 1, "/") THEN p ELSE base \o <<"/">> \o p)
Parent(p) == IF p = Root THEN p ELSE Join(p, <<".", ".">>)

\* extension, and extensions: two of them if the second is a word.
ExtensionOf(name) == IF LastAt(name, ".") = 0 THEN <<>> ELSE SubSeq(name, LastAt(name, "."), Len(name))
Extension(p) == ExtensionOf(Name(p))
ExtensionsFrom(name, m, n, Letters) ==
  IF n > 1 /\ m > 0 /\ \A i \in m + 1 .. n - 1 : name[i] \in Letters THEN SubSeq(name, m, Len(name)) ELSE ExtensionOf(name)
ExtensionsOf(name, n, Letters) == ExtensionsFrom(name, LastAt(SubSeq(name, 1, n - 1), "."), n, Letters)
Extensions(p, Letters) == ExtensionsOf(Name(p), LastAt(Name(p), "."), Letters)
Without(p, extension) == LET path == Normalize(p) IN SubSeq(path, 1, Len(path) - Len(extension))

\* rank: how much of the end of a path an extension, or a name, covers.
Rank(path, ext) ==
  LET before == Len(path) - Len(ext)
  IN  IF before < 0 \/ ~IsSuffix(ext, path) THEN 0
      ELSE IF before > 0 /\ path[before] \in {".", "_"} THEN Len(ext) + 1
      ELSE IF before = 0 \/ path[before] = "/" THEN Len(ext) ELSE 0

IsAbsolute(p) ==
  LET path == Normalize(p) up == <<"/", ".", ".">>
  IN  IsAt(p, 1, "/") /\ path # up /\ ~StartsWith(path, up \o <<"/">>)
IsChild(p, q) ==
  LET child == Normalize(p) parent == Normalize(q)
  IN  StartsWith(child, parent) /\ (Len(child) = Len(parent) \/ child[Len(parent) + 1] = "/")
WithTilde(p, home) ==
  LET path == Normalize(p) \o (IF Len(p) > 1 /\ Last(p) = "/" THEN <<"/">> ELSE <<>>)
  IN  IF StartsWith(path, home) /\ (Len(path) = Len(home) \/ path[Len(home) + 1] = "/")
      THEN <<"~">> \o SubSeq(path, Len(home) + 1, Len(path)) ELSE path

\* The components in common (Shared), a ".." for each other one of the base (Up).
Shared(abs, rel) == Max({i \in 0 .. Min({Len(abs), Len(rel)}) : \A j \in 1 .. i : abs[j] = rel[j]})
Up(abs, i) == [j \in 1 .. Len(abs) - i |-> <<".", ".">>]
RelativeTo(p, b) ==
  LET path == Normalize(p)  base == Normalize(b)
      abs == Split(base)  rel == Split(path)  i == Shared(abs, rel)
  IN  IF b = <<>> THEN p ELSE IF p = <<>> THEN b
      ELSE IF ~IsAt(path, 1, "/") THEN path
      ELSE IF i = 1 THEN IF b = Root THEN Tail(path) ELSE path
      ELSE JoinComponents(Up(abs, i) \o SubSeq(rel, i + 1, Len(rel)))

\* escape and unescape, of words for a shell.
Plain == {"a", "b", ".", "/"}
Escape(s) == FlattenSeq([i \in DOMAIN s |->
  IF s[i] = "nl" THEN <<"'", "nl", "'">> ELSE IF s[i] \in Plain THEN <<s[i]>> ELSE <<"\\", s[i]>>])
UnescapeStep(acc, c) ==
  CASE ~acc.escape /\ c = "'" -> [acc EXCEPT !.single = ~@]
    [] ~acc.escape /\ ~acc.single /\ c = "\"" -> [acc EXCEPT !.double = ~@]
    [] ~acc.escape /\ ~acc.single /\ c = "\\" -> [acc EXCEPT !.escape = TRUE]
    [] ~acc.escape /\ ~acc.single /\ ~acc.double /\ c = "space" ->
         IF Last(acc.res) = <<>> THEN acc ELSE [acc EXCEPT !.res = Append(@, <<>>)]
    [] OTHER -> [acc EXCEPT !.escape = FALSE, !.res[Len(acc.res)] = Append(@, c)]
Unescape(s) == FoldLeft(UnescapeStep, [res |-> <<<<>>>>, escape |-> FALSE, single |-> FALSE, double |-> FALSE], s).res

-----------------------------------------------------------------------------
(* Names for the tabs and menus of several files.                          *)

\* display_name: the name, and behind a dash those of n folders it is in.
DisplayName(p, n) ==
  LET parts == Split(p)
      from  == Max({1, Len(parts) - n})
  IN  IF n = 0 \/ Len(parts) = 1 THEN <<Last(parts)>>
      ELSE <<Last(parts), "dash">> \o SubSeq(parts, from, Len(parts) - 1)

\* The end that two paths share, and the slashes in it.
Ending(s, t) == Max({0} \cup {i \in 1 .. Min({Len(s), Len(t)}) : \A j \in 0 .. i - 1 : s[Len(s) - j] = t[Len(t) - j]})
CountSlashes(s, t) == Cardinality({i \in Len(s) - Ending(s, t) + 1 .. Len(s) : s[i] = "/"})

\* Sorted by their ends; order ranks the characters.
EndsBefore(s, t, order) ==
  LET n == Ending(s, t)
  IN  IF n = Len(s) \/ n = Len(t) THEN n = Len(s) /\ n < Len(t)
      ELSE order[s[Len(s) - n]] < order[t[Len(t) - n]]

\* disambiguate: for each path the folders to show, from its neighbours.
LevelAbove(v, i) == IF i = 1 THEN 0 ELSE CountSlashes(v[i], v[i - 1])
LevelBelow(v, j, last) == IF last = Len(v) THEN 0 ELSE CountSlashes(v[j], v[last + 1])
Disambiguate(paths, order) ==
  LET v == SortSeq(paths, LAMBDA s, t : EndsBefore(s, t, order))
      Level(p) == LET same == {i \in DOMAIN v : v[i] = p}
                  IN  Max({LevelAbove(v, Min(same)), LevelBelow(v, Min(same), Max(same))})
  IN  [i \in DOMAIN paths |-> Level(paths[i])]

\* unique: a path that nothing has, in the order of numbers ("" first).
WithoutNumber(base, numbers) == IF base # <<>> /\ Last(base) \in Range(numbers) THEN Front(base) ELSE base
\* The suffix goes if it is at the end and only there.
StemOf(base, suffix, end) ==
  IF suffix # <<>> /\ end > 0 /\ IsSuffix(suffix, base) /\ ~\E i \in 1 .. end : SubSeq(base, i, i + Len(suffix) - 1) = suffix
  THEN SubSeq(base, 1, end) ELSE base
Stem(base, suffix) == StemOf(base, suffix, Len(base) - Len(suffix))
Duplicates(dir, stem, ext, numbers) ==
  [i \in 1 .. Len(numbers) + 1 |-> Join(dir, stem \o (IF i = 1 THEN <<>> ELSE <<numbers[i - 1]>>) \o ext)]
FirstFree(tried, taken) ==
  IF Range(tried) \subseteq taken THEN None ELSE tried[Min({i \in DOMAIN tried : tried[i] \notin taken})]
UniqueIn(dir, base, ext, suffix, taken, numbers) ==
  FirstFree(Duplicates(dir, Stem(WithoutNumber(base, numbers), suffix) \o suffix, ext, numbers), taken)
Unique(p, suffix, taken, numbers) ==
  IF p \notin taken THEN p ELSE UniqueIn(Parent(p), Name(Without(p, Extension(p))), Extension(p), suffix, taken, numbers)

-----------------------------------------------------------------------------
(* Links: a function from the paths of links to what is in them.           *)

\* resolve_links: the parent first if it is to be resolved; a path that was seen
\* before is taken as it is.
RECURSIVE ResolveLinks(_, _, _, _)
ResolveLinks(p, resolveParent, links, seen) ==
  LET up   == IF resolveParent THEN ResolveLinks(Parent(p), resolveParent, links, seen \cup {p})
              ELSE [path |-> Parent(p), seen |-> seen \cup {p}]
      path == Join(up.path, Name(p))
  IN  IF p = Root \/ ~IsAbsolute(p) \/ p \in seen THEN [path |-> p, seen |-> seen]
      ELSE IF path \in DOMAIN links THEN ResolveLinks(Join(up.path, links[path]), resolveParent, links, up.seen)
      ELSE [path |-> path, seen |-> up.seen]
Resolve(p, links) == ResolveLinks(Normalize(p), TRUE, links, {}).path
ResolveHead(p, links) == ResolveLinks(Normalize(p), FALSE, links, {}).path

-----------------------------------------------------------------------------
Init == input \in Inputs

\* A path is normalized component by component: "." and nothing go, ".." takes
\* the component before it, or stays.
NormalForm(p) ==
  LET Add(r, c) == IF c \in {<<>>, <<".">>} THEN r
                   ELSE IF c = <<".", ".">> /\ r # <<>> /\ Last(r) # c THEN Front(r) ELSE Append(r, c)
  IN  (IF IsAt(p, 1, "/") THEN Root ELSE <<>>) \o Joined(FoldLeft(Add, <<>>, Split(p)))
\* (Not so ".", which stays, and "/." or "./." with nothing before it.)
EndsInDot(p) == p = <<".">> \/ (IsSuffix(<<"/", ".">>, p) /\ Len(NormalForm(p)) < 2)
NormalizesWell(p) ==
  ~EndsInDot(p) =>
     LET path == Normalize(p)
     IN  /\ path = NormalForm(p) /\ Normalize(path) = path
         /\ path \notin {<<>>, Root} => Join(IF LastAt(path, "/") = 0 THEN <<>> ELSE Parent(path), Name(path)) = path \/ ~IsAbsolute(path)

\* Relative to a folder and joined with it again a path is what it was, and it
\* has no ".." exactly if it is in the folder.
RelativeAgrees(p, b) ==
  LET path == Normalize(p)
      base == NormalForm(b)
      to   == RelativeTo(p, b)
      up   == <<".", ".">>
  IN  IsAbsolute(p) /\ IsAbsolute(b) /\ ~EndsInDot(p) /\ ~EndsInDot(b) =>
        /\ Join(b, to) = path
        /\ base # Root => (IsChild(p, b) <=> path = base \/ (to # path /\ ~StartsWith(to, up)))
        /\ base # Root /\ WithTilde(p, base)[1] = "~" => IsChild(p, b) /\ Join(Root, base \o Tail(WithTilde(p, base))) = path

\* Of the endings of a path the longer one ranks higher.
RanksAgree(p, Letters) ==
  LET ext == Extension(p)  exts == Extensions(p, Letters)
  IN  /\ Without(p, exts) \o exts = Normalize(p) /\ IsSuffix(ext, exts)
      /\ Len(ext) > 1 => Rank(Normalize(p), Tail(ext)) > 0
      /\ Len(exts) > Len(ext) /\ Len(ext) > 1 => Rank(Normalize(p), Tail(exts)) > Rank(Normalize(p), Tail(ext))
      /\ Rank(Normalize(p), Name(p)) = Len(Name(p))

\* Words written for a shell are read as the same words.
WordsSurvive(words) ==
  LET text == FlattenSeq([i \in DOMAIN words |-> (IF i = 1 THEN <<>> ELSE <<"space">>) \o Escape(words[i])])
  IN  Unescape(text) = words

\* Different paths are shown by different names.
NamesDiffer(paths, order) ==
  LET levels == Disambiguate(paths, order)
  IN  \A i, j \in DOMAIN paths : paths[i] # paths[j] => DisplayName(paths[i], levels[i]) # DisplayName(paths[j], levels[j])

\* A name for a duplicate is not in use; nor is that of its duplicate, which has
\* the next number rather than the suffix once more.
DuplicatesCount(p, suffix, taken, numbers) ==
  LET first  == Unique(p, suffix, taken, numbers)
      second == Unique(p, suffix, taken \cup {first}, numbers)
  IN  /\ first = None \/ first \notin taken
      /\ p \in taken /\ first # None /\ LastAt(Name(p), ".") # 1 => Unique(first, suffix, taken \cup {first}, numbers) = second

\* What the system finds: each component by itself, and what a link holds in
\* place of the link.  It may be left unresolved (no.links is less than it takes).
RECURSIVE Found(_, _, _, _)
Found(dir, parts, links, followed) ==
  LET here == dir \o <<"/">> \o parts[1]
      to   == links[here]
  IN  IF parts = <<>> THEN [path |-> IF dir = <<>> THEN Root ELSE dir, twice |-> FALSE]
      ELSE IF parts[1] \in {<<>>, <<".">>} THEN Found(dir, Tail(parts), links, followed)
      ELSE IF parts[1] = <<".", ".">> THEN Found(SubSeq(dir, 1, LastAt(dir, "/") - 1), Tail(parts), links, followed)
      ELSE IF here \notin DOMAIN links THEN Found(here, Tail(parts), links, followed)
      ELSE IF here \in followed THEN [path |-> here, twice |-> TRUE]
      ELSE Found(IF to[1] = "/" THEN <<>> ELSE dir, Split(to) \o Tail(parts), links, followed \cup {here})

\* A path with no link that is followed twice is resolved to what it stands for.
\* (With one, a link in what is left may remain.)  Its head alone is the same file.
ResolvesLinks(p, links) ==
  LET found == Found(<<>>, Split(Normalize(p)), links, {})
  IN  ~found.twice => /\ Resolve(p, links) = found.path
                      /\ Found(<<>>, Split(ResolveHead(p, links)), links, {}).path = found.path

PathsHold ==
  CASE input.is = "path"     -> NormalizesWell(input.path) /\ (Normalize(input.path) # None => RanksAgree(input.path, {"a", "b"}))
    [] input.is = "relative" -> RelativeAgrees(input.path, input.base)
    [] input.is = "words"    -> WordsSurvive(input.words)
    [] input.is = "names"    -> NamesDiffer(input.paths, input.order)
    [] input.is = "unique"   -> DuplicatesCount(input.path, input.suffix, input.taken, input.numbers)
    [] input.is = "links"    -> ResolvesLinks(input.path, input.links)

=============================================================================
