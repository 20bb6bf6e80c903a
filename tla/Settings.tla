------------------------------- MODULE Settings -------------------------------
(***************************************************************************)
(* The settings framework: the .tm_properties files that apply to a path   *)
(* and their cascade (settings.cc), the watches that tell when one must be *)
(* read again (track_paths.h), the user's settings that the application    *)
(* writes (settings_t::set), and the syntax of the files (parser.cc).      *)
(* Four machines, which share no state:                                    *)
(*   the cache of files    disk .. wanted, a step per system call          *)
(*   the cascade           input, a sequence of sections                   *)
(*   the user's settings   global, asked and tried, a step per set()       *)
(*   the syntax            input, a string to write and to read back       *)
(***************************************************************************)
EXTENDS Naturals, Sequences, FiniteSets, FiniteSetsExt, SequencesExt

CONSTANTS
  Files,               \* the settings files; they are in one directory
  MaxChanges, MaxCached, MaxSets,
  ChangeWhileOpening,  \* also between the opening of a file and its watch, and
                       \* may it be made before it was read?
  Cascades, Strings, Defaults,
  None

VARIABLES
  disk,      \* of each file: its node and version, or None
  changes,
  tracked,   \* _open_files with their records: [node, exists, on, pending, changed]
  cache,     \* the version each file was parsed at, 0 if it did not exist
  wanted,    \* the files the call of collect() has yet to ask for
  at,        \* what it does for the first: "ask", "watch", "read", "keep"
  input,
  defaults, global, asked, tried

cacheVars == <<disk, changes, tracked, cache, wanted, at>>

-----------------------------------------------------------------------------
(* The cache of files.                                                     *)

Folder == 0   \* the directory's node; those of files are numbers from 1
Version(f) == IF disk[f] = None THEN 0 ELSE disk[f].version

CacheInit ==
  /\ disk \in [Files -> {None, [node |-> 1, version |-> 1]}]
  /\ changes = 1 /\ wanted = <<>> /\ at = "ask"
  /\ tracked = [f \in Files |-> None] /\ cache = [f \in Files |-> None]

\* A vnode event is queued for the sources that are on.
Told(f, nodes) ==
  [g \in Files |->
     IF tracked[g] # None /\ tracked[g].on /\ tracked[g].node \in (IF g = f THEN nodes ELSE nodes \cap {Folder})
     THEN [tracked[g] EXCEPT !.pending = TRUE] ELSE tracked[g]]

\* Another program writes a file where it is, replaces it, makes it or removes
\* it.  The last three also change the directory.
Change(f) ==
  /\ changes < MaxChanges /\ changes' = changes + 1
  /\ at \in {"watch", "keep"} \/ (at = "read" /\ disk[f] = None /\ f = Head(wanted)) => ChangeWhileOpening
  /\ \/ disk[f] # None /\ disk' = [disk EXCEPT ![f].version = changes'] /\ tracked' = Told(f, {disk[f].node})
     \/ /\ disk' = [disk EXCEPT ![f] = [node |-> changes', version |-> changes']]
        /\ tracked' = Told(f, {Folder} \cup IF disk[f] = None THEN {} ELSE {disk[f].node})
     \/ disk[f] # None /\ disk' = [disk EXCEPT ![f] = None] /\ tracked' = Told(f, {Folder, disk[f].node})
  /\ UNCHANGED <<cache, wanted, at>>

\* The main queue runs the event handler of a source.
Deliver(f) ==
  /\ tracked[f] # None /\ tracked[f].pending
  /\ tracked' = [tracked EXCEPT ![f].pending = FALSE, ![f].changed = TRUE]
  /\ UNCHANGED <<disk, changes, cache, wanted, at>>

\* collect: a cache that is too big is cleared, then come the files.  The mutex
\* lets one caller in at a time.
Collect(files) ==
  /\ wanted = <<>> /\ wanted' = files /\ at' = "ask"
  /\ LET clear == Cardinality({f \in Files : cache[f] # None}) > MaxCached IN
     /\ tracked' = [f \in Files |-> IF clear /\ cache[f] # None THEN None ELSE tracked[f]]
     /\ cache' = [f \in Files |-> IF clear THEN None ELSE cache[f]]
  /\ UNCHANGED <<disk, changes>>

\* open_file: what is not there is represented by its directory.
Opened(f) ==
  [node |-> IF disk[f] = None THEN Folder ELSE disk[f].node, exists |-> disk[f] # None,
   on |-> FALSE, pending |-> FALSE, changed |-> FALSE]

\* Mutant: whether the file exists is not noted when it is opened anew.
OpenedAnewOld(f) == [Opened(f) EXCEPT !.exists = tracked[f].exists]

OpenedAnew(f) == Opened(f)

\* is_changed, up to the open: it is decided here whether the file will be read.
Ask ==
  /\ wanted # <<>> /\ at = "ask"
  /\ LET f == Head(wanted) IN
     \/ tracked[f] = None /\ tracked' = [tracked EXCEPT ![f] = Opened(f)] /\ at' = "watch" /\ wanted' = wanted
     \/ /\ tracked[f] # None /\ ~tracked[f].changed
        /\ tracked' = tracked /\ at' = "ask" /\ wanted' = Tail(wanted)
     \/ /\ tracked[f] # None /\ tracked[f].changed
        /\ tracked' = [tracked EXCEPT ![f] = OpenedAnew(f)] /\ wanted' = wanted
        /\ at' = IF tracked[f].exists \/ disk[f] # None THEN "watch" ELSE "keep"
  /\ UNCHANGED <<disk, changes, cache>>

\* watch: from here on events are queued.
Watch ==
  /\ wanted # <<>> /\ at \in {"watch", "keep"}
  /\ tracked' = [tracked EXCEPT ![Head(wanted)].on = TRUE]
  /\ IF at = "watch" THEN at' = "read" /\ wanted' = wanted ELSE at' = "ask" /\ wanted' = Tail(wanted)
  /\ UNCHANGED <<disk, changes, cache>>

\* parse_sections.
Read ==
  /\ wanted # <<>> /\ at = "read" /\ at' = "ask" /\ wanted' = Tail(wanted)
  /\ cache' = [cache EXCEPT ![Head(wanted)] = Version(Head(wanted))]
  /\ UNCHANGED <<disk, changes, tracked>>

CacheNext ==
  \/ Ask \/ Watch \/ Read
  \/ \E f \in Files : Change(f) \/ Deliver(f)
  \/ \E files \in {s \in UNION {[1 .. n -> Files] : n \in 1 .. Cardinality(Files)} : IsInjective(s)} : Collect(files)

\* A file is parsed at the version on the disk, unless an event for it waits, or
\* was noted, or it is just being asked for; and one that is cached is watched.
\* Not so if ChangeWhileOpening: a change between open() and the watch is not
\* heard of (and none of the file that is there now, as long as the watch is on
\* the one before or on the directory); a file that is read though it was not
\* there when it was opened stays in force when it is removed.
CacheIsCurrent ==
  \A f \in Files :
    /\ wanted = <<>> => (tracked[f] = None <=> cache[f] = None)
    /\ cache[f] # None /\ tracked[f] # None /\ ~tracked[f].pending /\ ~tracked[f].changed /\ ~(wanted # <<>> /\ f = Head(wanted)) =>
         cache[f] = Version(f)

-----------------------------------------------------------------------------
(* The cascade.  The input is the sections in the order of their files, of *)
(* the directories with files, the outermost first.  File 1 is the         *)
(* default's, file 2 the global one, the others belong to directories.  A  *)
(* section is [file, is, rank, value]: "plain", "glob" or "scope"; rank 0  *)
(* means that it does not apply; its value for the variable that is looked *)
(* up is a new one, one that refers to the old, or one that refers to CWD. *)

Sections(s, files) == {i \in DOMAIN s : s[i].file \in files}
Indices(s) == [i \in DOMAIN s |-> i]
Kind(s, files, is) == SelectSeq(Indices(s), LAMBDA i : i \in Sections(s, files) /\ s[i].is = is /\ (is = "glob" => s[i].rank > 0))

CascadeInit == input \in Cascades

\* orderScopeMatches: by rank, and as they come if it is the same.
RankedBelow(s, i, j) == s[i].rank < s[j].rank \/ (s[i].rank = s[j].rank /\ i < j)

Ranked(s, files) ==
  SortSeq(SelectSeq(Kind(s, files, "scope"), LAMBDA i : s[i].rank > 0), LAMBDA i, j : RankedBelow(s, i, j))

\* collect, extract: which sections' assignments are handed out, in which order.
Order(s) ==
  LET Of(files) == Kind(s, files, "plain") \o Ranked(s, files) \o Kind(s, files, "glob")
  IN  Of({1, 2}) \o FlattenSeq([f \in 1 .. (IF s = <<>> THEN 0 ELSE Last(s).file) |-> IF f <= 2 THEN <<>> ELSE Of({f})])

\* expanded_variables_for: CWD is set by the first part of a file, if it has one.
Expand(env, i, section) ==
  LET cwd == IF section.is = "plain" THEN section.file ELSE env.cwd
  IN  [cwd |-> cwd,
       value |-> CASE section.value = "new" -> <<i>>
                   [] section.value = "old" -> env.value \o <<i>>
                   [] section.value = "cwd" -> <<i, 0, cwd>>]
Expanded(s) == FoldLeft(LAMBDA env, i : Expand(env, i, s[i]), [cwd |-> 0, value |-> <<>>], Order(s)).value

\* settings_info_for: the same, the strongest first.
Info(s) == Reverse(Order(s))

\* The rule of the cascade: section i is stronger than j.
Strength(section) == CASE section.is = "plain" -> 0 [] section.is = "scope" -> section.rank [] section.is = "glob" -> 100
Place(section) == IF section.file <= 2 THEN 2 ELSE section.file
Stronger(s, i, j) ==
  \/ Place(s[i]) > Place(s[j])
  \/ Place(s[i]) = Place(s[j]) /\ Strength(s[i]) > Strength(s[j])
  \/ Place(s[i]) = Place(s[j]) /\ Strength(s[i]) = Strength(s[j]) /\ i > j

\* The value is that of the strongest section that applies: a directory's own
\* file before those further out, a glob before a scope, a selector of higher
\* rank before a lower, the later before the earlier; a value that refers to
\* the old one gets the next strongest.  CWD is the directory of the file that
\* says so, if that is a directory's and begins with a variable.
StrongestWins ==
  LET s == input
      applies == {i \in DOMAIN s : s[i].is = "plain" \/ s[i].rank > 0}
      Above(i) == {j \in applies : Stronger(s, j, i)}
      top == {i \in applies : s[i].value # "old" /\ \A j \in Above(i) : s[j].value = "old"}
      parts == UNION {{i} \cup Above(i) : i \in top} \cup (IF top = {} THEN applies ELSE {})
      value == Expanded(s)
      own == {i \in top : s[i].value = "cwd" /\ s[i].file > 2 /\ \E j \in DOMAIN s : s[j].is = "plain" /\ s[j].file = s[i].file}
      plain == SelectSeq(value, LAMBDA x : x > 0)
  IN  /\ Range(Order(s)) = applies /\ Len(Order(s)) = Cardinality(applies)
      /\ \A i \in own : SubSeq(value, 1, 3) = <<i, 0, s[i].file>>
      /\ top = {} \/ (\E i \in top : s[i].value # "cwd") => plain = SetToSortSeq(parts, LAMBDA i, j : Stronger(s, j, i))
      /\ applies # {} => \A i \in applies : i = Info(s)[1] <=> Above(i) = {}

-----------------------------------------------------------------------------
(* The user's settings: one variable in the global file, by section, and   *)
(* what the defaults say.  A section is a scope, a sequence of atoms of    *)
(* which <<>> is the section without a name, or a glob, as many stars as  *)
(* it is long: the shorter are written first.                              *)

Globs == {<<"*">>, <<"*", "*">>}
Attr  == <<"attr">>
Types == {<<>>, <<"t">>, <<"t", "p">>, Attr}
Names == Globs \cup Types

StoreInit ==
  /\ defaults \in Defaults /\ global = [n \in Names |-> None] /\ asked = [n \in Names |-> None]
  /\ tried = 0

\* A type with all its prefixes, unless it is an attribute.
SectionNames(type, glob) ==
  (IF type = None THEN {} ELSE IF type = Attr THEN {type} ELSE {SubSeq(type, 1, n) : n \in 0 .. Len(type)})
    \cup (IF glob = None THEN {} ELSE {glob})

\* What has the value of the same section of the defaults is not written.
Written(sections, defs) ==
  [n \in Names |-> IF \E d \in DOMAIN defs : defs[d].name = n /\ defs[d].value = sections[n] THEN None ELSE sections[n]]

\* settings_t::set; None is NULL_STR, which takes the setting back.
Set(type, glob, value) ==
  /\ tried < MaxSets /\ tried' = tried + 1
  /\ LET Put(map) == [n \in Names |-> IF n \in SectionNames(type, glob) THEN value ELSE map[n]]
     IN  global' = Written(Put(global), defaults) /\ asked' = Put(asked)
  /\ UNCHANGED defaults

\* read_file and raw_get.
RawGet(map, name) ==
  IF map[name] # None THEN map[name]
  ELSE IF \E d \in DOMAIN defaults : defaults[d].name = name
       THEN defaults[CHOOSE d \in DOMAIN defaults : defaults[d].name = name].value ELSE None

StoreNext == \E type \in Types \cup {None}, glob \in Globs \cup {None}, value \in {"a", "b", None} : Set(type, glob, value)

\* The order sections are written in, ordered_section_t: the one without a
\* name, globs from the shorter to the longer, scopes by name.
WrittenOrder == <<<<>>, <<"*">>, <<"*", "*">>, Attr, <<"t">>, <<"t", "p">>>>
GlobalFile(map) ==
  LET names == SelectSeq(WrittenOrder, LAMBDA n : map[n] # None)
  IN  [i \in DOMAIN names |-> [name |-> names[i], value |-> map[names[i]]]]

\* The value for a scope and for a path, which matches a set of globs.  The
\* rank of a selector is its length here; attributes are innermost in a scope.
Applies(name, scope, globs) ==
  IF name \in Globs THEN name \in globs ELSE name \in {<<>>, Attr} \/ IsPrefix(name, scope)
AsSection(file, entry, scope, globs) ==
  [file |-> file, value |-> "new",
   is |-> IF entry.name = <<>> THEN "plain" ELSE IF entry.name \in Globs THEN "glob" ELSE "scope",
   rank |-> IF Applies(entry.name, scope, globs) THEN IF entry.name = Attr THEN 9 ELSE Len(entry.name) ELSE 0]
Lookup(map, scope, globs) ==
  LET entries == defaults \o GlobalFile(map)
      s == [i \in DOMAIN entries |-> AsSection(IF i <= Len(defaults) THEN 1 ELSE 2, entries[i], scope, globs)]
      value == Expanded(s)
  IN  IF value = <<>> THEN None ELSE entries[value[1]].value

\* Two globs of the defaults apply: the one that is second wins over the first,
\* and over what the user set for it if that was its default.
DefaultsClash(globs) == Cardinality({d \in DOMAIN defaults : defaults[d].name \in globs}) > 1

\* Whatever was set and taken back before, the application sees what it set: the
\* sections that are not written, because they say what the defaults do, are
\* not missed, and raw_get, which looks at one section, agrees.
SettingsStay ==
  /\ \A scope \in Types \ {Attr}, globs \in SUBSET Globs :
       ~DefaultsClash(globs) => Lookup(global, scope, globs) = Lookup(asked, scope, globs)
  /\ \A n \in Names : RawGet(global, n) = RawGet(asked, n)

-----------------------------------------------------------------------------
(* The syntax.  A reader has the text and a place, and gives               *)
(* [ok, at, text].                                                         *)

Blank == {"space", "tab"}
Fail(p) == [ok |-> FALSE, at |-> p, text |-> <<>>]
CharAt(t, p) == IF p <= Len(t) THEN t[p] ELSE "eof"

SkipWs(t, p) == Min({q \in p .. Len(t) + 1 : CharAt(t, q) \notin Blank})
ParseChar(t, p, c) == IF CharAt(t, SkipWs(t, p)) = c THEN [ok |-> TRUE, at |-> SkipWs(t, p) + 1, text |-> <<>>] ELSE Fail(p)

\* parse_until: a backslash hides a stop character and itself.
RECURSIVE Until(_, _, _, _)
Until(t, p, stop, res) ==
  IF p > Len(t) \/ CharAt(t, p) \in stop THEN [ok |-> TRUE, at |-> p, text |-> res]
  ELSE LET q == IF t[p] = "\\" /\ CharAt(t, p + 1) \in stop \cup {"\\"} THEN p + 1 ELSE p
       IN  Until(t, q + 1, stop, Append(res, t[q]))

ParseQuoted(t, p, quote) ==
  LET open  == ParseChar(t, p, quote)
      body  == Until(t, open.at, {quote, "nl"}, <<>>)
      close == ParseChar(t, body.at, quote)
  IN  IF open.ok /\ close.ok THEN [close EXCEPT !.text = body.text] ELSE Fail(p)

ParseUnquoted(t, p, stop) ==
  LET body == Until(t, SkipWs(t, p), stop, <<>>)
  IN  IF body.text # <<>> /\ CharAt(t, SkipWs(t, p)) # "nl" THEN body ELSE Fail(p)

ParseString(t, p) ==
  LET single == ParseQuoted(t, p, "'")  double == ParseQuoted(t, p, "\"")
  IN  IF single.ok THEN single ELSE IF double.ok THEN double ELSE ParseUnquoted(t, p, Blank \cup {"nl"})

ParseAssignment(t, p) ==
  LET key   == ParseUnquoted(t, p, Blank \cup {"=", "nl"})
      value == ParseString(t, ParseChar(t, key.at, "=").at)
  IN  IF key.ok /\ ParseChar(t, key.at, "=").ok /\ value.ok
      THEN [ok |-> TRUE, at |-> value.at, text |-> <<key.text, value.text>>] ELSE Fail(p)

\* parse_header gives the names.
ParseName(t, p) ==
  LET single == ParseQuoted(t, p, "'")  double == ParseQuoted(t, p, "\"")
  IN  IF single.ok THEN single ELSE IF double.ok THEN double ELSE Until(t, SkipWs(t, p), Blank \cup {";", "]", "nl"}, <<>>)
RECURSIVE ParseNames(_, _, _)
ParseNames(t, p, names) ==
  LET name == ParseName(t, p)
      all  == Append(names, name.text)
  IN  IF ParseChar(t, name.at, "]").ok THEN [ok |-> TRUE, at |-> ParseChar(t, name.at, "]").at, text |-> all]
      ELSE IF ParseChar(t, name.at, ";").ok THEN ParseNames(t, ParseChar(t, name.at, ";").at, all) ELSE Fail(1)
ParseHeader(t, p) == IF ParseChar(t, p, "[").ok THEN ParseNames(t, ParseChar(t, p, "[").at, <<>>) ELSE Fail(p)

\* parse_line, parse_ini: what the lines are, <<"section", names>> or
\* <<"value", <<key, value>>>>; what is behind it on its line is ignored.
Comment(t, p) == IF ParseChar(t, p, "#").ok THEN Until(t, ParseChar(t, p, "#").at, {"nl"}, <<>>).at ELSE p
NextLine(t, p) ==
  LET q == SkipWs(t, Comment(t, p))
      r == IF q > Len(t) \/ t[q] = "nl" THEN q ELSE Until(t, q, {"nl"}, <<>>).at
  IN  r + 1
RECURSIVE ParseIni(_, _, _)
ParseIni(t, p, res) ==
  IF p > Len(t) THEN res
  ELSE LET start  == Comment(t, SkipWs(t, p))
           header == ParseHeader(t, start)
           value  == ParseAssignment(t, start)
       IN  IF header.ok THEN ParseIni(t, NextLine(t, header.at), Append(res, <<"section", header.text>>))
           ELSE IF value.ok THEN ParseIni(t, NextLine(t, value.at), Append(res, <<"value", value.text>>))
           ELSE ParseIni(t, NextLine(t, start), res)

StringInit == input \in Strings

\* quote_string.
Special == {"'", "nl", "\\", "space"}

Escaped(src) ==
  FlattenSeq([i \in DOMAIN src |->
    IF src[i] \in {"'", "nl"} \/ (i < Len(src) /\ src[i] = "\\" /\ src[i + 1] \in {"\\", "'", "nl"})
    THEN <<"\\", src[i]>> ELSE <<src[i]>>])
QuoteString(src) == IF src # <<>> /\ Range(src) \cap Special = {} THEN src ELSE <<"'">> \o Escaped(src) \o <<"'">>

\* What set() writes for one section with one assignment, and another.
WrittenText(s) ==
  <<"nl", "[", "space">> \o QuoteString(s) \o <<"space", "]", "nl", "k", "space", "=", "space">> \o QuoteString(s)
    \o <<"nl", "nl", "[", "space", "n", "space", "]", "nl", "k", "space", "=", "space">> \o QuoteString(s) \o <<"nl">>

\* What is read is what was written.  Not so for strings that end in a backslash,
\* which hides the closing quote, and for those that are not quoted though the
\* reader takes a tab, a quote in front, or in a name ";" and "]" for syntax.
Safe(s) ==
  /\ s = <<>> \/ Last(s) # "\\"
  /\ s # <<>> /\ Range(s) \cap Special = {} => "tab" \notin Range(s) /\ s[1] # "\""
SafeName(s) == s # <<>> /\ Safe(s) /\ (Range(s) \cap Special = {} => Range(s) \cap {";", "]"} = {})
StringsSurvive ==
  LET read == ParseIni(WrittenText(input), 1, <<>>)
  IN  /\ Safe(input) /\ SafeName(input) =>
           read = <<<<"section", <<input>>>>, <<"value", <<<<"k">>, input>>>>, <<"section", <<<<"n">>>>>>, <<"value", <<<<"k">>, input>>>>>>
      /\ Safe(input) => \E i \in DOMAIN read : read[i] = <<"value", <<<<"k">>, input>>>>

=============================================================================
