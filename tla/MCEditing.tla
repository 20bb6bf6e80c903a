------------------------------ MODULE MCEditing -------------------------------
(***************************************************************************)
(* Editing on small texts: a behaviour begins with the choice of a part,   *)
(* the editor with carets of every kind, the editor with more commands for *)
(* one caret, snippets, a search, the marks and pairs of brackets that     *)
(* move with a text, or only a text, whose words or brackets are looked up.*)
(***************************************************************************)
EXTENDS BufferMarks, Sequences

CONSTANTS x, y, Space, Tab, NL, Nothing, lparen, rparen, lbrace, rbrace, letter, accent, composed

VARIABLES
  part, text, sel,
  clip, yank, extending, killed, commands,
  anchor, stack, filled, edits,
  needle, ignoring, node, matched, offset, found

Carets == INSTANCE Editor WITH
  WordChars <- {x, y}, TabSize <- 2, Pairs <- <<>>, MaxSize <- 3, MaxCommands <- 2, MaxRanges <- 2,
  Commands <- {"type", "drag", "move", "delete", "kill", "paste", "transpose", "shift", "find"},
  Alphabet <- {x, Tab, NL}, Strings <- {<<x>>, <<x, NL>>}
Kills == INSTANCE Editor WITH
  WordChars <- {x}, TabSize <- 2, Pairs <- <<>>, MaxSize <- 4, MaxCommands <- 4, MaxRanges <- 1,
  Commands <- {"kill"}, Alphabet <- {x, y, NL}, Strings <- {<<x>>}
Lookup == INSTANCE Movements WITH WordChars <- {x, y}, TabSize <- 2, Pairs <- << <<lparen, rparen>>, <<lbrace, rbrace>> >>


Texts(alphabet, longest) == UNION {[1..n -> alphabet] : n \in 0..longest}

\* ${1/.+/-/}${1:x}${1/.+/-/} and so on: mirrors before, behind and within
\* fields, in a field that is within another, and a field without content.
Field(n, nodes) == << <<"open", n>> >> \o nodes \o << <<"close", n>> >>
Is(s) == << <<"text", s>> >>
Dash(n) == << <<"transform", n, "mark">> >>
SnippetTemplates == {
  Dash(1) \o Field(1, Is(<<x>>)) \o Dash(1),
  Field(1, Is(<<x>>)) \o Field(1, <<>>) \o Field(0, <<>>),
  Field(1, <<>>) \o Field(1, Is(<<x>>)),
  Field(1, Is(<<x>>) \o Field(2, Is(<<y>>))) \o Field(2, <<>>) \o Field(1, <<>>),
  Field(2, Field(1, <<>>)) \o Field(1, Is(<<x>>)) \o Field(2, <<>>),
  Field(1, <<>>) \o Is(<<y>>) \o Field(2, <<>>),
  Field(1, Field(2, <<>>) \o Is(<<x>>)) \o Field(2, Is(<<y>>)),
  Field(1, Is(<<x>>) \o Field(2, <<>>)) \o Field(2, Is(<<y>>) \o Field(1, <<>>)) }
Expansion == INSTANCE Snippets WITH
  Templates <- SnippetTemplates, Strings <- {<<>>, <<x>>, <<y, y>>}, Mark <- Space, MaxSize <- 10, MaxEdits <- 4, typed <- filled

\* A letter with an accent, in two forms.
Accented == {<<composed>>, <<letter, accent>>}
Search == INSTANCE FindStream WITH
  bytes <- text, Haystacks <- Texts({letter, accent, composed, Space}, 5),
  Needles <- {<<{<<letter>>}, Accented>>, <<Accented, Accented>>, <<{<<letter>>}, {<<letter>>}, {<<letter>>}>>,
              <<{<<letter>>}, {<<letter>>}, Accented>>}

editorVars == <<clip, yank, extending, killed, commands>>
snippetVars == <<anchor, stack, filled, edits>>
searchVars == <<needle, ignoring, node, matched, offset, found>>
partVars == <<part, text, sel, editorVars, snippetVars, searchVars, vars>>

NoEditor == clip = Nothing /\ yank = Nothing /\ extending = Nothing /\ killed = Nothing /\ commands = Nothing
NoSnippets == anchor = Nothing /\ stack = Nothing /\ filled = Nothing /\ edits = Nothing
NoSearch == needle = Nothing /\ ignoring = Nothing /\ node = Nothing /\ matched = Nothing /\ offset = Nothing /\ found = Nothing
NoMarks == Init /\ size = 0

PartInit ==
  \/ part = "carets" /\ Carets!Init /\ NoSnippets /\ NoSearch /\ NoMarks
  \/ part = "kills" /\ Kills!Init /\ NoSnippets /\ NoSearch /\ NoMarks
  \/ part = "snippets" /\ Expansion!Init /\ NoEditor /\ NoSearch /\ NoMarks
  \/ part = "search" /\ Search!Init /\ sel = Nothing /\ NoEditor /\ NoSnippets /\ NoMarks
  \/ part = "marks" /\ text = <<>> /\ sel = Nothing /\ NoEditor /\ NoSnippets /\ NoSearch /\ Init
  \/ /\ part = "words" /\ text \in Texts({x, y, Space, NL}, 5)
     /\ sel = Nothing /\ NoEditor /\ NoSnippets /\ NoSearch /\ NoMarks
  \/ /\ part = "brackets" /\ text \in Texts({lparen, rparen, lbrace, rbrace, x}, 6) /\ Lookup!Balanced(text)
     /\ sel = Nothing /\ NoEditor /\ NoSnippets /\ NoSearch /\ NoMarks

PartNext ==
  /\ UNCHANGED part
  /\ \/ part = "carets" /\ Carets!Next /\ UNCHANGED <<snippetVars, searchVars, vars>>
     \/ part = "kills" /\ Kills!Next /\ UNCHANGED <<snippetVars, searchVars, vars>>
     \/ part = "snippets" /\ Expansion!Next /\ UNCHANGED <<editorVars, searchVars, vars>>
     \/ part = "search" /\ Search!Next /\ UNCHANGED <<sel, editorVars, snippetVars, vars>>
     \/ part = "marks" /\ Next /\ UNCHANGED <<text, sel, editorVars, snippetVars, searchVars>>

PartSpec == PartInit /\ [][PartNext]_partVars

-----------------------------------------------------------------------------
\* The selection is in the text, ranges that overlap are made disjoint and
\* select the same, and down and up lead back (Editor).
SelectionSound ==
  /\ part = "carets" => Carets!SelectionInText /\ Carets!SanitizeKeeps /\ Carets!CaretReturns
  /\ part = "kills" => Kills!SelectionInText

\* Replacements one after the other are replacements at once, and the selection
\* goes with the text it has (Editor).
ReplacesTogether == part = "carets" => Carets!ReplacesTogether /\ Carets!SelectionTracks

\* What is copied, cut, moved, transposed or killed is not lost (Editor).
ClipsKeep ==
  /\ part = "carets" => Carets!PasteKeeps /\ Carets!CutRestores /\ Carets!MoveKeepsText /\ Carets!TransposeKeeps
  /\ part = "kills" => Kills!YankRestores

\* The buffer has the text of the snippets that are being filled in, mirrors
\* repeat their field, the snippet in a field stays in it, and the caret stays
\* where it was typed (Snippets).
SnippetsFollow ==
  part = "snippets" => Expansion!SnippetsInText /\ Expansion!MirrorsFollow /\ Expansion!FieldsNest /\ Expansion!CaretStays

\* Find Next visits every match, a search finds all of them however the text
\* is read (FindStream), the words that are found are those that are
\* selected, and the brackets around a caret are the innermost (Editor,
\* Movements).
LookupsAgree ==
  /\ part = "carets" => Carets!FindTours
  /\ part = "search" => Search!FoundAll
  /\ part = "words" => Lookup!WordsAgree(text)
  /\ part = "brackets" => Lookup!PairsInnermost(text)
=============================================================================
