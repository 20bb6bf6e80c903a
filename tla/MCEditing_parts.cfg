\* Texts of up to three characters, two ranges and two commands; four commands
\* for one caret, and for snippets; words of up to five characters and brackets of up to six.
\* Bounds run out, and a text that is looked up does nothing.
CONSTANTS
  x = x
  y = y
  Space = Space
  Tab = Tab
  NL = NL
  Nothing = Nothing
  lparen = lparen
  rparen = rparen
  lbrace = lbrace
  rbrace = rbrace
  letter = letter
  accent = accent
  composed = composed
  Gone = Gone
  MarkTypes = {1, 2}
  MaxSize = 4
  MaxPairs = 2
  MaxMarks = 2
SPECIFICATION PartSpec
CHECK_DEADLOCK FALSE
INVARIANTS
  SelectionSound
  ReplacesTogether
  ClipsKeep
  SnippetsFollow
  LookupsAgree
  MarksStick
PROPERTY MarksKept
