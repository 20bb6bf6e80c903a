\* Quotes and newlines; texts of up to three characters, two edits after the
\* load and their undo; a background parse tells its hooks after two lines
\* (TextChars, MaxText, MaxRevision, LimitEdit, LimitNext).
\* The user may stop editing.
CONSTANTS
  quote = quote
  NL = NL
  Chars = {quote, NL}
  Blocks = {1, 2, 3, 4}
  Room = 1
  MaxInsert = 2
  MaxSize = 3
  TextChars = {quote, NL}
  Newline = NL
  Grammars = {quote}
  InitTexts <- MCTexts
  LimitEdit = 1
  LimitNext = 1
  MaxText = 3
  MaxRevision = 3
  MaxEdits = 4
  space = space
  start = start
  stop = stop
  indentStart = indentStart
  ignore = ignore
  unprintable = unprintable
  GrammarWhileParsing = FALSE
  Idle = Idle
  NoRequest = NoRequest
  NoBatch = NoBatch
  Unseen = Unseen
SPECIFICATION PartSpec
CHECK_DEADLOCK FALSE
INVARIANT HooksSawScopes
