\* At most three committed groups, of three edits in all, nested two deep; texts
\* of at most two characters, blank or not.
CONSTANTS
  x = x
  sp = sp
  s1 = s1
  s2 = s2
  Chars <- MCChars
  White <- MCWhite
  Sels <- MCSels
  Strings <- MCStrings
  NoSel = NoSel
  MaxLen = 2
  MaxRecords = 3
  MaxRevision = 4
  MaxNesting = 2
SYMMETRY SelSymmetry
SPECIFICATION MCSpec
INVARIANTS
  TypeOK
  RevisionIdentifiesText
  RecordsReplayHistory
  LoopsStayInRecords
PROPERTY
  KeepsRevisionHistory
