------------------------------- MODULE MCBuffer -------------------------------
(***************************************************************************)
(* The parts of a buffer, one at a time: a behaviour begins with the       *)
(* choice of a part, and the variables of the others stay Idle, or as they *)
(* are at first (Storage).                                                 *)
(***************************************************************************)
EXTENDS Storage, BufferParser

CONSTANTS quote, space, start, stop, indentStart, ignore, unprintable, Idle

VARIABLES
  part,
  tree, treeSize,
  rowText, folded, levels, rows, torn, unparsed, foldings, rowEdits

MCTexts == UNION {[1..n -> Chars] : n \in 0..3}

Tree == INSTANCE BasicTree WITH Keys <- {0, 1}, MaxNodes <- 8, size <- treeSize
Rows == INSTANCE TextRows WITH
  Space <- space, StartMark <- start, StopMark <- stop, IndentMark <- indentStart,
  IgnoreMark <- ignore, Unprintable <- unprintable,
  Texts <- {<<start, NL, unprintable, stop>>, <<indentStart, NL, space, NL>>}, End <- Idle,
  Strings <- {<<>>, <<quote>>, <<NL>>}, LineMax <- 2, MaxEdits <- 1, MaxFolds <- 2, MaxFoldings <- 2,
  text <- rowText, edits <- rowEdits

treeVars   == <<tree, treeSize>>
rowsVars   == <<rowText, folded, levels, rows, torn, unparsed, foldings, rowEdits>>
partVars == <<part, parserVars, vars, treeVars, rowsVars>>

NoParser == ParserInit /\ buf.text = <<>>
NoTree   == tree = Idle /\ treeSize = Idle
NoRows   == rowText = Idle /\ folded = Idle /\ levels = Idle /\ rows = Idle /\ torn = Idle
              /\ unparsed = Idle /\ foldings = Idle /\ rowEdits = Idle

PartInit ==
  \/ part = "parser" /\ ParserInit /\ Init /\ NoTree /\ NoRows
  \/ part = "store" /\ NoParser /\ Init /\ NoTree /\ NoRows
  \/ part = "tree" /\ NoParser /\ Init /\ Tree!Init /\ NoRows
  \/ part = "rows" /\ NoParser /\ Init /\ NoTree /\ Rows!Init

PartNext ==
  /\ UNCHANGED part
  /\ \/ part = "parser" /\ ParserNext /\ UNCHANGED <<vars, treeVars, rowsVars>>
     \/ part = "store" /\ Next /\ UNCHANGED <<parserVars, treeVars, rowsVars>>
     \/ part = "tree" /\ Tree!Next /\ UNCHANGED <<parserVars, vars, rowsVars>>
     \/ part = "rows" /\ Rows!Next /\ UNCHANGED <<parserVars, vars, treeVars>>

PartSpec == PartInit /\ [][PartNext]_partVars

-----------------------------------------------------------------------------
\* The tree that rows are kept in stays balanced and ordered, and finds what is
\* in it (BasicTree); the rows show the text and one node for what is folded, and
\* what is known of a line is so (TextRows).
RowsShow ==
  /\ part = "tree" => Tree!TreeSound
  /\ part = "rows" => Rows!RowsShow /\ Rows!LevelsFresh
=============================================================================
