------------------------------ MODULE MCDocument ------------------------------
(***************************************************************************)
(* Bounded instances of Document for TLC.  A behaviour begins with the     *)
(* choice of one of them: the one given by the constants, one with several *)
(* clients, or one where the user and other programs change the same       *)
(* lines and imports run one inside the other; there a file with one line, *)
(* and three texts that the user or an import makes of it, are enough.     *)
(***************************************************************************)
EXTENDS Document

CONSTANTS u, x, Instances

VARIABLE instance

MCLines  == {u, x}
MCMine   == {u}
MCTheirs == {x}

Clients == INSTANCE Document WITH
  Lines <- {u}, Mine <- {u}, Theirs <- {u}, MaxRevision <- 2, MaxHolders <- 2, MaxSaves <- 2,
  MaxExternal <- 0, MaxCrashes <- 0, BusyWhileSaving <- TRUE, RunLoopInGroups <- TRUE

Import == INSTANCE Document WITH
  Lines <- MCLines, Mine <- MCLines, Theirs <- {x}, MaxRevision <- 3, MaxHolders <- 1, MaxSaves <- 0,
  MaxExternal <- 2, MaxCrashes <- 0, BusyWhileSaving <- FALSE, RunLoopInGroups <- TRUE

MCInit ==
  /\ instance \in Instances
  /\ \/ instance = "given" /\ Init
     \/ instance = "clients" /\ Clients!Init
     \/ instance = "import" /\ Import!Init /\ disk \in {{u}, {x}}

MCNext ==
  /\ UNCHANGED instance
  /\ \/ instance = "given" /\ Next
     \/ instance = "clients" /\ Clients!Next
     \/ instance = "import" /\ Import!Next

MCSpec == MCInit /\ [][MCNext]_<<vars, instance>>

-----------------------------------------------------------------------------
\* A document that says it is not edited has the file's text, if nothing else
\* happens while it is saved (CleanMeansSaved of Document).
CleanSaved == instance = "given" => CleanMeansSaved

\* Unsaved text is back after a crash, if nothing else happens while it is
\* saved (RestoredAfterCrash of Document).
Restored == instance = "given" => RestoredAfterCrash

\* An import keeps the user's lines, also inside groups and in nested run loops
\* (ImportKeepsMine of Document).
ImportsKeepMine == [][instance = "import" => ImportKeepsMine]_<<vars, instance>>
=============================================================================
