------------------------------ MODULE MCServices ------------------------------
(***************************************************************************)
(* The services that work behind the documents, one at a time: a behaviour *)
(* begins with the choice of a service, and the variables of the others    *)
(* stay Idle, or as they are at first (ScmStatus, BundleCache).            *)
(***************************************************************************)
EXTENDS ScmStatus, BundleCache, MCParsing, MCLookups

CONSTANTS f1, f2, Idle, ChangeWhileOpening

VARIABLES
  part,
  input,
  grammar, texts, heap, lineStacks, line, text, frames, records, steps, parses,
  fileDisk, changes, tracked, fileCache, wanted, at, defaults, global, asked, tried

Selectors == INSTANCE ScopeSelectors
               WITH Scopes <- TriedScopes, Paths <- TriedPaths, Sides <- SideScopes, Composites <- TriedComposites, Aux <- {Aux}
Grammar == INSTANCE GrammarParse
             WITH None <- NoName, Grammars <- LineGrammars, Texts <- LineTexts, Far <- 99, MaxParses <- 3, MaxSteps <- 30, saved <- lineStacks
Tm == INSTANCE Settings
        WITH Files <- {f1, f2}, MaxChanges <- 4, MaxCached <- 1, MaxSets <- 2, disk <- fileDisk, cache <- fileCache,
             Cascades <- TriedCascades, Strings <- SettingStrings, Defaults <- TriedDefaults
Formats == INSTANCE FormatStrings WITH Inputs <- FormatInputs
Names == INSTANCE PathNames WITH Inputs <- PathInputs
FileGlobs == INSTANCE Globs WITH Inputs <- GlobInputs

grammarVars == <<grammar, texts, heap, lineStacks, line, text, frames, records, steps, parses>>

fileVars == <<fileDisk, changes, tracked, fileCache, wanted, at>>
storeVars == <<defaults, global, asked, tried>>
partVars == <<part, vars, bundleVars, input, grammarVars, fileVars, storeVars>>

NoScm == Init /\ driver = FALSE
NoBundles == BundleInit /\ disk = [d \in Dirs |-> NoDir]
NoGrammar == /\ grammar = Idle /\ texts = Idle /\ heap = Idle /\ lineStacks = Idle /\ line = Idle /\ text = Idle
             /\ frames = Idle /\ records = Idle /\ steps = Idle /\ parses = Idle
NoFiles == /\ fileDisk = Idle /\ changes = Idle /\ tracked = Idle /\ fileCache = Idle /\ wanted = Idle /\ at = Idle
NoStore == defaults = Idle /\ global = Idle /\ asked = Idle /\ tried = Idle

PartInit ==
  \/ part = "scm" /\ Init /\ NoBundles /\ input = Idle /\ NoGrammar /\ NoFiles /\ NoStore
  \/ part = "bundles" /\ NoScm /\ BundleInit /\ input = Idle /\ NoGrammar /\ NoFiles /\ NoStore
  \/ part = "selectors" /\ NoScm /\ NoBundles /\ Selectors!Init /\ NoGrammar /\ NoFiles /\ NoStore
  \/ part = "grammar" /\ NoScm /\ NoBundles /\ input = Idle /\ Grammar!Init /\ NoFiles /\ NoStore
  \/ part = "files" /\ NoScm /\ NoBundles /\ input = Idle /\ NoGrammar /\ Tm!CacheInit /\ NoStore
  \/ part = "store" /\ NoScm /\ NoBundles /\ input = Idle /\ NoGrammar /\ NoFiles /\ Tm!StoreInit
  \/ part = "cascade" /\ NoScm /\ NoBundles /\ Tm!CascadeInit /\ NoGrammar /\ NoFiles /\ NoStore
  \/ part = "strings" /\ NoScm /\ NoBundles /\ Tm!StringInit /\ NoGrammar /\ NoFiles /\ NoStore
  \/ part = "formats" /\ NoScm /\ NoBundles /\ Formats!Init /\ NoGrammar /\ NoFiles /\ NoStore
  \/ part = "names" /\ NoScm /\ NoBundles /\ Names!Init /\ NoGrammar /\ NoFiles /\ NoStore
  \/ part = "globs" /\ NoScm /\ NoBundles /\ FileGlobs!Init /\ NoGrammar /\ NoFiles /\ NoStore

PartNext ==
  /\ UNCHANGED part
  /\ \/ part = "scm" /\ Next /\ UNCHANGED <<bundleVars, input, grammarVars, fileVars, storeVars>>
     \/ part = "bundles" /\ BundleNext /\ UNCHANGED <<vars, input, grammarVars, fileVars, storeVars>>
     \/ part = "selectors" /\ Selectors!Next /\ UNCHANGED <<vars, bundleVars, grammarVars, fileVars, storeVars>>
     \/ part = "grammar" /\ Grammar!Next /\ UNCHANGED <<vars, bundleVars, input, fileVars, storeVars>>
     \/ part = "files" /\ Tm!CacheNext /\ UNCHANGED <<vars, bundleVars, input, grammarVars, storeVars>>
     \/ part = "store" /\ Tm!StoreNext /\ UNCHANGED <<vars, bundleVars, input, grammarVars, fileVars>>

PartSpec == PartInit /\ [][PartNext]_partVars

-----------------------------------------------------------------------------
\* A selector is matched as if all ways to lay it over a scope were tried
\* (ScopeSelectors).
ScopesMatch ==
  part = "selectors" =>
    Selectors!WalkFindsMatch /\ Selectors!WalkRanksBest /\ Selectors!RankedAsUnranked /\ Selectors!PrefixIsShared

\* The settings that apply are those the files have, the strongest wins, and
\* what the application sets comes back (Settings).
SettingsHold ==
  /\ part = "files" => Tm!CacheIsCurrent
  /\ part = "cascade" => Tm!StrongestWins
  /\ part = "store" => Tm!SettingsStay
  /\ part = "strings" => Tm!StringsSurvive

\* Format strings are read, expanded and escaped as their parts say, and
\* broken ones are text (FormatStrings); paths and the links in them lead where
\* they say (PathNames), and a glob matches what it spells out (Globs).
TextsConvert ==
  /\ part = "formats" => Formats!FormatsHold
  /\ part = "names" => Names!PathsHold
  /\ part = "globs" => FileGlobs!GlobsHold

\* A line is parsed to its end, by the first match each time, its scopes
\* balance, and parsing it again gives the same (GrammarParse).
LinesParse ==
  part = "grammar" =>
    Grammar!Terminates /\ Grammar!TakesFirst /\ Grammar!ScopesBalance /\ Grammar!ParsesAgain
=============================================================================
