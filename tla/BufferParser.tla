----------------------------- MODULE BufferParser -----------------------------
(***************************************************************************)
(* The parser behind ng::buffer_t: which positions of the text are dirty,  *)
(* the parser's state at the beginning of each line, the scopes, the parse *)
(* of a line on a background thread, and the announcement of what has been *)
(* parsed to the buffer's hooks (symbols, spelling, the layout).           *)
(*                                                                         *)
(* `buf' has the members of the buffer.  Most handlers end in              *)
(* initiate_repair, so they are operators from buffers to buffers, in the  *)
(* order of the code's calls.  `request' is the parse that runs in the     *)
(* background, its result, and what its block on the main thread           *)
(* remembers.  _parser_running and the life of _parser_reference end       *)
(* together, so both are "request # NoRequest"; a request that lost its    *)
(* reference does nothing any more and is forgotten at once.               *)
(*                                                                         *)
(* A grammar is a character that begins and ends a string; a parser state  *)
(* and a scope say whether we are in one, and by which grammar.  `seen' is *)
(* what the hooks saw of the scopes of each character; it is no member.    *)
(***************************************************************************)
EXTENDS IndexedMap, TextTrim

CONSTANTS
  TextChars, Newline,          \* the characters, and the one that ends a line
  Grammars,           \* the characters that quote
  InitTexts,          \* texts of a file that is loaded
  LimitEdit, LimitNext,  \* lines parsed before hooks are told: 20 after an edit, 10 then
  GrammarWhileParsing,   \* the file type may be changed while a line is being parsed
  MaxText, MaxRevision,
  NoRequest, NoBatch, Unseen

VARIABLES
  buf,      \* the buffer
  group,    \* an undo group is open
  records,  \* the edits that can be undone, with the revision to go back to
  waiting   \* the main thread is in wait_for_repair

ASSUME ParserAssumption == InitTexts \subseteq Seq(TextChars)

parserVars == <<buf, group, records, waiting>>

Scope(g, quoted) == [grammar |-> g, quoted |-> quoted]

-----------------------------------------------------------------------------
\* buffer_t::begin, end and lines of the line that has position i.
Newlines(t) == {k \in 0..Len(t) - 1 : t[k + 1] = Newline}
BeginOf(t, i) == Max({0} \cup {k + 1 : k \in {n \in Newlines(t) : n < i}})
EndOf(t, i) == Min({Len(t)} \cup {k + 1 : k \in {n \in Newlines(t) : n >= i}})
AtEOF(t, i) == {n \in Newlines(t) : n >= i} = {}

\* parse::parse of a line: whether each character is quoted, and the state after
\* the last one.
Quoted(line, g, s) ==
  LET q[i \in 0..Len(line)] == IF i = 0 THEN s ELSE IF line[i] = g THEN ~q[i - 1] ELSE q[i - 1] IN q

\* It says where the scope changes, and what it is at the begin of the line.
LineScopes(line, g, s) ==
  LET q       == Quoted(line, g, s)
      here(i) == q[i] \/ (i < Len(line) /\ line[i + 1] = g)
  IN [i \in {0} \cup {j \in 1..Len(line) : here(j) # here(j - 1)} |-> Scope(g, here(i))]
LineState(line, g, s) == Quoted(line, g, s)[Len(line)]

-----------------------------------------------------------------------------
\* The hooks look at the scopes of a range.
DidParse(b, from, to) ==
  [b EXCEPT !.seen = [i \in DOMAIN @ |-> IF from < i /\ i <= to THEN ValueAt(b.scopes, i - 1) ELSE @[i]]]

FirstDirty(b) == Min(DOMAIN b.dirty)

\* The parser's state at the begin of the line.  The seed is at -1.
StateKnown(b, from) == from = 0 \/ from \in DOMAIN b.states
StateAt(b, from) == b.states[IF from = 0 THEN Min(DOMAIN b.states) ELSE from]

InitiateRepair(b, limit, batch) ==
  IF b.request # NoRequest \/ b.dirty = NoKeys THEN b
  ELSE LET from == BeginOf(b.text, FirstDirty(b))
           to   == EndOf(b.text, from)
           line == Substr(b.text, from, to)
       IN IF ~StateKnown(b, from) THEN b
          ELSE [b EXCEPT !.request =
                  [from |-> from, to |-> to, revision |-> b.revision, limit |-> limit,
                   batch |-> IF batch = NoBatch THEN from ELSE batch,
                   scopes |-> LineScopes(line, b.grammar, StateAt(b, from)),
                   state |-> LineState(line, b.grammar, StateAt(b, from))]]

\* Mutant: after the last line too there is one that would have to be parsed.
ParsedLineEndless(b, from, to, scopes, state) ==
  LET eof     == AtEOF(b.text, from)
      clear(m) == IF eof THEN RemoveFrom(m, from) ELSE RemoveRange(m, from, to)
      new     == {from + k : k \in {j \in DOMAIN scopes : eof \/ from + j < to}}
      changed == to \notin DOMAIN b.states \/ b.states[to] # state
  IN [b EXCEPT !.scopes = SetAll(clear(@), [j \in new |-> scopes[j - from]]), !.states = Set(@, to, state),
               !.dirty = IF changed THEN Set(clear(@), to, TRUE) ELSE clear(@), !.request = NoRequest]

\* The result of a line in the three maps.  The next line is dirty if the
\* state it begins with changed.
ParsedLine(b, from, to, scopes, state) ==
  LET eof     == AtEOF(b.text, from)
      clear(m) == IF eof THEN RemoveFrom(m, from) ELSE RemoveRange(m, from, to)
      new     == {from + k : k \in {j \in DOMAIN scopes : eof \/ from + j < to}}
      changed == to \notin DOMAIN b.states \/ b.states[to] # state
  IN [b EXCEPT !.scopes = SetAll(clear(@), [j \in new |-> scopes[j - from]]),
               !.states = IF changed THEN Set(@, to, state) ELSE @,
               !.dirty = IF changed /\ ~eof THEN Set(clear(@), to, TRUE) ELSE clear(@),
               !.request = NoRequest]

UpdateScopes(b, limit, batch, from, to, scopes, state) ==
  LET p == ParsedLine(b, from, to, scopes, state) IN
  IF p.dirty # NoKeys /\ FirstDirty(p) = to /\ limit > 0
  THEN InitiateRepair(p, limit - 1, batch)
  ELSE InitiateRepair(DidParse(p, batch, to), LimitNext, NoBatch)

\* The first dirty line, parsed on the main thread.
RepairedLine(b) ==
  LET from == BeginOf(b.text, FirstDirty(b))
      to   == EndOf(b.text, from)
      line == Substr(b.text, from, to)
  IN UpdateScopes(b, 0, from, from, to, LineScopes(line, b.grammar, StateAt(b, from)), LineState(line, b.grammar, StateAt(b, from)))

-----------------------------------------------------------------------------
\* buffer_t::replace.
ParserReplace(b, from, to, s) ==
  [b EXCEPT !.text   = Splice(@, from, to, s),
            !.dirty  = Set(Replace(@, from, to, Len(s), FALSE), from, TRUE),
            !.scopes = ReplacePreserving(@, from, to, Len(s), TRUE),
            !.states = Replace(@, from, to, Len(s), FALSE),
            !.seen   = Splice(@, from, to, [i \in 1..Len(s) |-> Unseen])]

TrimmedReplace(b, from, to, s) ==
  LET old   == Substr(b.text, from, to)
      left  == CommonPrefix(old, s)
      right == CommonSuffix(old, s, left)
  IN ParserReplace(b, from + left, to - right, SubSeq(s, left + 1, Len(s) - right))

SetRevision(b, r) == InitiateRepair([b EXCEPT !.revision = r], LimitEdit, NoBatch)

ResetGrammar(b, g) ==
  InitiateRepair([b EXCEPT !.grammar = g, !.scopes = Set(NoKeys, -1, Scope(g, FALSE)), !.states = Set(NoKeys, -1, FALSE),
                           !.dirty = Set(NoKeys, 0, TRUE)], LimitNext, NoBatch)

\* Mutant: the block does not look whether the text is still the one it parsed.
CompletedAnyway(b) ==
  LET r == b.request
  IN UpdateScopes([b EXCEPT !.request = NoRequest], r.limit, r.batch, r.from, r.to, r.scopes, r.state)

\* The block on the main thread.
Completed(b) ==
  LET r    == b.request
      idle == [b EXCEPT !.request = NoRequest]
      cut(i) == Min({i, Len(b.text)})
  IN IF r.revision = b.revision
     THEN UpdateScopes(idle, r.limit, r.batch, r.from, r.to, r.scopes, r.state)
     ELSE InitiateRepair(IF r.batch # r.from THEN DidParse(idle, cut(r.batch), cut(r.from)) ELSE idle, 0, NoBatch)

-----------------------------------------------------------------------------
\* didLoadContent: the text is inserted, then the grammar set, then the
\* parser switched on and the first revision given.
ParserInit ==
  \E t \in InitTexts, g \in Grammars :
    /\ buf = SetRevision(
         [text |-> t, revision |-> 0, next |-> 2, grammar |-> g, dirty |-> Set(NoKeys, 0, TRUE),
          scopes |-> Set(NoKeys, -1, Scope(g, FALSE)), states |-> Set(NoKeys, -1, FALSE),
          seen |-> [i \in 1..Len(t) |-> Unseen], request |-> NoRequest], 1)
    /\ group = FALSE /\ records = <<>> /\ waiting = FALSE

\* The main thread is not in a handler, and the run loop does not run in a group.
Idling == ~group /\ ~waiting

\* An undo group of one edit, and its end, which gives the text a revision.
ReplaceText(from, to, s) ==
  /\ Idling /\ buf.next <= MaxRevision
  /\ Len(buf.text) - (to - from) + Len(s) <= MaxText
  /\ buf' = TrimmedReplace(buf, from, to, s)
  /\ records' = Append(records, [pos |-> from, before |-> Substr(buf.text, from, to), after |-> s,
                                 revision |-> buf.revision])
  /\ group' = TRUE
  /\ UNCHANGED waiting

EndGroup ==
  /\ group
  /\ buf' = SetRevision([buf EXCEPT !.next = @ + 1], buf.next)
  /\ group' = FALSE
  /\ UNCHANGED <<records, waiting>>

Undo ==
  /\ Idling /\ records # <<>>
  /\ LET r == records[Len(records)] IN
     buf' = SetRevision(TrimmedReplace(buf, r.pos, r.pos + Len(r.after), r.before), r.revision)
  /\ records' = SubSeq(records, 1, Len(records) - 1)
  /\ UNCHANGED <<group, waiting>>

SetGrammar(g) ==
  /\ Idling /\ (GrammarWhileParsing \/ buf.request = NoRequest)
  /\ buf' = ResetGrammar(buf, g)
  /\ UNCHANGED <<group, records, waiting>>

\* wait_for_repair: the parse that runs is forgotten, and the main thread parses
\* the dirty lines one after the other.
WaitForRepair ==
  /\ Idling
  /\ buf' = [buf EXCEPT !.request = NoRequest]
  /\ waiting' = TRUE
  /\ UNCHANGED <<group, records>>

CanRepair == buf.dirty # NoKeys /\ StateKnown(buf, BeginOf(buf.text, FirstDirty(buf)))

RepairLine == waiting /\ CanRepair /\ buf' = RepairedLine(buf) /\ UNCHANGED <<group, records, waiting>>
Repaired   == waiting /\ ~CanRepair /\ waiting' = FALSE /\ UNCHANGED <<buf, group, records>>

LineParsed ==
  /\ Idling /\ buf.request # NoRequest
  /\ buf' = Completed(buf)
  /\ UNCHANGED <<group, records, waiting>>

Strings == {<<>>} \cup {<<c>> : c \in TextChars}

ParserNext ==
  \/ \E from, to \in 0..Len(buf.text), s \in Strings : from <= to /\ ReplaceText(from, to, s)
  \/ EndGroup \/ Undo \/ LineParsed \/ WaitForRepair \/ RepairLine \/ Repaired
  \/ \E g \in Grammars : SetGrammar(g)

ParserSpec == ParserInit /\ [][ParserNext]_parserVars

-----------------------------------------------------------------------------
\* The whole text parsed in one go.
Reference(i) ==
  LET q == Quoted(buf.text, buf.grammar, FALSE)
  IN Scope(buf.grammar, q[i] \/ buf.text[i + 1] = buf.grammar)

Settled == buf.dirty = NoKeys /\ buf.request = NoRequest /\ Idling

\* The type invariant; the last conjunct is what the error "No parser state"
\* in the log is about.
ParserTypes ==
  /\ buf.text \in Seq(TextChars)
  /\ buf.revision \in 1..buf.next - 1
  /\ DOMAIN buf.seen = DOMAIN buf.text
  /\ DOMAIN buf.dirty \subseteq 0..Len(buf.text)
  /\ {DOMAIN buf.scopes, DOMAIN buf.states} \subseteq SUBSET (-1..Len(buf.text))
  /\ buf.dirty # NoKeys => StateKnown(buf, BeginOf(buf.text, FirstDirty(buf)))

\* Whatever was edited, undone or waited for while lines were parsed in the
\* background: up to the first dirty position the scopes are those of a parse of
\* the whole text, and the lines begin with that parse's states.
PrefixParsed ==
  LET first == IF buf.dirty = NoKeys THEN Len(buf.text) ELSE BeginOf(buf.text, FirstDirty(buf)) IN
  /\ \A i \in 0..first - 1 : ValueAt(buf.scopes, i) = Reference(i)
  /\ \A i \in 1..first :
       i \in DOMAIN buf.states /\ BeginOf(buf.text, i) = i =>
         buf.states[i] = Quoted(buf.text, buf.grammar, FALSE)[i]

\* When the parser is done, its hooks have seen the scopes as they are.
HooksSawScopes == Settled => \A i \in DOMAIN buf.text : buf.seen[i] = ValueAt(buf.scopes, i - 1)

\* The parser never stops with a dirty line, whatever made it drop a request.
NeverStalls == buf.dirty # NoKeys /\ Idling => buf.request # NoRequest

ParsedPrefix == ParserTypes /\ PrefixParsed /\ NeverStalls

\* The first dirty line, when it was parsed for the text as it is, gets the
\* parser further, so it ends: the first dirty position moves on, or there is none any more.
Advances ==
  /\ buf.request # NoRequest /\ buf'.request # buf.request /\ waiting' = waiting
  /\ buf.dirty # NoKeys /\ buf.request.from = BeginOf(buf.text, FirstDirty(buf))
  /\ buf.request.revision = buf.revision
  => buf'.dirty = NoKeys \/ FirstDirty(buf') > FirstDirty(buf)
StepsKeep == [][Advances]_parserVars
=============================================================================
