----------------------------- MODULE GrammarParse -----------------------------
(***************************************************************************)
(* Parsing a line by a grammar: parse.cc of the parse framework.  A        *)
(* pattern is known by where it matches: a line gives each pattern its     *)
(* matches <<begin, end>>, one for a begin at most.  The stack of open     *)
(* rules is a linked list that lines share; the scopes of a line are       *)
(* gathered as records of a position and are put together at its end.      *)
(*                                                                         *)
(* A rule is [kind, pattern, close, anchored, name, content, kids, target, *)
(* last, caps, closeCaps, inj]: kind is "match", "end" or "while" (with a  *)
(* begin pattern), "group" or "include"; close is its end or while         *)
(* pattern; caps are the captures of a match, each [ahead, name, rule] of  *)
(* the whole match or of what it looks ahead at.                           *)
(* Rule 1 is the grammar itself.                                           *)
(***************************************************************************)
EXTENDS Naturals, Sequences, FiniteSets, FiniteSetsExt, SequencesExt

CONSTANTS Grammars,   \* sequences of rules
          Texts,      \* sets of texts a line may have, each [len, hits]
          None,       \* no name, no match
          Far,        \* SIZE_T_MAX as an anchor
          MaxParses,  \* how many lines are parsed
          MaxSteps    \* the steps that suffice for a line

VARIABLES grammar, texts,
          heap,       \* the nodes of stack_t: [rule, parent, scope, name, content, anchor, zw]
          saved,      \* for each line the node it starts with, 0 if not parsed to there
          line,       \* the line being parsed, 0 if none
          text,       \* its text
          frames,     \* the calls of parse(), the innermost last
          records,    \* scopes_t: [pos, name, add] in the order of the multimap
          steps, parses

vars == <<grammar, texts, heap, saved, line, text, frames, records, steps, parses>>

Rule(r) == grammar[r]

RECURSIVE Chain(_, _)
Chain(h, node) == IF node = 0 THEN <<>> ELSE <<h[node]>> \o Chain(h, h[node].parent)

-----------------------------------------------------------------------------
(* scopes_t.                                                               *)

\* add and remove(endRule) go behind the records of the position, remove in
\* front of them.
Before(log, r, behind) == Cardinality({k \in DOMAIN log : log[k].pos < r.pos \/ (behind /\ log[k].pos = r.pos)})
Insert(log, r, behind) == InsertAt(log, Before(log, r, behind) + 1, r)

Opens(pos, name) == [op |-> "add", pos |-> pos, name |-> name]
Shuts(pos, name) == [op |-> "remove", pos |-> pos, name |-> name]
Leaves(pos, name) == [op |-> "leave", pos |-> pos, name |-> name]
Named(ops) == SelectSeq(ops, LAMBDA o : o.name # None)

Recorded(log, o) == Insert(log, [pos |-> o.pos, name |-> o.name, add |-> o.op = "add"], o.op # "remove")

\* The stack that tracks what a nested parse left open.
Tracked(open, o) ==
  IF o.op = "add" THEN Append(open, o.name)
  ELSE IF open # <<>> /\ Last(open) = o.name THEN Front(open) ELSE open

\* update: push and pop, also from under others.
LastOf(scope, name) == Max({0} \cup {k \in DOMAIN scope : scope[k] = name})
Applied(acc, r) ==
  LET moved == IF acc.pos = r.pos THEN acc ELSE [acc EXCEPT !.out = @ \cup {<<acc.pos, acc.scope>>}, !.pos = r.pos]
      k == LastOf(acc.scope, r.name)
  IN  IF r.add THEN [moved EXCEPT !.scope = Append(@, r.name)]
      ELSE IF k = 0 THEN [moved EXCEPT !.missing = TRUE]
      ELSE [moved EXCEPT !.scope = RemoveAt(@, k)]
Updated(scope, log) == FoldLeft(Applied, [pos |-> 0, scope |-> scope, out |-> {}, missing |-> FALSE], log)

-----------------------------------------------------------------------------
(* Which rules apply, and where they match.                                *)

\* regexp::search: the first match from i; \G holds where the search begins.
Found(hits, anchored, i, last) ==
  LET seen == {h \in hits : h[1] >= i /\ h[2] <= last /\ (anchored => h[1] = i)}
  IN  IF seen = {} THEN None ELSE CHOOSE h \in seen : \A g \in seen : h[1] <= g[1]

\* collect_rule: included marks what was reached, groups only where the caller asks.
RECURSIVE CollectRule(_, _, _)
CollectRule(r, acc, groups) ==
  LET marked == IF groups THEN [acc EXCEPT !.included = @ \cup {r}, !.groups = Append(@, r)] ELSE acc
  IN  IF r \in acc.included THEN acc
      ELSE CASE Rule(r).kind = "include" -> CollectRule(Rule(r).target, marked, groups)
             [] Rule(r).kind = "group" -> FoldLeft(LAMBDA a, k : CollectRule(k, a, groups), marked, Rule(r).kids)
             [] OTHER -> [acc EXCEPT !.included = @ \cup {r}, !.res = Append(@, r)]

Collected(kids) ==
  FoldLeft(LAMBDA a, k : CollectRule(k, a, TRUE), [res |-> <<>>, groups |-> <<>>, included |-> {}], kids)

\* collect_injections, of those in front (left) or behind: the stack's rules
\* and the groups that were passed, not the root again.
Injecting(chain, groups) ==
  FlattenSeq([k \in DOMAIN chain |-> Rule(chain[k].rule).inj]
             \o [k \in DOMAIN groups |-> IF groups[k] = 1 THEN <<>> ELSE Rule(groups[k]).inj])
Injected(chain, acc, left) ==
  FoldLeft(LAMBDA a, inj : IF inj.left = left /\ inj.when \in Range(chain[1].scope) THEN CollectRule(inj.rule, a, FALSE) ELSE a,
           [acc EXCEPT !.res = <<>>], Injecting(chain, acc.groups))

\* The candidates of a context in the order of their rank: <<rule, is end>>.
EndOf(node) == IF node.closes THEN <<<<node.rule, TRUE>>>> ELSE <<>>
Own(rules) == [k \in DOMAIN rules |-> <<rules[k], FALSE>>]
Ranked(node, pre, kids, post) ==
  Own(pre) \o (IF Rule(node.rule).last THEN Own(kids) \o EndOf(node) ELSE EndOf(node) \o Own(kids)) \o Own(post)
Candidates(chain) ==
  LET kids == Collected(Rule(chain[1].rule).kids)
      pre  == Injected(chain, kids, TRUE)
  IN  Ranked(chain[1], pre.res, kids.res, Injected(chain, pre, FALSE).res)

Fresh(f, c) ==
  IF c[2] THEN Found(f.hits[Rule(c[1]).close], FALSE, f.i, f.last)
  ELSE Found(f.hits[Rule(c[1]).pattern], Rule(c[1]).anchored, f.i, f.last)

\* apply_rules: what was found for a rule in this call is found again.
Matched(f, c) == IF ~c[2] /\ c[1] \in DOMAIN f.cache THEN f.cache[c[1]] ELSE Fresh(f, c)

\* collect_rules.
Collect(f, cands) ==
  [f EXCEPT !.rules = {[rank |-> k, rule |-> cands[k][1], end |-> cands[k][2], at |-> Matched(f, cands[k])] :
                         k \in {k \in DOMAIN cands : Matched(f, cands[k]) # None}},
            !.cache = [r \in DOMAIN @ \cup {c[1] : c \in {c \in Range(cands) : ~c[2] /\ ~Rule(c[1]).anchored}} |->
                         Matched(f, <<r, FALSE>>)],
            !.cands = cands, !.dropped = {}]

\* The frame in the context that it has come to, the nodes being h.
Enter(f, h) == Collect(f, Candidates(Chain(h, f.stack)))

-----------------------------------------------------------------------------
(* One call of parse().                                                    *)

Call(stack, scope, i, last, hits, whiles) ==
  [stack |-> stack, scope |-> scope, i |-> i, last |-> last, hits |-> hits, whiles |-> whiles, rules |-> {},
   cache |-> <<>>, cands |-> <<>>, dropped |-> {}, todo |-> <<>>, open |-> <<>>]

F == Last(frames)

\* apply_captures: what a match of length > 0 captured, and what to parse in it.
Region(cap, m) == IF cap.ahead THEN <<m[2], m[2] + 1>> ELSE m
Captures(caps, m, scope) ==
  FlattenSeq([k \in DOMAIN caps |->
    LET r == Region(caps[k], m)
    IN  IF r[1] = r[2] \/ r[2] > F.last THEN <<>>
        ELSE Named(<<Opens(r[1], caps[k].name), Shuts(r[2], caps[k].name)>>)
             \o (IF caps[k].rule = 0 THEN <<>>
                 ELSE <<[op |-> "parse", pos |-> r[1], to |-> r[2], rule |-> caps[k].rule, scope |-> scope]>>)])

\* Records the operations up to the first that calls parse() again; the rest
\* stays to be done.  A nested call tracks what it opens.
Ready(ops) == LET k == SelectInSeq(ops, LAMBDA o : o.op = "parse") IN IF k = 0 THEN ops ELSE SubSeq(ops, 1, k - 1)
DoesIn(log, callers, f, ops) ==
  LET ready == Ready(ops)
  IN  /\ records' = FoldLeft(Recorded, log, ready)
      /\ frames' = Append(callers, [f EXCEPT !.todo = SubSeq(ops, Len(ready) + 1, Len(ops)),
                                             !.open = IF callers = <<>> THEN @ ELSE FoldLeft(Tracked, @, ready)])
Does(f, ops) == DoesIn(records, Front(frames), f, ops)

Pushed(scope, name) == IF name = None THEN scope ELSE Append(scope, name)
Node(rule, parent, scope, name, content, anchor, zw) ==
  [rule |-> rule, parent |-> parent, scope |-> scope, name |-> name, content |-> content, anchor |-> anchor, zw |-> zw,
   closes |-> parent # 0 /\ Rule(rule).kind = "end"]

RECURSIVE Whiles(_)
Whiles(node) == IF Rule(heap[node].rule).kind = "while" THEN <<node>> \o Whiles(heap[node].parent) ELSE <<>>

\* A line is parsed from the stack saved for it.  The rules that a while
\* pattern must confirm are left before it is known.
Left(ws) == FlattenSeq([k \in DOMAIN ws |-> Named(<<Leaves(0, heap[ws[k]].name), Leaves(0, heap[ws[k]].content)>>)])
LineCall(t, node, ws) ==
  Call(node, heap[IF ws = <<>> THEN node ELSE heap[Last(ws)].parent].scope, 0, t.len, t.hits, ws)

BeginLine(n, t) ==
  LET node == saved[n]
      ws == Whiles(node)
      f == LineCall(t, node, ws)
  IN  /\ line = 0 /\ node # 0 /\ Len(parses) < MaxParses
      /\ line' = n /\ text' = t /\ steps' = 1
      /\ records' = FoldLeft(Recorded, <<>>, Left(ws))
      /\ frames' = <<IF ws = <<>> THEN Enter(f, heap) ELSE f>>
      /\ UNCHANGED <<grammar, texts, heap, saved, parses>>

\* The while patterns, the outermost first; the first that fails ends its
\* rule and those inside.
Confirmed(m) == Found(F.hits[Rule(heap[Last(F.whiles)].rule).close], FALSE, F.i, F.last) = m
AtWhile == frames # <<>> /\ F.todo = <<>> /\ F.whiles # <<>>
Settled(f, h) == IF f.whiles = <<>> THEN Enter(f, h) ELSE f

WhileHolds ==
  \E m \in F.hits[Rule(heap[Last(F.whiles)].rule).close] :
    LET r == Rule(heap[Last(F.whiles)].rule)
        f == [F EXCEPT !.i = m[2], !.whiles = Front(@), !.scope = Pushed(Pushed(@, r.name), r.content)]
    IN  /\ Confirmed(m)
        /\ heap' = [heap EXCEPT ![F.stack].anchor = m[2]]
        /\ Does(Settled(f, heap), Named(<<Opens(m[1], r.name)>>) \o Captures(r.closeCaps, m, Pushed(F.scope, r.name))
                               \o Named(<<Opens(m[2], r.content)>>))

WhileFails ==
  LET up == heap[Last(F.whiles)].parent
  IN  /\ Confirmed(None)
      /\ heap' = IF Rule(heap[up].rule).kind = "while" THEN [heap EXCEPT ![up].anchor = F.i] ELSE heap
      /\ Does(Enter([F EXCEPT !.stack = up, !.whiles = <<>>], heap), <<>>)

-----------------------------------------------------------------------------
(* The loop over the matches.                                              *)

\* ranked_match_t: the first match, of those at one place the lowest rank.
Earliest(rules) ==
  CHOOSE m \in rules : \A o \in rules : m.at[1] < o.at[1] \/ (m.at[1] = o.at[1] /\ m.rank <= o.rank)

Candidate(m) == <<m.rule, m.end>>
Rest(f, m) == [f EXCEPT !.rules = @ \ {m}]

\* A slip: a match that was passed is not searched for again.
AgainDropped(f, m) == Rest(f, m)

Again(f, m) ==
  IF Fresh(f, Candidate(m)) = None THEN Rest(f, m)
  ELSE [f EXCEPT !.rules = (@ \ {m}) \cup {[m EXCEPT !.at = Fresh(f, Candidate(m))]}]

InLoop == frames # <<>> /\ F.todo = <<>> /\ F.whiles = <<>>
Broken(f) == [f EXCEPT !.rules = {}, !.cands = <<>>]

\* The match begins before the position: it is searched for again.
Passed(m) == m.at[1] < F.i /\ Does(Again(F, m), <<>>) /\ UNCHANGED heap

\* An end: of a rule that began and ends without a character the loop ends.
EndRule(m) ==
  LET top == heap[F.stack]
      f == [F EXCEPT !.i = m.at[2], !.stack = top.parent, !.scope = heap[top.parent].scope]
  IN  /\ m.at[1] >= F.i /\ m.end
      /\ UNCHANGED heap
      /\ Does(IF top.zw /\ top.anchor = m.at[2] THEN Broken(f) ELSE Enter(f, heap),
              Named(<<Leaves(m.at[1], top.content)>>) \o Captures(Rule(m.rule).closeCaps, m.at, F.scope)
              \o Named(<<Leaves(m.at[2], top.name)>>))

\* has_cycle: the rule is on the stack, and nothing was parsed since.
RECURSIVE HasCycle(_, _, _)
HasCycle(rule, i, node) ==
  /\ node # 0 /\ heap[node].zw /\ heap[node].anchor = i
  /\ heap[node].rule = rule \/ HasCycle(rule, i, heap[node].parent)
Empty(m) == m.at[1] = m.at[2]

BeginRule(m) ==
  LET r == Rule(m.rule)
      scope == Pushed(Pushed(F.scope, r.name), r.content)
      h == Append([heap EXCEPT ![F.stack].anchor = Far],
                  Node(m.rule, F.stack, scope, r.name, r.content, m.at[2], Empty(m)))
  IN  /\ m.at[1] >= F.i /\ ~m.end /\ r.kind \in {"end", "while"}
      /\ ~(Empty(m) /\ HasCycle(m.rule, m.at[2], F.stack))
      /\ heap' = h
      /\ Does(Enter([F EXCEPT !.i = m.at[2], !.stack = Len(h), !.scope = scope], h),
              Named(<<Opens(m.at[1], r.name)>>) \o Captures(r.caps, m.at, Pushed(F.scope, r.name))
              \o Named(<<Opens(m.at[2], r.content)>>))

BeginCycle(m) ==
  /\ m.at[1] >= F.i /\ ~m.end /\ Rule(m.rule).kind \in {"end", "while"}
  /\ Empty(m) /\ HasCycle(m.rule, m.at[2], F.stack)
  /\ Does(Broken([F EXCEPT !.i = m.at[2]]), <<>>) /\ UNCHANGED heap

\* A match: a rule that matches nothing is not tried again in this context.
MatchRule(m) ==
  LET r == Rule(m.rule)
      f == [F EXCEPT !.i = m.at[2]]
  IN  /\ m.at[1] >= F.i /\ ~m.end /\ r.kind = "match"
      /\ UNCHANGED heap
      /\ IF Empty(m) THEN Does([Rest(f, m) EXCEPT !.dropped = @ \cup {Candidate(m)}], <<>>)
         ELSE Does(Again(f, m), Named(<<Opens(m.at[1], r.name), Shuts(m.at[2], r.name)>>) \o Captures(r.caps, m.at, F.scope))
-----------------------------------------------------------------------------
(* The ends of the calls, and the next line.                               *)

\* A capture with rules of its own is parsed by them.
ParseCapture ==
  LET o == Head(F.todo)
      h == Append(heap, Node(o.rule, 0, o.scope, None, None, o.pos, FALSE))
      f == Call(Len(h), o.scope, o.pos, o.to, F.hits, <<>>)
  IN  /\ frames # <<>> /\ F.todo # <<>>
      /\ heap' = h
      /\ frames' = Append(frames, Enter(f, h))
      /\ UNCHANGED records

Done == InLoop /\ F.rules = {}
Anchored == [heap EXCEPT ![F.stack].anchor = IF @ = F.last THEN 0 ELSE Far]

\* What the capture's rules left open ends with it.
Closing == [k \in DOMAIN F.open |-> Leaves(F.last, F.open[Len(F.open) + 1 - k])]
EndCapture ==
  LET caller == frames[Len(frames) - 1]
  IN  /\ Done /\ Len(frames) > 1
      /\ heap' = Anchored
      /\ DoesIn(FoldLeft(Recorded, records, Closing), SubSeq(frames, 1, Len(frames) - 2), caller, Tail(caller.todo))

StackOf(h, node) == [k \in DOMAIN Chain(h, node) |-> <<Chain(h, node)[k].rule, Chain(h, node)[k].scope>>]

\* A rule is open that began with an empty match.
BeganEmpty(node) == \E k \in DOMAIN Chain(heap, node) : Chain(heap, node)[k].zw

EndLine ==
  LET u == Updated(heap[saved[line]].scope, records)
      h == [Anchored EXCEPT ![F.stack].scope = u.scope]
  IN  /\ Done /\ Len(frames) = 1
      /\ heap' = h
      /\ saved' = [saved EXCEPT ![line + 1] = F.stack]
      /\ parses' = Append(parses, [text |-> text, from |-> StackOf(heap, saved[line]), zw |-> BeganEmpty(saved[line]),
                                   out |-> u.out \cup {<<u.pos, u.scope>>}, missing |-> u.missing,
                                   agrees |-> u.scope = heap[F.stack].scope, stack |-> StackOf(h, F.stack)])
      /\ frames' = <<>> /\ records' = <<>> /\ line' = 0 /\ text' = None /\ steps' = 0
      /\ UNCHANGED <<grammar, texts>>

Init ==
  /\ grammar \in Grammars /\ texts \in Texts
  /\ heap = <<Node(1, 0, <<grammar[1].name>>, None, None, 0, FALSE)>>
  /\ saved = <<1, 0, 0>> /\ line = 0 /\ text = None /\ frames = <<>> /\ records = <<>> /\ steps = 0 /\ parses = <<>>

AtMatch == InLoop /\ F.rules # {}
Iterate(m) == Passed(m) \/ EndRule(m) \/ BeginRule(m) \/ BeginCycle(m) \/ MatchRule(m)
Step ==
  /\ \/ AtWhile /\ (WhileHolds \/ WhileFails)
     \/ AtMatch /\ Iterate(Earliest(F.rules))
     \/ ParseCapture
     \/ EndCapture
  /\ steps' = steps + 1
  /\ UNCHANGED <<grammar, texts, saved, line, text, parses>>

Next == (\E n \in 1 .. 2, t \in texts : BeginLine(n, t)) \/ Step \/ EndLine
Spec == Init /\ [][Next]_vars

-----------------------------------------------------------------------------
\* A line is parsed in a bounded number of steps (parse.cc:405-527): rules
\* that match nothing do not make the loop go round for ever.
Terminates == steps <= MaxSteps

\* What was found earlier in a call, and is kept in the set or the cache,
\* does not hide a match: the next one taken is the first from the position
\* on, and when none is left there is none (parse.cc:305-331, 411-417).
TakesFirst ==
  InLoop /\ (F.rules # {} => Earliest(F.rules).at[1] >= F.i) =>
    \A k \in DOMAIN F.cands :
      LET c == F.cands[k]
          found == Fresh(F, c)
          m == Earliest(F.rules)
      IN  c \notin F.dropped /\ (c[2] \/ ~Rule(c[1]).anchored) /\ found # None =>
            F.rules # {} /\ (m.at[1] < found[1] \/ (m.at[1] = found[1] /\ m.rank <= k))

\* A scope that ends is there, whatever was pushed and popped around it, and
\* the scope at the end of the line is the one of the rules then open
\* (parse.cc:32-70, 541).
ScopesBalance == \A k \in DOMAIN parses : ~parses[k].missing /\ parses[k].agrees

\* Parsing a text again from an equal stack gives what it gave, although
\* lines share the stack and the parser writes to it (parse.cc:407, 487, 519).
\* If a rule of the stack began with an empty match it may not: the anchor
\* then decides, and is not part of what makes stacks equal (parse.cc:145).
ParsesAgain ==
  \A j, k \in DOMAIN parses :
    /\ parses[j].text = parses[k].text /\ parses[j].from = parses[k].from
    /\ ~parses[j].zw /\ ~parses[k].zw
    => parses[j].out = parses[k].out /\ parses[j].stack = parses[k].stack
=============================================================================
