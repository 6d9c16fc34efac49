-------------------------------- MODULE RcxCond --------------------------------
(***************************************************************************)
(* The conditions of a profile: parsed once and then tested against what   *)
(* is known of a node and of the network, which is little at first and     *)
(* more with every check (core/rcx/cond.go).  An unknown condition makes   *)
(* the planner check; a known one admits or excludes the node.             *)
(*                                                                         *)
(* A condition's text is the sequence of tokens lexCond makes of it, a     *)
(* token is [kind, text]; letters, case and patterns are left out ("~"     *)
(* compares like "=").  A parse is [node, pos, ok].                        *)
(***************************************************************************)
EXTENDS Naturals, Sequences, SequencesExt, FiniteSets

CONSTANTS
    Wanted,             \* the conditions an author means, as trees
    Scopes,             \* condScope: [tags, checks, diags, network], what a condition may name
    Countries,          \* what a node's exit may turn out to be
    Checks, Diags,      \* names of checks and of network diagnostics
    maxConditionDepth,
    MaxFacts            \* bound of the model: facts learned in one run

VARIABLES
    scope,      \* where the condition stands
    tree,       \* what the author means
    cond,       \* the compiled condition
    subject,    \* what is known
    learned     \* facts so far

vars == <<scope, tree, cond, subject, learned>>

None == [op |-> "none"]
Unknown == "unknown"
triOf(b) == IF b THEN "yes" ELSE "no"

---------------------------------------------------------------------------
(* Testing *)

\* stringOf(): a country or a kind of network that nobody found out is the empty string.
stringOf(s, field) == IF field = "provider" THEN s.provider ELSE s.exit

\* boolOf(): what is about a network nobody reported is unknown.
boolOf(s, field) ==
    IF field = "alive" THEN triOf(s.alive)
    ELSE IF s.metered = Unknown THEN Unknown ELSE triOf(s.metered = "yes")

\* The predicates: boolNode, tagNode, checkNode, diagNode, stringNode and numberNode.
TestLeaf(n, s) ==
    CASE n.op = "bool" -> boolOf(s, n.name)
      [] n.op = "tag" -> triOf(n.name \in s.tags)
      [] n.op = "check" -> IF s.checks[n.name] = Unknown THEN Unknown
                           ELSE IF s.checks[n.name] = "neither" THEN "no"
                           ELSE triOf((s.checks[n.name] = "yes") = n.pass)
      [] n.op = "diag" -> IF s.diags[n.name] = Unknown THEN Unknown
                          ELSE triOf((s.diags[n.name] = "yes") = n.pass)
      [] n.op = "string" -> IF stringOf(s, n.name) = "" THEN Unknown
                            ELSE IF n.cmp = "!=" THEN triOf(stringOf(s, n.name) # n.values[1])
                            ELSE triOf(\E i \in DOMAIN n.values : n.values[i] = stringOf(s, n.name))
      [] n.op = "number" -> IF ~s.measured THEN "no"
                            ELSE IF n.cmp = "<" THEN triOf(s.latency < n.value)
                            ELSE triOf(s.latency >= n.value)

\* A plausible slip: negation leaves no room for the unknown.
MutNot(value) == triOf(value = "no")

Not(value) == IF value = Unknown THEN Unknown ELSE triOf(value = "no")

RECURSIVE Test(_, _)
Test(n, s) ==
    LET values == IF n.op \in {"and", "or"} THEN {Test(n.items[i], s) : i \in DOMAIN n.items} ELSE {}
    IN CASE n.op = "and" -> IF "no" \in values THEN "no"
                            ELSE IF Unknown \in values THEN Unknown ELSE "yes"
         [] n.op = "or" -> IF "yes" \in values THEN "yes"
                           ELSE IF Unknown \in values THEN Unknown ELSE "no"
         [] n.op = "not" -> Not(Test(n.item, s))
         [] n.op \notin {"and", "or", "not"} -> TestLeaf(n, s)

---------------------------------------------------------------------------
(* Parsing *)

Word(text) == [kind |-> "word", text |-> text]
Op(text) == [kind |-> "op", text |-> text]
Punct(text) == [kind |-> "punct", text |-> text]

Fail(pos) == [node |-> None, pos |-> pos, ok |-> FALSE]
Ok(node, pos) == [node |-> node, pos |-> pos, ok |-> TRUE]

peek(tokens, pos) == IF pos > Len(tokens) THEN Punct("end") ELSE tokens[pos]

fields == [f \in {"provider", "exit.country"} |-> "string"] @@ [f \in {"alive", "metered"} |-> "bool"]
          @@ ("latency" :> "number")
netFields == {"metered"}

\* text(): "in" with its list, or one value.
RECURSIVE ParseList(_, _, _)
ParseList(tokens, pos, values) ==
    IF peek(tokens, pos).kind # "word" THEN Fail(pos)
    ELSE LET all == Append(values, peek(tokens, pos).text)
         IN IF peek(tokens, pos + 1) = Punct("]") THEN Ok(all, pos + 2)
            ELSE IF peek(tokens, pos + 1) = Punct(",") THEN ParseList(tokens, pos + 2, all)
            ELSE Fail(pos + 1)

ParseText(tokens, pos, field, cmp) ==
    LET list == IF cmp # "in" THEN IF peek(tokens, pos).kind = "word"
                                   THEN Ok(<<peek(tokens, pos).text>>, pos + 1) ELSE Fail(pos)
                ELSE IF peek(tokens, pos) = Punct("[") THEN ParseList(tokens, pos + 1, <<>>)
                ELSE Fail(pos)
    IN IF list.ok THEN Ok([op |-> "string", name |-> field, cmp |-> cmp, values |-> list.node], list.pos)
       ELSE list

\* number(): a comparison and a number.
ParseNumber(tokens, pos, cmp) ==
    IF cmp \in {"<", ">="} /\ peek(tokens, pos).kind = "number"
    THEN Ok([op |-> "number", name |-> "latency", cmp |-> cmp, value |-> tokens[pos].value], pos + 1)
    ELSE Fail(pos)

\* predicate(): tag, passes and fails with call(), a diagnostic, or a field and its operator;
\* names out of scope and node fields in a network condition are refused.
predicate(tokens, pos) ==
    LET word == peek(tokens, pos).text
        name == peek(tokens, pos + 2)
        called == peek(tokens, pos + 1) = Punct("(") /\ name.kind = "word" /\ peek(tokens, pos + 3) = Punct(")")
        state == peek(tokens, pos + 1)
    IN IF peek(tokens, pos).kind # "word" THEN Fail(pos)
       ELSE IF word \in {"tag", "passes", "fails"}
       THEN IF ~called \/ scope.network THEN Fail(pos)
            ELSE IF word = "tag"
            THEN IF name.text \in scope.tags THEN Ok([op |-> "tag", name |-> name.text], pos + 4) ELSE Fail(pos)
            ELSE IF name.text \in scope.checks
            THEN Ok([op |-> "check", name |-> name.text, pass |-> word = "passes"], pos + 4) ELSE Fail(pos)
       ELSE IF scope.network /\ word \in scope.diags
       THEN IF state \in {Word("ok"), Word("fail")}
            THEN Ok([op |-> "diag", name |-> word, pass |-> state = Word("ok")], pos + 2) ELSE Fail(pos)
       ELSE IF word \notin DOMAIN fields \/ (scope.network /\ word \notin netFields) THEN Fail(pos)
       ELSE IF fields[word] = "bool" THEN Ok([op |-> "bool", name |-> word], pos + 1)
       ELSE IF state.kind # "op" /\ state # Word("in") THEN Fail(pos + 1)
       ELSE IF fields[word] = "number" THEN ParseNumber(tokens, pos + 2, state.text)
       ELSE IF state.text \in {"=", "!=", "~", "in"} THEN ParseText(tokens, pos + 2, word, state.text)
       ELSE Fail(pos + 1)

RECURSIVE or(_, _, _)
RECURSIVE unary(_, _, _)

\* and() and or() are one loop: items of the tighter kind between their keyword.
RECURSIVE Items(_, _, _, _, _)
Items(tokens, first, depth, keyword, items) ==
    LET Item(pos) == IF keyword = "or" THEN Items(tokens, unary(tokens, pos, depth), depth, "and", <<>>)
                     ELSE unary(tokens, pos, depth)
        all == Append(items, first.node)
    IN IF ~first.ok THEN first
       ELSE IF peek(tokens, first.pos) = Word(keyword)
       THEN Items(tokens, Item(first.pos + 1), depth, keyword, all)
       ELSE Ok(IF Len(all) = 1 THEN all[1] ELSE [op |-> keyword, items |-> all], first.pos)

or(tokens, pos, depth) ==
    IF depth > maxConditionDepth THEN Fail(pos)
    ELSE Items(tokens, Items(tokens, unary(tokens, pos, depth), depth, "and", <<>>), depth, "or", <<>>)

unary(tokens, pos, depth) ==
    IF peek(tokens, pos) = Word("not")
    THEN LET item == unary(tokens, pos + 1, depth + 1)
         IN IF item.ok THEN Ok([op |-> "not", item |-> item.node], item.pos) ELSE item
    ELSE IF peek(tokens, pos) = Punct("(")
    THEN LET item == or(tokens, pos + 1, depth + 1)
         IN IF item.ok /\ peek(tokens, item.pos) = Punct(")") THEN Ok(item.node, item.pos + 1)
            ELSE Fail(item.pos)
    ELSE predicate(tokens, pos)

\* parseCond(): the whole text must be one condition.
parseCond(tokens) ==
    LET root == or(tokens, 1, 0)
    IN IF root.ok /\ root.pos > Len(tokens) THEN root.node ELSE None

---------------------------------------------------------------------------
(* What an author writes *)

ShowLeaf(n) ==
    CASE n.op = "bool" -> <<Word(n.name)>>
      [] n.op = "tag" -> <<Word("tag"), Punct("("), Word(n.name), Punct(")")>>
      [] n.op = "check" -> <<Word(IF n.pass THEN "passes" ELSE "fails"), Punct("("), Word(n.name), Punct(")")>>
      [] n.op = "diag" -> <<Word(n.name), Word(IF n.pass THEN "ok" ELSE "fail")>>
      [] n.op = "number" -> <<Word(n.name), Op(n.cmp), [kind |-> "number", text |-> "", value |-> n.value]>>
      [] n.op = "string" ->
            IF n.cmp # "in" THEN <<Word(n.name), Op(n.cmp), Word(n.values[1])>>
            ELSE <<Word(n.name), Word("in"), Punct("[")>>
                 \o [i \in 1 .. 2 * Len(n.values) - 1 |->
                        IF i % 2 = 1 THEN Word(n.values[(i + 1) \div 2]) ELSE Punct(",")]
                 \o <<Punct("]")>>

\* The text of a tree with the parentheses it needs and no others: "not" binds tighter than
\* "and", "and" tighter than "or".
Level(n) == IF n.op = "or" THEN 1 ELSE IF n.op = "and" THEN 2 ELSE 3
RECURSIVE Show(_, _)
Show(n, level) ==
    LET plain ==
            IF n.op = "not" THEN <<Word("not")>> \o Show(n.item, 3)
            ELSE IF n.op \in {"and", "or"}
            THEN FoldLeft(LAMBDA text, i : text \o (IF i = 1 THEN <<>> ELSE <<Word(n.op)>>)
                                                \o Show(n.items[i], Level(n)),
                          <<>>, [i \in DOMAIN n.items |-> i])
            ELSE ShowLeaf(n)
    IN IF Level(n) < level THEN <<Punct("(")>> \o plain \o <<Punct(")")>> ELSE plain

---------------------------------------------------------------------------
Init ==
    /\ scope \in Scopes
    /\ tree = None
    /\ cond = None
    /\ subject = [provider |-> "p", alive |-> TRUE, metered |-> Unknown, tags |-> {"t"}, measured |-> FALSE,
                  latency |-> 0, exit |-> "", checks |-> [c \in Checks |-> Unknown],
                  diags |-> [d \in Diags |-> Unknown]]
    /\ learned = 0

Compile(wanted) ==
    /\ tree = None
    /\ tree' = wanted
    /\ cond' = parseCond(Show(wanted, 0))
    /\ UNCHANGED <<scope, subject, learned>>

\* A probe, a check, a diagnosis or the host brings a fact; a check may also grow stale.
Learn(known) ==
    /\ tree # None
    /\ learned < MaxFacts
    /\ known # subject
    /\ subject' = known
    /\ learned' = learned + 1
    /\ UNCHANGED <<scope, tree, cond>>

Next ==
    \/ \E wanted \in Wanted : Compile(wanted)
    \/ \E c \in Checks, v \in {"yes", "no", "neither", Unknown} : Learn([subject EXCEPT !.checks[c] = v])
    \/ \E d \in Diags, v \in {"yes", "no"} : Learn([subject EXCEPT !.diags[d] = v])
    \/ \E v \in Countries : Learn([subject EXCEPT !.exit = v])
    \/ \E v \in {"yes", "no"} : Learn([subject EXCEPT !.metered = v])
    \/ \E v \in 1 .. 2 : Learn([subject EXCEPT !.measured = TRUE, !.latency = v])

Spec == Init /\ [][Next]_vars

---------------------------------------------------------------------------
\* Every way the facts nobody knows may turn out.
Completions ==
    {[subject EXCEPT !.checks = c, !.diags = d, !.exit = e, !.metered = m] :
        c \in {f \in [Checks -> {"yes", "no", "neither"}] :
                  \A k \in Checks : subject.checks[k] \in {Unknown, f[k]}},
        d \in {f \in [Diags -> {"yes", "no"}] : \A k \in Diags : subject.diags[k] \in {Unknown, f[k]}},
        e \in {v \in Countries : subject.exit \in {"", v}},
        m \in {v \in {"yes", "no"} : subject.metered \in {Unknown, v}}}

\* What a tree says in plain logic when everything is known.
RECURSIVE Holds(_, _)
Holds(n, s) ==
    CASE n.op = "and" -> \A i \in DOMAIN n.items : Holds(n.items[i], s)
      [] n.op = "or" -> \E i \in DOMAIN n.items : Holds(n.items[i], s)
      [] n.op = "not" -> ~Holds(n.item, s)
      [] n.op = "bool" -> IF n.name = "alive" THEN s.alive ELSE s.metered = "yes"
      [] n.op = "tag" -> n.name \in s.tags
      [] n.op = "check" -> s.checks[n.name] = (IF n.pass THEN "yes" ELSE "no")
      [] n.op = "diag" -> s.diags[n.name] = (IF n.pass THEN "yes" ELSE "no")
      [] n.op = "string" -> (stringOf(s, n.name) \in ToSet(n.values)) = (n.cmp # "!=")
      [] n.op = "number" -> s.measured /\ (IF n.cmp = "<" THEN s.latency < n.value ELSE s.latency >= n.value)

RECURSIVE Mentions(_)
Mentions(n) ==
    IF n.op \in {"and", "or"} THEN UNION {Mentions(n.items[i]) : i \in DOMAIN n.items}
    ELSE IF n.op = "not" THEN Mentions(n.item) ELSE {n}

Allowed(n) ==
    CASE n.op = "tag" -> ~scope.network /\ n.name \in scope.tags
      [] n.op = "check" -> ~scope.network /\ n.name \in scope.checks
      [] n.op = "diag" -> scope.network /\ n.name \in scope.diags
      [] n.op \in {"bool", "string", "number"} -> scope.network => n.name \in netFields

\* A condition means what its author wrote: it compiles exactly when all it names is in scope,
\* and a verdict given while facts are missing is the verdict every later fact confirms, so no
\* node is admitted or excluded on what is not known, and with everything known there is one.
VerdictsStand ==
    tree # None =>
        /\ (cond # None) = (\A n \in Mentions(tree) : Allowed(n))
        /\ cond # None =>
              LET verdict == Test(cond, subject)
              IN /\ verdict # Unknown =>
                       \A full \in Completions : Holds(tree, full) = (verdict = "yes")
                 /\ \A full \in Completions : Test(cond, full) = triOf(Holds(tree, full))
=============================================================================
