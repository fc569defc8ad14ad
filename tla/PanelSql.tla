------------------------------- MODULE PanelSql -------------------------------
(***************************************************************************)
(* How a panel's SQL becomes the leaves PanelLeaves measures: the parser   *)
(* of its WHERE clause (src/suppression/parser.py), the classes of the     *)
(* fields, the template variables, the reading of one predicate            *)
(* (src/suppression/evaluate.py), and the marking of the clauses on the    *)
(* operators' page (src/admin/summary.py).                                 *)
(*                                                                         *)
(* The query is the lexer's sequence of tokens [type, value].  A LIKE      *)
(* pattern is known by the texts it matches.                               *)
(***************************************************************************)
EXTENDS PanelLeaves

CONSTANT LikeMatches  \* [pattern -> the texts it matches]

NoNode == [type |-> "none"]
NoParse == [node |-> NoNode, next |-> 0]
Parsed(node, next) == [node |-> node, next |-> next]

Token(type, value) == [type |-> type, value |-> value]
Keyword(word) == Token("keyword", word)
Punct(sign) == Token("punct", sign)
Eof == Token("eof", "")
Peek(ts, i) == IF i \in DOMAIN ts THEN ts[i] ELSE Eof

-------------------------------------------------------------------------------
\* Operands.  The arguments of a call are read and dropped: no predicate uses them.
Operand(kind, name, macro) == [kind |-> kind, name |-> name, macro |-> macro]

CallOf(t, args) ==
    IF args.next = 0 THEN NoParse
    ELSE Parsed(Operand("call", t.value, t.type = "variable"), args.next)

RECURSIVE Arguments(_, _, _), MoreArguments(_, _, _), ReadOperand(_, _)

\* The operands up to the closing parenthesis, "i" being after the opening one or a comma.
Arguments(ts, i, read) ==
    IF read = <<>> /\ Peek(ts, i) = Punct(")") THEN Parsed(<<>>, i + 1)
    ELSE MoreArguments(ts, ReadOperand(ts, i), read)

MoreArguments(ts, one, read) ==
    CASE one.next # 0 /\ Peek(ts, one.next) = Punct(",") ->
            Arguments(ts, one.next + 1, Append(read, one.node))
      [] one.next # 0 /\ Peek(ts, one.next) = Punct(")") ->
            Parsed(Append(read, one.node), one.next + 1)
      [] OTHER -> NoParse

ReadOperand(ts, i) ==
    LET t == Peek(ts, i)
        called == t.type \in {"identifier", "variable"} /\ Peek(ts, i + 1) = Punct("(")
    IN CASE called -> CallOf(t, Arguments(ts, i + 2, <<>>))
         [] ~called /\ t.type = "identifier" -> Parsed(Operand("field", t.value, FALSE), i + 1)
         [] ~called /\ t.type = "variable" -> Parsed(Operand("variable", t.value, FALSE), i + 1)
         [] t.type \in {"string", "number"} \/ t \in {Keyword(w) : w \in {"NULL", "TRUE", "FALSE"}} ->
                Parsed(Operand("literal", t.value, FALSE), i + 1)
         [] OTHER -> NoParse

-------------------------------------------------------------------------------
\* Predicates, NOT before AND before OR.
Leaf5(type, field, operator, operands, negated) ==
    [type |-> type, field |-> field, operator |-> operator, operands |-> operands,
     negated |-> negated]

Terminators == {"GROUP", "ORDER", "HAVING", "LIMIT", "OFFSET", "UNION"}

AtExpressionEnd(t) ==
    t \in {Eof, Punct(")"), Punct(";")} \/ (t.type = "keyword" /\ t.value \in Terminators)

\* The leaf of the operands "read" ends with.
LeafOf(type, bare, operator, read, negated) ==
    IF read.next = 0 THEN NoParse
    ELSE Parsed(Leaf5(type, bare, operator, read.node, negated), read.next)

Single(read) == [read EXCEPT !.node = <<@>>]
BothEnds(low, high) ==
    IF high.next = 0 THEN NoParse ELSE Parsed(<<low.node, high.node>>, high.next)
Ends(ts, low) ==
    IF low.next # 0 /\ Peek(ts, low.next) = Keyword("AND")
    THEN BothEnds(low, ReadOperand(ts, low.next + 1)) ELSE NoParse

\* After the field and an optional NOT, at "i"; "bare" is the field's operand.
ReadTail(ts, i, bare, negated) ==
    LET t == Peek(ts, i)
    IN CASE t = Keyword("IN") /\ Peek(ts, i + 1) = Punct("(") ->
                LeafOf("in", bare, "IN", Arguments(ts, i + 2, <<>>), negated)
         [] t = Keyword("LIKE") ->
                LeafOf("like", bare, "LIKE", Single(ReadOperand(ts, i + 1)), negated)
         [] t = Keyword("BETWEEN") ->
                LeafOf("between", bare, "BETWEEN", Ends(ts, ReadOperand(ts, i + 1)), negated)
         [] t.type = "operator" /\ ~negated ->
                LeafOf("comparison", bare, t.value, Single(ReadOperand(ts, i + 1)), FALSE)
         [] OTHER -> NoParse

PredicateOf(ts, left) ==
    LET t == Peek(ts, left.next)
        negated == t = Keyword("NOT")
                   /\ Peek(ts, left.next + 1) \in {Keyword(w) : w \in {"IN", "LIKE", "BETWEEN"}}
        isNot == Peek(ts, left.next + 1) = Keyword("NOT")
        null == left.next + (IF isNot THEN 2 ELSE 1)
    IN CASE left.next = 0 -> NoParse
         [] left.node.kind = "call" /\ (AtExpressionEnd(t) \/ t \in {Keyword("AND"), Keyword("OR")}) ->
                Parsed(Leaf5("call", left.node, "call", <<>>, FALSE), left.next)
         [] t = Keyword("IS") ->
                IF Peek(ts, null) = Keyword("NULL")
                THEN Parsed(Leaf5("is_null", left.node, "IS", <<>>, isNot), null + 1) ELSE NoParse
         [] OTHER -> ReadTail(ts, IF negated THEN left.next + 1 ELSE left.next, left.node, negated)

ReadPredicate(ts, i) == PredicateOf(ts, ReadOperand(ts, i))

RECURSIVE ReadOr(_, _), ReadAnd(_, _), ReadNot(_, _), MoreOr(_, _), MoreAnd(_, _)

Binary(type, left, right) == [type |-> type, left |-> left, right |-> right]
Joined(type, left, right) ==
    IF right.next = 0 THEN NoParse ELSE Parsed(Binary(type, left.node, right.node), right.next)

MoreOr(ts, left) ==
    IF left.next # 0 /\ Peek(ts, left.next) = Keyword("OR")
    THEN MoreOr(ts, Joined("or", left, ReadAnd(ts, left.next + 1))) ELSE left

MoreAnd(ts, left) ==
    IF left.next # 0 /\ Peek(ts, left.next) = Keyword("AND")
    THEN MoreAnd(ts, Joined("and", left, ReadNot(ts, left.next + 1))) ELSE left

ReadOr(ts, i) == MoreOr(ts, ReadAnd(ts, i))
ReadAnd(ts, i) == MoreAnd(ts, ReadNot(ts, i))

Negated(inner) ==
    IF inner.next = 0 THEN NoParse ELSE Parsed([type |-> "not", operand |-> inner.node], inner.next)
Closed(ts, inner) ==
    IF inner.next # 0 /\ Peek(ts, inner.next) = Punct(")")
    THEN Parsed(inner.node, inner.next + 1) ELSE NoParse

ReadNot(ts, i) ==
    CASE Peek(ts, i) = Keyword("NOT") -> Negated(ReadNot(ts, i + 1))
      [] Peek(ts, i) = Punct("(") -> Closed(ts, ReadOr(ts, i + 1))
      [] OTHER -> ReadPredicate(ts, i)

\* The WHERE outside every parenthesis, or 0: a subquery's is not the query's.
Depth(ts, i) ==
    Cardinality({k \in 1 .. i : ts[k] = Punct("(")}) - Cardinality({k \in 1 .. i : ts[k] = Punct(")")})

WhereIndex(ts) ==
    LET tops == {i \in DOMAIN ts : ts[i] = Keyword("WHERE") /\ Depth(ts, i) = 0}
    IN IF tops = {} THEN 0 ELSE CHOOSE i \in tops : \A j \in tops : i <= j

\* A query with no WHERE clause is valid and suppresses nothing: its node is NoNode, parsed at 1.
WholeClause(ts, read) ==
    IF read.next # 0 /\ AtExpressionEnd(Peek(ts, read.next)) THEN read ELSE NoParse

ParsePanelSql(ts) ==
    IF WhereIndex(ts) = 0 THEN Parsed(NoNode, 1)
    ELSE WholeClause(ts, ReadOr(ts, WhereIndex(ts) + 1))

\* A mutant: what a NOT wraps is lifted out as it stands.
RECURSIVE LiftedOut(_, _)
LiftedOut(node, nested) ==
    CASE node.type = "none" -> <<>>
      [] node.type = "not" -> LiftedOut(node.operand, nested)
      [] node.type \in {"and", "or"} ->
            LET below == nested \/ node.type = "or"
            IN LiftedOut(node.left, below) \o LiftedOut(node.right, below)
      [] OTHER -> <<[leaf |-> node, nested |-> nested]>>

\* Every leaf, with whether it sits inside an OR or a NOT.
RECURSIVE CollectLeaves(_, _)
CollectLeaves(node, nested) ==
    CASE node.type = "none" -> <<>>
      [] node.type = "not" -> CollectLeaves(node.operand, TRUE)
      [] node.type \in {"and", "or"} ->
            LET below == nested \/ node.type = "or"
            IN CollectLeaves(node.left, below) \o CollectLeaves(node.right, below)
      [] OTHER -> <<[leaf |-> node, nested |-> nested]>>

-------------------------------------------------------------------------------
\* Fields.  "operator" is a classification for suppression and an identity for unseen rows.
InstanceFields ==
    {"node_name", "message", "object", "component", "key_field", "alert_rule_url", "application"}
IdentityFields == {"operator", "application", "node_name", "object", "component"}

\* Of an instance or identity field: one column of the record has two names.
RecordAttribute(name) == IF name = "object" THEN "component" ELSE name

\* The definition of a variable is [type, values, all]; a query variable is never executed.
Unresolved == [resolved |-> FALSE, values |-> {}, all |-> FALSE]

ResolveVariable(name, variables) ==
    IF name \notin DOMAIN variables \/ variables[name].type = "query" THEN Unresolved
    ELSE [resolved |-> TRUE, values |-> variables[name].values,
          all |-> variables[name].type = "custom" /\ variables[name].all]

ResolveOperand(operand, variables) ==
    CASE operand.kind = "literal" -> [resolved |-> TRUE, values |-> {operand.name}, all |-> FALSE]
      [] operand.kind = "variable" -> ResolveVariable(operand.name, variables)
      [] OTHER -> Unresolved

-------------------------------------------------------------------------------
\* One predicate.
IsPositive(leaf) ==
    \/ leaf.type = "comparison" /\ leaf.operator = "="
    \/ leaf.type \in {"in", "like"} /\ ~leaf.negated

IsNegation(leaf) ==
    \/ leaf.type = "comparison" /\ leaf.operator \in {"!=", "<>"}
    \/ leaf.type \in {"in", "like"} /\ leaf.negated

\* What the resolved values stand for: with LIKE, the texts the patterns match.
TextsOf(leaf, values) ==
    IF leaf.type = "like" THEN UNION {LikeMatches[p] : p \in values} ELSE values

Ignored == [kind |-> "ignored", attribute |-> "", values |-> {}]
Outcome(kind, attribute, values) == [kind |-> kind, attribute |-> attribute, values |-> values]

Resolutions(leaf, variables) ==
    [k \in DOMAIN leaf.operands |-> ResolveOperand(leaf.operands[k], variables)]

\* The first operand that cannot be read, or that selects everything, decides.
FirstStop(resolutions) ==
    LET stops == {k \in DOMAIN resolutions : ~resolutions[k].resolved \/ resolutions[k].all}
    IN CHOOSE k \in stops \cup {0} : \A j \in stops : k # 0 /\ k <= j

ValuesOf(resolutions) == UNION {resolutions[k].values : k \in DOMAIN resolutions}

IdentityLeaf(leaf, nested, variables) ==
    LET read == Resolutions(leaf, variables)
        stop == FirstStop(read)
    IN CASE nested -> Outcome("identity_unmeasured", "", {})
         [] ~nested /\ stop # 0 ->
                IF read[stop].resolved THEN Ignored ELSE Outcome("identity_unmeasured", "", {})
         [] ~nested /\ stop = 0 /\ ValuesOf(read) = {} -> Outcome("identity_unmeasured", "", {})
         [] OTHER -> Outcome("identity", RecordAttribute(leaf.field.name),
                             TextsOf(leaf, ValuesOf(read)))

SuppressionLeaf(leaf, nested, variables) ==
    LET read == Resolutions(leaf, variables)
    IN IF nested \/ ValuesOf(read) = {} \/ \E k \in DOMAIN read : ~read[k].resolved
       THEN Outcome("unmeasured", "", {})
       ELSE Outcome("suppression", RecordAttribute(leaf.field.name), TextsOf(leaf, ValuesOf(read)))

InterpretLeaf(leaf, nested, variables) ==
    CASE leaf.type = "call" \/ leaf.field.kind # "field" -> Ignored
      [] leaf.field.kind = "field" /\ leaf.field.name \in IdentityFields /\ IsPositive(leaf) ->
            IdentityLeaf(leaf, nested, variables)
      [] leaf.field.kind = "field" /\ leaf.field.name \in InstanceFields /\ IsNegation(leaf) ->
            SuppressionLeaf(leaf, nested, variables)
      [] OTHER -> Ignored

\* The panel as PanelLeaves reads it.
InterpretLeaves(found, variables) ==
    [k \in DOMAIN found |-> InterpretLeaf(found[k].leaf, found[k].nested, variables)]

Interpreted(read, variables) ==
    [parsed |-> read.next # 0,
     leaves |-> InterpretLeaves(CollectLeaves(read.node, FALSE), variables)]

InterpretPanel(ts, variables) == Interpreted(ParsePanelSql(ts), variables)

-------------------------------------------------------------------------------
\* The clauses the operators' page marks, found a second time in the tokens.
MatchingParens(ts, i) ==
    {k \in i .. Len(ts) : ts[k] = Punct(")") /\ Depth(ts, k) = Depth(ts, i) - 1}

CloseParen(ts, i) ==
    IF MatchingParens(ts, i) = {} THEN Len(ts) + 1
    ELSE CHOOSE k \in MatchingParens(ts, i) : \A j \in MatchingParens(ts, i) : k <= j

OperandEnd(ts, i) == IF Peek(ts, i + 1) = Punct("(") THEN CloseParen(ts, i + 1) ELSE i

\* The last token of the negation whose field is at "i", or 0.
NegationEnd(ts, i) ==
    LET after == Peek(ts, i + 1)
        word == Peek(ts, i + 2)
        named == ts[i].type = "identifier" /\ ts[i].value \in InstanceFields
    IN CASE named /\ after \in {Token("operator", "!="), Token("operator", "<>")} ->
                OperandEnd(ts, i + 2)
         [] named /\ after = Keyword("NOT") /\ word = Keyword("IN") -> CloseParen(ts, i + 3)
         [] named /\ after = Keyword("NOT") /\ word = Keyword("LIKE") -> OperandEnd(ts, i + 3)
         [] OTHER -> 0

RECURSIVE SpansFrom(_, _)
SpansFrom(ts, i) ==
    CASE i > Len(ts) -> <<>>
      [] i <= Len(ts) /\ NegationEnd(ts, i) = 0 -> SpansFrom(ts, i + 1)
      [] OTHER -> <<<<i, NegationEnd(ts, i)>>>> \o SpansFrom(ts, NegationEnd(ts, i) + 1)

NegationSpans(ts) == IF WhereIndex(ts) = 0 THEN <<>> ELSE SpansFrom(ts, WhereIndex(ts) + 1)

IsSuppressionLeaf(found) ==
    found.leaf.field.kind = "field" /\ found.leaf.field.name \in InstanceFields /\ IsNegation(found.leaf)

\* The marks, [span, nested], or none when the two readings of the SQL disagree.
MarksOf(clauses, spans) ==
    IF Len(spans) # Len(clauses) THEN <<>>
    ELSE [k \in DOMAIN spans |-> [span |-> spans[k], nested |-> clauses[k].nested]]

MarkedClauses(ts, read) ==
    IF read.next = 0 THEN <<>>
    ELSE MarksOf(SelectSeq(CollectLeaves(read.node, FALSE), IsSuppressionLeaf), NegationSpans(ts))

HighlightPanelSql(ts) == MarkedClauses(ts, ParsePanelSql(ts))
===============================================================================
