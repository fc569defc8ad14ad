----------------------------- MODULE PanelMeaning -----------------------------
(***************************************************************************)
(* What a panel's WHERE clause means to SQL Server, written from the       *)
(* meaning of SQL and not from the code, and what PanelSql may conclude    *)
(* from its text.  A query is written from a tree of predicates with no    *)
(* parenthesis it can do without.                                          *)
(***************************************************************************)
EXTENDS PanelSql

CONSTANT Folded  \* [text -> the text that stands for its case variants]

\* The tokens of a predicate and of a tree; "level" is what binds around it.
OperandTokens(operand) ==
    CASE operand.kind = "field" -> <<Token("identifier", operand.name)>>
      [] operand.kind = "variable" -> <<Token("variable", operand.name)>>
      [] operand.kind = "call" -> <<Token("variable", operand.name), Punct("("), Punct(")")>>
      [] OTHER -> <<Token("string", operand.name)>>

ListTokens(operands) ==
    LET Listed[k \in 0 .. Len(operands)] ==
            IF k = 0 THEN <<>>
            ELSE Listed[k - 1] \o (IF k = 1 THEN <<>> ELSE <<Punct(",")>>) \o OperandTokens(operands[k])
    IN <<Punct("(")>> \o Listed[Len(operands)] \o <<Punct(")")>>

Maybe(negated) == IF negated THEN <<Keyword("NOT")>> ELSE <<>>

LeafTokens(leaf) ==
    OperandTokens(leaf.field) \o
    (CASE leaf.type = "call" -> <<>>
       [] leaf.type = "is_null" -> <<Keyword("IS")>> \o Maybe(leaf.negated) \o <<Keyword("NULL")>>
       [] leaf.type = "in" -> Maybe(leaf.negated) \o <<Keyword("IN")>> \o ListTokens(leaf.operands)
       [] leaf.type = "like" ->
            Maybe(leaf.negated) \o <<Keyword("LIKE")>> \o OperandTokens(leaf.operands[1])
       [] leaf.type = "between" ->
            Maybe(leaf.negated) \o <<Keyword("BETWEEN")>> \o OperandTokens(leaf.operands[1])
                \o <<Keyword("AND")>> \o OperandTokens(leaf.operands[2])
       [] OTHER -> <<Token("operator", leaf.operator)>> \o OperandTokens(leaf.operands[1]))

Level(node) == CASE node.type = "or" -> 1 [] node.type = "and" -> 2 [] OTHER -> 3

RECURSIVE Written(_, _)
Written(node, level) ==
    LET bare == CASE node.type = "not" -> <<Keyword("NOT")>> \o Written(node.operand, 3)
                  [] node.type = "or" ->
                        Written(node.left, 1) \o <<Keyword("OR")>> \o Written(node.right, 2)
                  [] node.type = "and" ->
                        Written(node.left, 2) \o <<Keyword("AND")>> \o Written(node.right, 3)
                  [] OTHER -> LeafTokens(node)
    IN IF Level(node) < level THEN <<Punct("(")>> \o bare \o <<Punct(")")>> ELSE bare

\* A subquery with its own WHERE comes before the query's, and an ORDER BY after it.
Query(node) ==
    <<Keyword("SELECT"), Punct("("), Keyword("SELECT"), Keyword("WHERE"), Token("identifier", "node_name"),
      Token("operator", "!="), Token("string", "n2"), Punct(")"), Keyword("FROM"), Token("identifier", "alerts"),
      Keyword("WHERE")>> \o Written(node, 1) \o <<Keyword("ORDER"), Keyword("BY"), Token("identifier", "message")>>

-------------------------------------------------------------------------------
\* Three-valued truth; "guess" is the truth of what the text alone does not tell.
And3(p, q) == CASE "false" \in {p, q} -> "false" [] p = "true" /\ q = "true" -> "true" [] OTHER -> "unknown"
Not3(p) == CASE p = "true" -> "false" [] p = "false" -> "true" [] OTHER -> "unknown"
Or3(p, q) == Not3(And3(Not3(p), Not3(q)))

Standing(operand, variables) ==
    CASE operand.kind = "literal" -> {operand.name}
      [] operand.kind = "variable" /\ operand.name \in DOMAIN variables -> variables[operand.name].values
      [] OTHER -> {}

\* A query variable, an undefined one and another column have values only the database knows.
Opaque(operand, variables) ==
    \/ operand.kind \notin {"literal", "variable"}
    \/ operand.kind = "variable" /\ operand.name \notin DOMAIN variables
    \/ operand.kind = "variable" /\ operand.name \in DOMAIN variables
           /\ variables[operand.name].type = "query"

SelectsAll(operand, variables) ==
    operand.kind = "variable" /\ operand.name \in DOMAIN variables /\ variables[operand.name].all

Column(leaf) == RecordAttribute(leaf.field.name)

LeafTruth(leaf, row, variables, guess, collated) ==
    LET operands == {leaf.operands[k] : k \in DOMAIN leaf.operands}
        texts == UNION {Standing(o, variables) : o \in operands}
        meant == IF leaf.type = "like" THEN UNION {LikeMatches[p] : p \in texts} ELSE texts
        \* SQL Server's default collation takes case variants for one text.
        equal == IF collated THEN Folded[row[Column(leaf)]] \in {Folded[v] : v \in meant}
                 ELSE row[Column(leaf)] \in meant
        negative == leaf.negated \/ leaf.operator \in {"!=", "<>"}
    IN CASE leaf.field.kind # "field" \/ (leaf.field.kind = "field" /\ Column(leaf) \notin DOMAIN row) -> guess
         [] leaf.type = "between" \/ leaf.operator = "<" -> guess
         [] leaf.type = "is_null" -> IF (row[Column(leaf)] = Null) = leaf.negated THEN "false" ELSE "true"
         [] row[Column(leaf)] = Null -> "unknown"
         [] \E o \in operands : Opaque(o, variables) -> guess
         [] ~negative /\ \E o \in operands : SelectsAll(o, variables) -> "true"
         [] OTHER -> IF equal = negative THEN "false" ELSE "true"

RECURSIVE Truth(_, _, _, _, _)
Truth(node, row, variables, guess, collated) ==
    CASE node.type = "not" -> Not3(Truth(node.operand, row, variables, guess, collated))
      [] node.type = "and" -> And3(Truth(node.left, row, variables, guess, collated),
                                   Truth(node.right, row, variables, guess, collated))
      [] node.type = "or" -> Or3(Truth(node.left, row, variables, guess, collated),
                                 Truth(node.right, row, variables, guess, collated))
      [] OTHER -> LeafTruth(node, row, variables, guess, collated)

\* The panel shows the row, whatever the text does not tell.
MayShow(node, row, variables, collated) ==
    \E guess \in {"true", "false", "unknown"} : Truth(node, row, variables, guess, collated) = "true"

-------------------------------------------------------------------------------
\* A leaf that excludes a row is right under either collation; one that hides a
\* row is right when the texts of panel and row agree in case.
ConclusionsOf(leaves, node, rows, variables) ==
    \A k \in DOMAIN leaves, row \in rows :
        /\ leaves[k].kind = "suppression" /\ ExcludesRow(leaves[k], row) =>
              \A collated \in BOOLEAN : ~MayShow(node, row, variables, collated)
        /\ leaves[k].kind = "identity" /\ HidesRow(leaves[k], row) =>
              ~MayShow(node, row, variables, FALSE)

ConclusionsHold(node, rows, variables) ==
    ConclusionsOf(InterpretPanel(Query(node), variables).leaves, node, rows, variables)

RECURSIVE LeavesIn(_)
LeavesIn(node) ==
    CASE node.type = "not" -> LeavesIn(node.operand)
      [] node.type \in {"and", "or"} -> LeavesIn(node.left) \o LeavesIn(node.right)
      [] OTHER -> <<node>>

\* Each marked clause is, token for token, the suppression predicate it stands for.
MarksAreClauses(node) ==
    LET Written5(leaf) == IsSuppressionLeaf([leaf |-> leaf])
        Match(text, marks, clauses) ==
            /\ Len(marks) = Len(clauses)
            /\ \A k \in DOMAIN marks :
                  SubSeq(text, marks[k].span[1], marks[k].span[2]) = LeafTokens(clauses[k])
    IN Match(Query(node), HighlightPanelSql(Query(node)), SelectSeq(LeavesIn(node), Written5))
===============================================================================
