----------------------------- MODULE FormulaParser -----------------------------
(***************************************************************************)
(* The parser of relationship formulas (FormulaParser in                   *)
(* relationships/formula.py), which gives Formulas its constants.          *)
(*                                                                         *)
(* A formula is a sequence of tokens; the tokens of a quoted name and of   *)
(* an operator are different strings.  The parser builds the nodes of the  *)
(* expression one after another, operands first.                           *)
(***************************************************************************)
EXTENDS Formulas

Operators == Operations \cup {"(", ")"}

\* The nodes built so far and the position of the token after what was parsed:
\* the last of the nodes is the root of that.
Parsed(nodes, next) == [nodes |-> nodes, next |-> next]

Failed == Parsed(<<>>, 0)

TokenAt(tokens, position) == IF position <= Len(tokens) THEN tokens[position] ELSE "end"

RECURSIVE ParseExpression(_, _), ParseTerm(_, _), ParseChain(_, _, _)

\* _parse_factor: a symbol, or an expression in parentheses.
ParseFactor(tokens, before) ==
    LET token == TokenAt(tokens, before.next)
        inner == ParseExpression(tokens, Parsed(before.nodes, before.next + 1))
    IN  IF token = "(" THEN
            IF inner # Failed /\ TokenAt(tokens, inner.next) = ")"
            THEN Parsed(inner.nodes, inner.next + 1) ELSE Failed
        ELSE IF token \in Operators \cup {"end"} THEN Failed
        ELSE Parsed(Append(before.nodes, Symbol(token)), before.next + 1)

\* The loop of _parse_term and, with terms for operands, of _parse_expression:
\* operations of one level associate to the left.
ParseTerm(tokens, before) == ParseChain(tokens, ParseFactor(tokens, before), {"*", "/"})

ParseExpression(tokens, before) ==
    ParseChain(tokens, ParseTerm(tokens, before), {"+", "-"})

ParseChain(tokens, left, level) ==
    IF left = Failed \/ TokenAt(tokens, left.next) \notin level THEN left
    ELSE LET after == Parsed(left.nodes, left.next + 1)
             right == IF "*" \in level THEN ParseFactor(tokens, after) ELSE ParseTerm(tokens, after)
             node  == Node(tokens[left.next], Len(left.nodes), Len(right.nodes))
         IN  IF right = Failed THEN Failed
             ELSE ParseChain(tokens, Parsed(Append(right.nodes, node), right.next), level)

\* parse: the whole formula.
Parse(tokens) == ParseExpression(tokens, Parsed(<<>>, 1))

Unparsable(tokens) == Parse(tokens).next # Len(tokens) + 1

ExpressionOf(tokens) == Parse(tokens).nodes
=============================================================================
