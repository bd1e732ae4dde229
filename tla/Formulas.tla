------------------------------- MODULE Formulas -------------------------------
(***************************************************************************)
(* Relationship formulas (relationships/formula.py): the symbols one       *)
(* names, its value at some prices (discovery/evaluator.py), and the       *)
(* identity of the hypothesis a candidate asserts                          *)
(* (discovery/deduplicate.py).  The parser is module FormulaParser.        *)
(*                                                                         *)
(* An expression is the sequence of the nodes of its tree, each after its  *)
(* operands and the root at the end: a symbol, or an operation on the      *)
(* nodes at two earlier positions.                                         *)
(***************************************************************************)
EXTENDS Integers, SequencesExt

CONSTANTS
    Expression(_),    \* the expression the parser makes of a formula
    Refused(_)        \* whether the parser refuses a formula

Operations == {"+", "-", "*", "/"}

Symbol(name) == [op |-> "symbol", name |-> name]

Node(op, left, right) == [op |-> op, left |-> left, right |-> right]

\* What a parser makes of a formula over these names.
IsExpression(e, names) ==
    /\ e \in Seq(Range(e)) /\ e # <<>>
    /\ \A k \in DOMAIN e :
          \/ \E name \in names : e[k] = Symbol(name)
          \/ \E op \in Operations, i, j \in 1 .. k - 1 : e[k] = Node(op, i, j)

\* dependencies.
SymbolsOfExpression(e) == {e[k].name : k \in {j \in DOMAIN e : e[j].op = "symbol"}}

-----------------------------------------------------------------------------
(* Identity                                                                *)

\* Of a node, given the exponents in its operands.
ExponentInNode(node, name, l, r) ==
    IF node.op = "symbol" THEN IF node.name = name THEN 1 ELSE 0
    ELSE IF node.op = "*" THEN l + r ELSE l - r

\* Mutant of Exponent: a divisor multiplies.
ExponentOfAProduct(e, name) ==
    LET exponent[k \in DOMAIN e] ==
            IF e[k].op = "symbol" THEN ExponentInNode(e[k], name, 0, 0)
            ELSE exponent[e[k].left] + exponent[e[k].right]
    IN  exponent[Len(e)]

\* monomial_exponents: the exponent of one symbol.
Exponent(e, name) ==
    LET exponent[k \in DOMAIN e] ==
            ExponentInNode(e[k], name, exponent[e[k].left], exponent[e[k].right])
    IN  exponent[Len(e)]

IsMonomialRatio(e) == \A k \in DOMAIN e : e[k].op \in {"symbol", "*", "/"}

\* semantic_key: the exponents that are not zero, or the tree as it is written.
SemanticKey(e) ==
    IF IsMonomialRatio(e)
    THEN [exponents |-> {<<name, Exponent(e, name)>> :
                            name \in {n \in SymbolsOfExpression(e) : Exponent(e, n) # 0}}]
    ELSE [written |-> e]

\* canonical_formula and _flatten of a node, given those of its operands: its
\* canonical form and its operands in a chain of products and in one of sums.
\* The operands of a chain are a bag.
FormOfNode(node, l, r) ==
    LET factors == l.factors (+) r.factors
        terms   == l.terms (+) r.terms
        Whole(c) == [canonical |-> c, factors |-> SetToBag({c}), terms |-> SetToBag({c})]
    IN  CASE node.op = "symbol" -> Whole(node)
          [] node.op = "*" -> [Whole([op |-> "*", operands |-> factors]) EXCEPT !.factors = factors]
          [] node.op = "+" -> [Whole([op |-> "+", operands |-> terms]) EXCEPT !.terms = terms]
          [] OTHER -> Whole(Node(node.op, l.canonical, r.canonical))

Canonical(e) ==
    LET form[k \in DOMAIN e] == FormOfNode(e[k], form[e[k].left], form[e[k].right])
    IN  form[Len(e)].canonical

-----------------------------------------------------------------------------
(* Values                                                                  *)

\* A value is a fraction [num, den]: what pandas computes in floating point on a
\* row.  A division by zero has no value, and what is computed from no value has none.
None == [num |-> 0, den |-> 0]

Plus(f, g) == [num |-> f.num * g.den + g.num * f.den, den |-> f.den * g.den]

Minus(f, g) == [num |-> f.num * g.den - g.num * f.den, den |-> f.den * g.den]

Times(f, g) == [num |-> f.num * g.num, den |-> f.den * g.den]

Over(f, g) == IF g.num = 0 THEN None ELSE [num |-> f.num * g.den, den |-> f.den * g.num]

Equal(f, g) == f.num * g.den = g.num * f.den

\* _evaluate_expression of a node, given the values of its operands.
ValueOfNode(node, price, l, r) ==
    CASE node.op = "symbol" -> [num |-> price[node.name], den |-> 1]
      [] node.op = "+" -> Plus(l, r)
      [] node.op = "-" -> Minus(l, r)
      [] node.op = "*" -> Times(l, r)
      [] node.op = "/" -> Over(l, r)

ValueAt(e, price) ==
    LET value[k \in DOMAIN e] ==
            ValueOfNode(e[k], price, value[e[k].left], value[e[k].right])
    IN  value[Len(e)]

-----------------------------------------------------------------------------
(* What the other modules take of a formula                                *)

SymbolsIn(formula) == SymbolsOfExpression(Expression(formula))

ValueOf(formula, price) == ValueAt(Expression(formula), price)

\* CandidateFingerprint.of, and the two lookups of deduplicate.
SameHypothesis(c, d) ==
    LET e == Expression(c.formula)  f == Expression(d.formula) IN
    /\ c.target = d.target
    /\ SemanticKey(e) = SemanticKey(f) \/ Canonical(e) = Canonical(f)
=============================================================================
