----------------------------- MODULE Multiplicity -----------------------------
(***************************************************************************)
(* False-discovery control over a family of tests                          *)
(* (statistics/multiplicity.py).  P-values and the significance level are  *)
(* counted in units of 1 / Unit.                                           *)
(***************************************************************************)
EXTENDS Integers, FiniteSets, Combinatorics

CONSTANT Unit

ASSUME UnitIsPositive == Unit \in Nat \ {0}

\* MultiplicityMethod.
Methods == {"bonferroni", "holm", "sidak", "fdr_bh", "fdr_by"}

\* A family gives every label a p-value.
Tests(family) == Cardinality(DOMAIN family)

AtMost(family, p) == Cardinality({l \in DOMAIN family : family[l] <= p})

Below(family, p) == Cardinality({l \in DOMAIN family : family[l] < p})

\* m! (1 + 1/2 + ... + 1/m)
harmonic[m \in Nat] == IF m = 0 THEN 0 ELSE m * harmonic[m - 1] + factorial[m - 1]

Power(base, exponent) ==
    LET power[k \in Nat] == IF k = 0 THEN 1 ELSE base * power[k - 1]
    IN  power[exponent]

\* The step-up procedures: the largest p-value that meets its bound takes
\* every smaller one with it.
StepUp(family, alpha, num, den) ==
    {l \in DOMAIN family : \E k \in DOMAIN family :
        /\ family[l] <= family[k]
        /\ family[k] * Tests(family) * num <= AtMost(family, family[k]) * alpha * den}

\* The step-down procedure: the smallest p-value that misses its bound takes
\* every larger one with it.
StepDown(family, alpha) ==
    {l \in DOMAIN family : \A k \in DOMAIN family :
        family[k] <= family[l]
            => family[k] * (Tests(family) - Below(family, family[k])) <= alpha}

\* multipletests of statsmodels, by the name of the method.
Rejected(method, family, alpha) ==
    CASE method = "fdr_bh" -> StepUp(family, alpha, 1, 1)
      [] method = "fdr_by" -> StepUp(family, alpha, harmonic[Tests(family)], factorial[Tests(family)])
      [] method = "holm" -> StepDown(family, alpha)
      [] method = "bonferroni" -> {l \in DOMAIN family : family[l] * Tests(family) <= alpha}
      [] method = "sidak" ->
            {l \in DOMAIN family :
                Power(Unit - family[l], Tests(family)) >= (Unit - alpha) * Power(Unit, Tests(family) - 1)}

\* Mutant of Adjust: a test survives if it is rejected corrected.
AdjustRejected(method, family, alpha) ==
    LET rejected == Rejected(method, family, alpha)
    IN  [tests |-> Tests(family), rejected |-> rejected,
         unadjusted |-> {l \in DOMAIN family : family[l] < alpha}, survivors |-> rejected]

\* adjust: a test survives if it is rejected corrected and uncorrected; the
\* two bounds differ on a p-value equal to alpha.
Adjust(method, family, alpha) ==
    LET rejected   == Rejected(method, family, alpha)
        unadjusted == {l \in DOMAIN family : family[l] < alpha}
    IN  [tests |-> Tests(family), rejected |-> rejected, unadjusted |-> unadjusted,
         survivors |-> rejected \cap unadjusted]

-----------------------------------------------------------------------------
(* build_family                                                            *)

\* The evaluations by name: of two with one name the later is used.
ByName(evaluations) ==
    [name \in {evaluations[k].name : k \in DOMAIN evaluations} |->
        LET k == CHOOSE k \in DOMAIN evaluations :
                    /\ evaluations[k].name = name
                    /\ \A j \in DOMAIN evaluations : evaluations[j].name = name => j <= k
        IN  evaluations[k]]

\* The candidates with a usable p-value; the others are excluded.
Tested(evaluations) ==
    {name \in DOMAIN ByName(evaluations) : ByName(evaluations)[name].available}

Excluded(evaluations) == DOMAIN ByName(evaluations) \ Tested(evaluations)

Family(evaluations) == [name \in Tested(evaluations) |-> ByName(evaluations)[name].p]
=============================================================================
