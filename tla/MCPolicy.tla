------------------------------ MODULE MCPolicy ------------------------------
(* Small instances of Policy: two keys of one team, and single-key ones.   *)
EXTENDS Policy, TLC

Limits(conc, rpm, tpm, budget) ==
    [Unlimited EXCEPT !.maxConcurrency = conc, !.rpm = rpm, !.tpm = tpm,
                      !.budget = budget]

InTeam(vk, t, teamBudget, org, balance, share) ==
    [vk EXCEPT !.team = t, !.teamBudget = teamBudget, !.orgBudget = org,
               !.balance = balance, !.share = share]

\* A cap and an RPM limit that adoption raises and lowers, with a TPM limit
\* behind them.
TrafficSnapshots ==
    {[k \in Keys |-> Limits(c, c, 1, 0)] : c \in {1, 2}}

\* The first key has a daily budget and its share of the team's budget, the
\* second a monthly budget; both draw on one team, which its organization or
\* its prepaid balance caps.
Daily == CHOOSE k \in Keys : TRUE
BudgetSnapshots ==
    {[k \in Keys |->
        [InTeam(Limits(0, 0, 0, IF k = Daily THEN 2 ELSE 3), t, 4, cap[1], cap[2],
                IF k = Daily THEN 1 ELSE 0) EXCEPT !.month = (k # Daily)]] :
       t \in Teams, cap \in {<<3, 0>>, <<0, 2>>}}

\* The instances meet the premises of the theorems about caps and budgets.
ASSUME StableAssumption == CapsStable /\ BudgetsStable

Symmetry == Permutations(Requests)
=============================================================================
