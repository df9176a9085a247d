------------------------------ MODULE FairShares ------------------------------
(***************************************************************************)
(* compute_allocation of scheduler/fair.rs: how many of the scheduler's    *)
(* slots each group gets in one round of fair dispatch.                    *)
(*                                                                         *)
(* A share is a fraction of slots; the code has it as a float, here it is  *)
(* a whole number of parts, W of which (the total weight) make a slot.     *)
(* The code visits the groups in the order of a hash map: "order" is that  *)
(* sequence, and the callers of these operators leave it open.             *)
(***************************************************************************)
EXTENDS Integers, SequencesExt

\* A limit that was never set.
Unlimited == -1

\* How often surplus slots are handed on, at most.  A round fills the group it
\* favours or leaves no surplus: no more rounds than groups do anything.
Rounds == 10

Least(a, b) == IF a < b THEN a ELSE b
Less(a, b) == IF a > b THEN a - b ELSE 0
Total(f, S) == FoldSet(LAMBDA x, sum : sum + f[x], 0, S)

\* GroupLimits::limit_for: the override, or the default unless that is zero.
limit_for(overrides, default, g) ==
    CASE overrides[g] # Unlimited -> overrides[g]
      [] overrides[g] = Unlimited /\ default > 0 -> default
      [] OTHER -> Unlimited

\* GroupWeights::weight_for.
weight_for(overrides, default, g) ==
    IF overrides[g] = Unlimited THEN default ELSE overrides[g]

\* Step 1: every group is granted its minimum, as far as it has tasks and
\* there are slots; its concurrency limit is not looked at.
Minimums(capacity, order, demand, minimum) ==
    FoldLeft(LAMBDA acc, g :
                 LET grant == Least(Least(minimum[g], demand[g]), acc.left)
                 IN  [grant |-> [acc.grant EXCEPT ![g] = grant], left |-> acc.left - grant],
             [grant |-> [g \in DOMAIN demand |-> 0], left |-> capacity], order)

\* What a group can use beyond its minimum: its tasks, up to its limit.
Needs(demand, grant, limit) ==
    [g \in DOMAIN demand |->
        LET more == Less(demand[g], grant[g])
        IN  IF limit[g] = Unlimited THEN more ELSE Least(more, Less(limit[g], grant[g]))]

\* Step 2: the rest in proportion to the weights, no more than needed.
Shares(left, weight, W, needs) ==
    [g \in DOMAIN needs |-> Least(left * weight[g], needs[g] * W)]

\* One round of handing on: the first group that can use them takes the slots
\* that are left when every share is rounded down.
HandOn(left, W, order, needs, share) ==
    LET surplus == Less(left, Total([g \in DOMAIN share |-> share[g] \div W], ToSet(order)))
        open == {i \in 1..Len(order) : share[order[i]] \div W < needs[order[i]]}
        g == order[Min(open)]
        extra == Least(surplus, needs[g] - share[g] \div W)
    IN  IF surplus = 0 \/ open = {} THEN share
        ELSE [share EXCEPT ![g] = Least(share[g] + extra * W, needs[g] * W)]

\* What is left then goes, a slot each, to the largest fractions; equal
\* fractions by the group's name, which is its place in "names".
Rounded(left, W, names, needs, share) ==
    LET whole == [g \in DOMAIN share |-> share[g] \div W]
        S == ToSet(names)
        place(g) == CHOOSE i \in 1..Len(names) : names[i] = g
        before(h, g) == \/ share[h] % W > share[g] % W
                        \/ share[h] % W = share[g] % W /\ place(h) < place(g)
        takers == {g \in S : whole[g] < needs[g]}
        leftover == Less(left, Total(whole, S))
    IN  [g \in DOMAIN share |->
            whole[g] + IF g \in takers /\ Cardinality({h \in takers : before(h, g)}) < leftover
                       THEN 1 ELSE 0]

\* x, evaluated once and for all: a fold passes its argument on unevaluated.
Value(x) == CHOOSE v \in {x} : TRUE

\* The allocation: slots of each group of "order", none for the others.
compute_allocation(capacity, order, names, demand, minimum, weight, limit) ==
    LET min == Value(Minimums(capacity, order, demand, minimum))
        S == ToSet(order)
        W == Total(weight, S)
        needs == Value(Needs(demand, min.grant, limit))
        share == FoldLeft(LAMBDA s, i : Value(HandOn(min.left, W, order, needs, s)),
                          Shares(min.left, weight, W, needs), [i \in 1..Least(Rounds, Len(order)) |-> i])
        more == Rounded(min.left, W, SelectSeq(names, LAMBDA g : g \in S), needs, share)
    IN  [g \in DOMAIN demand |->
            CASE g \notin S              -> 0
              [] g \in S /\ (W = 0 \/ min.left = 0) -> min.grant[g]
              [] OTHER                   -> min.grant[g] + more[g]]
=============================================================================
