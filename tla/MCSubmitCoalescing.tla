------------------------- MODULE MCSubmitCoalescing -------------------------
(***************************************************************************)
(* Three concurrent submit calls on one key, one with each duplicate       *)
(* strategy, and a batch of three in chunks of two whose first and last    *)
(* submissions share a key; the dependencies of one of each are refused.   *)
(***************************************************************************)
EXTENDS SubmitCoalescing

s1 == 1
s2 == 2
s3 == 3
b1 == 11
b2 == 12
b3 == 13

MCSingles == {s1, s2, s3}
MCBatch == <<b1, b2, b3>>
MCKeyOf == [r \in Requests |-> IF r \in {b1, b3} THEN "k" ELSE "j"]
MCPriorityOf == [r \in Requests |-> IF r = b2 THEN 1 ELSE 2]
MCStrategyOf ==
    [r \in Requests |-> CASE r = s2 -> "supersede" [] r = s3 -> "reject" [] OTHER -> "skip"]
MCRefused == {s3, b2}

None == [failures |-> 0, drops |-> 0, pauses |-> 0, claims |-> 0]

With(made, inBatch, faults) ==
    [calls |-> made, batch |-> inBatch, failures |-> faults.failures, drops |-> faults.drops,
     pauses |-> faults.pauses, claims |-> faults.claims]

MCScenarios ==
    {With(MCSingles, FALSE, [None EXCEPT !.failures = 1]),
     With(MCSingles, FALSE, [None EXCEPT !.drops = 1]),
     With(MCSingles, FALSE, [None EXCEPT !.pauses = 1]),
     With({s1, s2}, FALSE, [None EXCEPT !.claims = 2]),
     With({s1, s3}, TRUE, [None EXCEPT !.claims = 1]),
     With({s1}, TRUE, [None EXCEPT !.failures = 1])}
=============================================================================
