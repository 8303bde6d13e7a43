---------------------------- MODULE MCAnalysisRuns --------------------------
(***************************************************************************)
(* AnalysisRuns with a report on one account and an analysis of two and of *)
(* three, and with the answers a model may give that differ for the checks.*)
(***************************************************************************)
EXTENDS AnalysisRuns, TLC

CONSTANTS c1, r1, r2, s1, s2, s3, n1, n2, n3, k1

Reviewers == Permutations({r1, r2})

MCShop  == {s1, s2, s3}
MCNote  == {n1, n2, n3}
MCOwner == [e \in {s1, s2, s3, n1, n2, n3, k1} |->
              CASE e \in {s1, n1, k1} -> "a1" [] e \in {s2, n2} -> "a2" [] OTHER -> "a3"]

MCRequests ==
    {[kind |-> "account_report",  scope |-> {"a1"},             ids |-> <<k1, s1, n1>>],
     [kind |-> "product_cluster", scope |-> {"a1", "a2"},       ids |-> <<s1, n1, s2, n2>>],
     [kind |-> "product_cluster", scope |-> {"a1", "a2", "a3"}, ids |-> <<n1, s1, n2, s2, n3, s3>>]}

Shop1(a) == CASE a = "a1" -> s1 [] a = "a2" -> s2 [] OTHER -> s3
Note1(a) == CASE a = "a1" -> n1 [] a = "a2" -> n2 [] OTHER -> n3

\* An answer over some accounts whose card takes the shop of each from `shop'.
Answering(scope, shared, carded, shop) ==
    LET all == {Shop1(a) : a \in scope} \union {Note1(a) : a \in scope}
    IN  [claims |-> all, basis |-> all, shared |-> shared,
         profiles |-> [a \in scope |-> {Note1(a)}],
         card |-> IF carded
                  THEN [cites |-> all, shops |-> [a \in scope |-> {Shop1(shop[a])}],
                        notes |-> [a \in scope |-> {Note1(a)}]]
                  ELSE NoCard]

Two   == {"a1", "a2"}
Three == {"a1", "a2", "a3"}
Own   == [a \in Three |-> a]
MCOutputs ==
    {Answering({"a1"}, FALSE, FALSE, Own), Answering(Two, FALSE, FALSE, Own),
     Answering(Two, FALSE, TRUE, Own), Answering(Two, TRUE, TRUE, Own),
     Answering(Two, TRUE, TRUE, [a \in Three |-> "a1"]), Answering(Three, TRUE, TRUE, Own)}

Result(mode, n, rejected, duplicates, available, ended, pictured) ==
    [mode |-> mode, expected |-> n, collected |-> n, distinct |-> n, verified |-> TRUE,
     rejected |-> rejected, duplicates |-> duplicates, raw |-> n + rejected,
     available |-> available, ended |-> ended, pictured |-> pictured]
Whole  == Result("full_shop", 2, 1, 1, 2, TRUE, TRUE)
Sample == Result("evidence_sample", 3, 0, 0, 7, FALSE, FALSE)
Others ==
    {Result("full_shop", 2, 0, 0, 2, TRUE, FALSE), Result("full_shop", 2, 1, 0, 2, TRUE, TRUE),
     Result("evidence_sample", 2, 0, 0, 2, TRUE, FALSE),
     Result("evidence_sample", 2, 0, 0, 2, FALSE, FALSE),
     Result("bounded_sample", 3, 0, 0, 7, FALSE, TRUE)}
MCResults == [s \in MCShop |-> CASE s = s1 -> Others \union {Whole}
                                [] s = s2 -> {Whole} [] OTHER -> {Sample}]
=============================================================================
