----------------------------- MODULE MCCampaign -----------------------------
(***************************************************************************)
(* Small instances of Campaign.                                            *)
(***************************************************************************)
EXTENDS Campaign

FourJobs == <<"compare", "smoke", "smoke", "benchmark">>
SecondSmoke == {3}
Comparison == <<"compare">>
OnlyBenchmark == {4}
Nobody == {}

\* Two tools on one repository, one row.
TwoTools == <<1, 1>>
OneRow == <<1>>

=============================================================================
