-------------------------- MODULE MCKeeperExecutor --------------------------
(* Small instances of KeeperExecutor for TLC.                                 *)
EXTENDS KeeperExecutor

CONSTANTS x, y

Plan(kind, total, deadline, gap) ==
    [cadence |-> [kind |-> kind, total |-> total, deadline |-> deadline],
     min_interval |-> gap]

\* A rule that fires twice, one that ends at a deadline, a one-shot time rule.
MixedPlans == <<Plan("Repeat", 2, 0, 1), Plan("Until", 0, 1, 0), Plan("Once", 0, 0, 0)>>
MixedDue == [r \in {3} |-> 2]

\* One rule, on a price and on a timer.
PricePlan == <<Plan("Repeat", 2, 0, 0)>>
NoneDue == [r \in {} |-> 0]
TimePlan == <<Plan("Once", 0, 0, 0)>>
TimeDue == [r \in {1} |-> 2]

=============================================================================
