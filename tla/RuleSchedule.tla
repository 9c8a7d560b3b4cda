----------------------------- MODULE RuleSchedule -----------------------------
(***************************************************************************)
(* What rule owners are promised about when their rules fire, without      *)
(* escrow, accounts or keeper: a rule that was started fires at most as    *)
(* often as its cadence says, never twice within its minimum interval,     *)
(* never after its Until deadline, not at all once it is done, and once it *)
(* is gone it stays gone.                                                  *)
(***************************************************************************)
EXTENDS Integers

CONSTANTS
    Rules,
    Cap       \* the fire counter saturates here

VARIABLES
    clock,
    phase,    \* of each rule: "absent", "live", "done" or "gone"
    plan,     \* its cadence and minimum interval, once started
    fires,    \* how often it has fired
    last      \* when it last fired

vars == <<clock, phase, plan, fires, last>>

Init ==
    /\ phase = [r \in Rules |-> "absent"]
    /\ fires = [r \in Rules |-> 0]
    /\ last = [r \in Rules |-> 0]

Pass ==
    /\ clock' > clock
    /\ UNCHANGED <<phase, plan, fires, last>>

Start(r) ==
    /\ phase[r] = "absent"
    /\ phase' = [phase EXCEPT ![r] = "live"]
    /\ \E p \in {plan'[r]} : plan' = [plan EXCEPT ![r] = p]
    /\ UNCHANGED <<clock, fires, last>>

Due(r) ==
    /\ phase[r] = "live"
    /\ plan[r].kind = "Once" => fires[r] = 0
    /\ plan[r].kind = "Repeat" => fires[r] < plan[r].total
    /\ plan[r].kind = "Until" => clock <= plan[r].deadline
    /\ fires[r] > 0 => clock >= last[r] + plan[r].gap

\* The last fire of a bounded cadence ends the rule; any fire may also use up
\* the account that holds it.
Fire(r) ==
    LET n == IF fires[r] < Cap THEN fires[r] + 1 ELSE Cap
        ended == \/ plan[r].kind = "Once"
                 \/ plan[r].kind = "Repeat" /\ n >= plan[r].total
    IN  /\ Due(r)
        /\ fires' = [fires EXCEPT ![r] = n]
        /\ last' = [last EXCEPT ![r] = clock]
        /\ phase' \in {[phase EXCEPT ![r] = IF ended THEN "done" ELSE "live"],
                       [phase EXCEPT ![r] = "gone"]}
        /\ UNCHANGED <<clock, plan>>

Expire(r) ==
    /\ phase[r] = "live"
    /\ plan[r].kind = "Until" /\ clock > plan[r].deadline
    /\ phase' = [phase EXCEPT ![r] = "done"]
    /\ UNCHANGED <<clock, plan, fires, last>>

Retire(r) ==
    /\ phase[r] \in {"live", "done"}
    /\ phase' = [phase EXCEPT ![r] = "gone"]
    /\ UNCHANGED <<clock, plan, fires, last>>

Next ==
    \/ Pass
    \/ \E r \in Rules : Start(r) \/ Fire(r) \/ Expire(r) \/ Retire(r)

Spec == Init /\ [][Next]_vars

=============================================================================
