------------------------------- MODULE Cadence -------------------------------
(***************************************************************************)
(* The control-flow of a rule's schedule, as the program computes it:      *)
(* Cadence::validate, is_until_expired, check_can_fire, advance and the    *)
(* upfront time fee (programs/sotama_automations/src/state.rs).  A         *)
(* schedule is a record "a" with the fields of the Automation account that *)
(* these functions read: cadence, min_interval, executions, executed_at    *)
(* and finished.                                                           *)
(***************************************************************************)
EXTENDS Integers

CONSTANTS
    SecsPerDay,      \* SECS_PER_DAY, 86_400 in the code
    TimeFeeMaxDays,  \* TIME_FEE_MAX_DAYS, 30 in the code
    U32Max,          \* largest u32: Automation.executions saturates there
    U64Max           \* largest u64: deposits overflow, the time fee saturates

ASSUME SecsPerDayAssumption == SecsPerDay \in Nat \ {0}
ASSUME TimeFeeMaxDaysAssumption == TimeFeeMaxDays \in Nat \ {0}
ASSUME WidthAssumption == U32Max \in Nat \ {0} /\ U64Max \in Nat \ {0}

Smaller(x, y) == IF x <= y THEN x ELSE y

Cadences == [kind : {"Once", "Repeat", "Until"}, total : 0..U32Max, deadline : Int]

\* Cadence::validate
ValidCadence(c) ==
    /\ c.kind = "Repeat" => c.total >= 1
    /\ c.kind = "Until" => c.deadline > 0

\* How many days a rule is charged for.
ChargedDays(c, t) ==
    IF c.kind # "Until"
    THEN TimeFeeMaxDays
    ELSE LET delta == c.deadline - t
         IN  IF delta <= 0
             THEN 1
             ELSE Smaller((delta + SecsPerDay - 1) \div SecsPerDay, TimeFeeMaxDays)

\* compute_time_fee: a saturating multiplication, never a cheap wrap-around.
compute_time_fee(c, t, perDay) == Smaller(ChargedDays(c, t) * perDay, U64Max)

\* Automation::is_until_expired
is_until_expired(a, t) ==
    /\ ~a.finished
    /\ a.cadence.kind = "Until"
    /\ t > a.cadence.deadline

\* Seeded fault: the interval check is dropped.
check_unfinished(a, t) == ~a.finished

\* Automation::check_can_fire
check_can_fire(a, t) ==
    /\ ~a.finished
    /\ a.executions > 0 /\ a.min_interval > 0 => t >= a.executed_at + a.min_interval

\* Seeded faults: the counter is not saturated; the last fire is missed by one.
advance_unbounded(a, t) ==
    [a EXCEPT !.executions = @ + 1, !.executed_at = t,
              !.finished = \/ @ \/ a.cadence.kind = "Once"
                           \/ a.cadence.kind = "Repeat" /\ a.executions + 1 >= a.cadence.total]
advance_late(a, t) ==
    [a EXCEPT !.executions = Smaller(@ + 1, U32Max), !.executed_at = t,
              !.finished = \/ @ \/ a.cadence.kind = "Once"
                           \/ a.cadence.kind = "Repeat" /\ a.executions >= a.cadence.total]

\* Automation::advance: the bookkeeping of a successful fire.
advance(a, t) ==
    LET n == Smaller(a.executions + 1, U32Max)
    IN  [a EXCEPT !.executions = n,
                  !.executed_at = t,
                  !.finished = \/ @
                               \/ a.cadence.kind = "Once"
                               \/ a.cadence.kind = "Repeat" /\ n >= a.cadence.total]

=============================================================================
