---------------------------- MODULE VerdictQuota ----------------------------
(***************************************************************************)
(* The quota of one moderator's verdicts                                   *)
(* (contracts18/contracts/ModerationLedger.tact, receive(Verdict)).  Each  *)
(* verdict uses one Unit of it, and it refills with time, rounded down.    *)
(* Unseating a moderator forgets the quota.                                *)
(*                                                                         *)
(* Only verdicts that pass the other guards are modelled: one that is      *)
(* refused leaves the quota alone.  The clock is that of the module that   *)
(* instantiates this one.                                                  *)
(***************************************************************************)
EXTENDS Naturals

CONSTANTS
    VerdictsPerDay,   \* ML_VERDICTS_PER_DAY
    Unit,             \* 1000: thousandths of a verdict
    Day,              \* 86400
    MaxTime           \* bound of the model on the clock

VARIABLES
    quota,      \* the moderator's entry, if there is one
    seated,     \* when the moderator was last seated
    verdicts,   \* how many verdicts were given at each time, since then
    now

NoQuota == [used |-> 0, last_at |-> 0]
Quota == VerdictsPerDay * Unit

Init ==
    /\ quota = NoQuota
    /\ seated = now
    /\ verdicts = [t \in 0..MaxTime |-> 0]

(* mutant: a refill is not rounded down                                    *)
RefillRoundedUp(elapsed) == (elapsed * Quota + Day - 1) \div Day

Refill(elapsed) == (elapsed * Quota) \div Day

UsedNow ==
    LET refill == Refill(now - quota.last_at)
    IN  IF quota.used > refill THEN quota.used - refill ELSE 0

(* receive(Verdict), the quota                                             *)
Verdict ==
    /\ UsedNow + Unit <= Quota
    /\ quota' = [used |-> UsedNow + Unit, last_at |-> now]
    /\ verdicts' = [verdicts EXCEPT ![now] = @ + 1]
    /\ UNCHANGED <<seated, now>>

(* the council removes the moderator and seats the same wallet again       *)
SeatAgain ==
    /\ quota' = NoQuota
    /\ seated' = now
    /\ verdicts' = [t \in 0..MaxTime |-> 0]
    /\ UNCHANGED now

=============================================================================
