----------------------------- MODULE ATHVesting -----------------------------
(***************************************************************************)
(* The long-term vesting of ATH (contracts18/contracts/ATHVesting.tact): a *)
(* fixed amount unlocks with every period that has passed, and whoever     *)
(* claims what is unlocked has it sent to the beneficiary.                 *)
(***************************************************************************)
EXTENDS AthPayout

CONSTANTS
    PeriodCount,     \* ATH_VESTING_PERIOD_COUNT
    PeriodLength,    \* ATH_VESTING_PERIOD_SECONDS
    PeriodUnlock,    \* ATH_VESTING_PERIOD_UNLOCK_AMOUNT
    MaxElapsed       \* bound of the model on the clock

ASSUME VestingAssumption ==
    /\ {PeriodCount, PeriodUnlock, MaxElapsed} \subseteq Nat
    /\ PeriodLength \in Nat \ {0}

TotalVesting == PeriodCount * PeriodUnlock   \* ATH_VESTING_TOTAL_AMOUNT

VARIABLES
    claimed,   \* claimed_ath
    elapsed    \* now() - start_time

vestingVars == <<claimed, elapsed>>

VestingInit == claimed = 0 /\ elapsed = 0

(* mutant: the period that is running counts                               *)
ElapsedPeriodsBegun ==
    LET periods == elapsed \div PeriodLength + 1
    IN  IF periods > PeriodCount THEN PeriodCount ELSE periods

(* elapsedPeriods                                                          *)
ElapsedPeriods ==
    LET periods == elapsed \div PeriodLength
    IN  IF periods > PeriodCount THEN PeriodCount ELSE periods

(* claimableNow, in the idle phase                                         *)
Claimable ==
    IF ElapsedPeriods * PeriodUnlock <= claimed
    THEN 0 ELSE ElapsedPeriods * PeriodUnlock - claimed

(* receive(ClaimAthVesting): all that is claimable, with the next id       *)
ClaimAthVesting ==
    /\ last_id < MaxPayouts
    /\ Claimable > 0
    /\ Ask([id |-> last_id + 1, amount |-> Claimable])
    /\ UNCHANGED vestingVars

(* mutant: the total itself is not allowed                                 *)
ClaimPaidBelow(m) ==
    /\ Answers(m)
    /\ claimed + payout.amount < TotalVesting
    /\ Close(m)
    /\ claimed' = claimed + payout.amount
    /\ UNCHANGED elapsed

(* receive(ATHTransferAck)                                                 *)
ClaimPaid(m) ==
    /\ Answers(m)
    /\ claimed + payout.amount <= TotalVesting
    /\ Close(m)
    /\ claimed' = claimed + payout.amount
    /\ UNCHANGED elapsed

(* receive(ATHTransferFailed), bounced(ATHTransferRequest)                 *)
ClaimFailed(m) ==
    /\ Answers(m)
    /\ Close(m)
    /\ UNCHANGED vestingVars

(* now()                                                                   *)
Ages ==
    /\ elapsed < MaxElapsed
    /\ elapsed' = elapsed + 1
    /\ UNCHANGED <<payoutVars, claimed>>

VestingStep ==
    \/ ClaimAthVesting
    \/ \E m \in Mail("ack") : ClaimPaid(m)
    \/ \E m \in Mail("failed") \cup Mail("bounced") : ClaimFailed(m)
    \/ Ages

=============================================================================
