------------------------------ MODULE Reserves ------------------------------
(***************************************************************************)
(* The contracts that hold ATH for somebody in a wallet of their own and   *)
(* wait for the outcome of what it was asked: a FeeVault, the market       *)
(* stability seller, the vesting and BuybackBurn.  They share no state; a  *)
(* behaviour is about one of them.                                         *)
(***************************************************************************)
EXTENDS FeeVault, MarketStabilitySeller, ATHVesting, BuybackBurn

VARIABLE holder   \* which of them: it never changes

otherVars == <<payoutVars, saleVars, vestingVars>>
reserveVars == <<vars, otherVars, buybackVars, holder>>

ReservesInit ==
    /\ holder \in {"vault", "seller", "vesting", "buyback"}
    /\ Init /\ SellerInit /\ VestingInit /\ BuybackInit
    /\ \E stock \in 0..TotalVesting :
          /\ holder # "vesting" => stock = 0
          /\ PayoutInit(stock)
    /\ holder \in {"vault", "buyback"} => lossless
    /\ holder # "vault" => ~emergency

ReservesNext ==
    /\ CASE holder = "vault" -> Next /\ UNCHANGED <<otherVars, buybackVars>>
         [] holder = "seller" ->
              /\ \/ SellerStep
                 \/ WalletsMove /\ UNCHANGED saleVars
              /\ UNCHANGED <<vars, vestingVars, buybackVars>>
         [] holder = "vesting" ->
              /\ \/ VestingStep
                 \/ WalletsMove /\ UNCHANGED vestingVars
              /\ UNCHANGED <<vars, saleVars, buybackVars>>
         [] holder = "buyback" -> BuybackNext /\ UNCHANGED <<vars, otherVars>>
    /\ UNCHANGED holder

(* A message is handled, and a transfer arrives or comes back.             *)
RequestHandled ==
    /\ \E m \in Mail("request") :
          TransferRequest(m) \/ RefuseTransferRequest(m)
    /\ UNCHANGED <<vars, saleVars, vestingVars, buybackVars, holder>>
TransferEnds ==
    /\ \E t \in moving : Deliver(t) \/ TakeBackPayout(t)
    /\ UNCHANGED <<vars, saleVars, vestingVars, buybackVars, holder>>
PayoutAnswered ==
    /\ \/ /\ holder = "seller"
          /\ \/ \E m \in Mail("ack") : FinalizePendingSale(m)
             \/ \E m \in Mail("failed") \cup Mail("bounced") :
                   FailPendingSale(m)
          /\ UNCHANGED vestingVars
       \/ /\ holder = "vesting"
          /\ \/ \E m \in Mail("ack") : ClaimPaid(m)
             \/ \E m \in Mail("failed") \cup Mail("bounced") : ClaimFailed(m)
          /\ UNCHANGED saleVars
    /\ UNCHANGED <<vars, buybackVars, holder>>

(* BuybackBurn: time passes, a burn is answered for, and somebody asks for *)
(* the recovery of what is stuck.                                          *)
TimePasses ==
    /\ holder = "buyback"
    /\ BuybackTick
    /\ UNCHANGED <<vars, otherVars, holder>>
BurnAnswered ==
    /\ holder = "buyback"
    /\ \/ WalletBurns \/ WalletRefuses
       \/ MasterBurns \/ MasterRefuses
       \/ BurnFinalized \/ BurnFailed
    /\ UNCHANGED <<vars, otherVars, holder>>
StuckRecovered ==
    /\ holder = "buyback"
    /\ RecoverStuckStonfiSwap \/ RecoverStuckAthBurn
    /\ UNCHANGED <<vars, otherVars, holder>>

ReservesSpec ==
    /\ ReservesInit /\ [][ReservesNext]_reserveVars
    /\ WF_reserveVars(RequestHandled) /\ WF_reserveVars(TransferEnds)
    /\ WF_reserveVars(PayoutAnswered)
    /\ WF_reserveVars(TimePasses) /\ WF_reserveVars(BurnAnswered)
    /\ WF_reserveVars(StuckRecovered)

-----------------------------------------------------------------------------
AmountOf(S) == SumFunction([t \in S |-> t.amount])
PaidOut == AmountOf(delivered)
Arrived == \E t \in delivered : t.id = payout.id
PendingAmount == IF Idle THEN 0 ELSE payout.amount

(* What the recipients of a sale or a claim received is what the contract  *)
(* counts as sold or claimed, but for a transfer that arrived and is not   *)
(* acknowledged yet: none is counted that came back, none is paid twice.   *)
CountsExact ==
    PaidOut = (IF holder = "seller" THEN sold_total ELSE claimed)
                  + (IF Arrived THEN PendingAmount ELSE 0)

(* MarketStabilitySeller: what is for sale and what it is waiting for is   *)
(* in its wallet and was funded, every buyer's TON is there until it is    *)
(* the treasury's or given back, and the tranches are those of what was    *)
(* sold.                                                                   *)
SellerExact ==
    /\ held + AmountOf(moving) =
           reserve_due_ath + SumFunction([a \in fundings |-> a])
               + (IF Arrived THEN 0 ELSE PendingAmount)
    /\ funded_total = reserve_due_ath + sold_total + PendingAmount
    /\ paid_ton >= treasury_due + (IF Idle THEN 0 ELSE payout.paid)
    /\ completed_tranche_count = sold_total \div TrancheAth
    /\ current_tranche_sold = sold_total % TrancheAth

(* ATHVesting: the beneficiary never has more than what unlocked with the  *)
(* periods that have passed, whenever the claims are made, fail and are    *)
(* acknowledged.                                                           *)
NotBeforeVested ==
    \E periods \in 0..PeriodCount :
        /\ PeriodLength * periods <= elapsed
        /\ PaidOut <= PeriodUnlock * periods

(* The seller and the vesting count what they pay: CountsExact with what   *)
(* each of them adds.                                                      *)
PayoutsExact ==
    /\ holder \in {"seller", "vesting"} => CountsExact
    /\ holder = "seller" => SellerExact
    /\ holder = "vesting" => NotBeforeVested

(* What MarketStabilitySeller has sold brought in the price of its         *)
(* tranches, unit by unit, however it was cut into sales: no sale is below *)
(* the tranche that its ATH belongs to, and none is dearer than that by    *)
(* more than one rounding.                                                 *)
FloorPrice ==
    BaseTranchePrice *
        SumFunction([u \in 0..sold_total - 1 |->
                         StartMultiplier + u \div TrancheAth])
PricedByTranche ==
    LET proceeds == TrancheAth * (treasury_due + flushed_total)
    IN  /\ FloorPrice <= proceeds
        /\ proceeds <= FloorPrice + (TrancheAth - 1) * last_id

(* A sale or a claim never keeps the contract from the next, if messages   *)
(* are handled and no acknowledgement is lost: neither has a timeout.      *)
PayoutsEnd == lossless => []<>Idle

=============================================================================
