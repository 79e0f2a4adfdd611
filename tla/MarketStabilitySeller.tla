----------------------- MODULE MarketStabilitySeller -----------------------
(***************************************************************************)
(* The sale of the market stability reserve                                *)
(* (contracts18/contracts/MarketStabilitySeller.tact): ATH funded by one   *)
(* address is sold in tranches, each dearer than the one before, and the   *)
(* TON paid goes to the treasury.                                          *)
(*                                                                         *)
(* Abstractions.  The contract is bound and sealed.  Its wallet sends back *)
(* a funding that is refused in the same step.  Gas is left out: paid_ton    *)
(* is what the contract was paid for ATH and still has.  One funding is on *)
(* its way at a time.                                                      *)
(***************************************************************************)
EXTENDS AthPayout

CONSTANTS
    TrancheAth,        \* MARKET_STABILITY_TRANCHE_ATH
    TrancheCount,      \* MARKET_STABILITY_TRANCHE_COUNT
    StartMultiplier,   \* MARKET_STABILITY_START_MULTIPLIER
    BaseTranchePrice,  \* MARKET_STABILITY_BASE_TRANCHE_PRICE
    ExcessRefundMin,   \* MARKET_STABILITY_EXCESS_REFUND_MIN_VALUE
    TonFlushMin        \* MARKET_STABILITY_MIN_TREASURY_FLUSH_TON

ASSUME SellerAssumption ==
    /\ TrancheAth \in Nat \ {0}
    /\ {TrancheCount, StartMultiplier, BaseTranchePrice, ExcessRefundMin,
        TonFlushMin} \subseteq Nat

(* MARKET_STABILITY_TOTAL_RESERVE_ATH                                      *)
TotalReserve == TrancheAth * TrancheCount

VARIABLES
    reserve_due_ath, treasury_due,   \* reserve_due_ath, treasury_due_ton
    completed_tranche_count, current_tranche_sold,
    funded_total, sold_total, flushed_total,
    fundings,                    \* notifications of ATH sent by the funder
    paid_ton                     \* what buyers paid and the contract has

trancheVars == <<completed_tranche_count, current_tranche_sold, sold_total>>
saleVars == <<reserve_due_ath, treasury_due, trancheVars, funded_total,
              flushed_total, fundings, paid_ton>>

SellerInit ==
    /\ reserve_due_ath = 0 /\ treasury_due = 0
    /\ completed_tranche_count = 0 /\ current_tranche_sold = 0
    /\ funded_total = 0 /\ sold_total = 0 /\ flushed_total = 0
    /\ fundings = {}
    /\ paid_ton = 0

(* currentTrancheRemaining                                                 *)
Remaining ==
    IF completed_tranche_count >= TrancheCount
    THEN 0 ELSE TrancheAth - current_tranche_sold

(* mutant: the quote is rounded down                                       *)
QuoteFloor(a) ==
    (BaseTranchePrice * (StartMultiplier + completed_tranche_count) * a)
        \div TrancheAth

(* quoteTonForAmount, rounded up                                           *)
Quote(a) ==
    (BaseTranchePrice * (StartMultiplier + completed_tranche_count) * a
        + TrancheAth - 1) \div TrancheAth

-----------------------------------------------------------------------------
(* the funder's ATH arrives in the wallet, which notifies the contract     *)
FundReserve(a) ==
    /\ fundings = {}
    /\ held' = held + a
    /\ fundings' = {a}
    /\ UNCHANGED <<payout, last_id, mail, moving, delivered, lossless>>
    /\ UNCHANGED <<reserve_due_ath, treasury_due, trancheVars, funded_total,
                   flushed_total, paid_ton>>

(* receive(AthTransferNotification)                                        *)
AcceptFunding(a) ==
    /\ funded_total + a <= TotalReserve
    /\ reserve_due_ath' = reserve_due_ath + a
    /\ funded_total' = funded_total + a
    /\ fundings' = {}
    /\ UNCHANGED <<payoutVars, treasury_due, trancheVars, flushed_total,
                   paid_ton>>

(* it throws (23203: not the funder; 23204, 23205) and the wallet sends    *)
(* the ATH back                                                            *)
RefuseFunding(a) ==
    /\ held >= a
    /\ held' = held - a
    /\ fundings' = {}
    /\ UNCHANGED <<payout, last_id, mail, moving, delivered, lossless>>
    /\ UNCHANGED <<reserve_due_ath, treasury_due, trancheVars, funded_total,
                   flushed_total, paid_ton>>

(* receive(BuyMarketStabilityAth), with any id after the last              *)
BuyMarketStabilityAth(a, id) ==
    /\ id > last_id
    /\ a <= Remaining
    /\ a <= reserve_due_ath
    /\ Ask([id |-> id, amount |-> a, paid |-> Quote(a)])
    /\ reserve_due_ath' = reserve_due_ath - a
    /\ paid_ton' = paid_ton + Quote(a)
    /\ UNCHANGED <<treasury_due, trancheVars, funded_total, flushed_total,
                   fundings>>

(* mutant: a full tranche is not left until the next sale                  *)
CountSaleLate(a) ==
    IF current_tranche_sold = TrancheAth
    THEN /\ completed_tranche_count' = completed_tranche_count + 1
         /\ current_tranche_sold' = a
    ELSE /\ current_tranche_sold' = current_tranche_sold + a
         /\ UNCHANGED completed_tranche_count

(* finalizePendingSale: a full tranche begins the next                     *)
CountSale(a) ==
    IF current_tranche_sold + a = TrancheAth
    THEN /\ completed_tranche_count' = completed_tranche_count + 1
         /\ current_tranche_sold' = 0
    ELSE /\ current_tranche_sold' = current_tranche_sold + a
         /\ UNCHANGED completed_tranche_count

(* receive(ATHTransferAck): finalizePendingSale                            *)
FinalizePendingSale(m) ==
    /\ Answers(m)
    /\ Close(m)
    /\ treasury_due' = treasury_due + payout.paid
    /\ sold_total' = sold_total + payout.amount
    /\ CountSale(payout.amount)
    /\ UNCHANGED <<reserve_due_ath, funded_total, flushed_total, fundings,
                   paid_ton>>

(* mutant: what failed to be delivered is not for sale again               *)
FailPendingSaleKept(m) ==
    /\ Answers(m)
    /\ Close(m)
    /\ paid_ton' = IF payout.paid >= ExcessRefundMin
                   THEN paid_ton - payout.paid ELSE paid_ton
    /\ UNCHANGED <<reserve_due_ath, treasury_due, trancheVars, funded_total,
                   flushed_total, fundings>>

(* receive(ATHTransferFailed), bounced(ATHTransferRequest):                *)
(* failPendingSale, which refunds the buyer unless it is too little        *)
FailPendingSale(m) ==
    /\ Answers(m)
    /\ Close(m)
    /\ reserve_due_ath' = reserve_due_ath + payout.amount
    /\ paid_ton' = IF payout.paid >= ExcessRefundMin
                   THEN paid_ton - payout.paid ELSE paid_ton
    /\ UNCHANGED <<treasury_due, trancheVars, funded_total, flushed_total,
                   fundings>>

(* receive(FlushMarketStabilityTreasuryTon)                                *)
FlushTreasuryTon(a) ==
    /\ a <= treasury_due
    /\ a >= TonFlushMin \/ a = treasury_due
    /\ treasury_due' = treasury_due - a
    /\ flushed_total' = flushed_total + a
    /\ paid_ton' = paid_ton - a
    /\ UNCHANGED <<payoutVars, reserve_due_ath, trancheVars, funded_total,
                   fundings>>

SellerStep ==
    \/ \E a \in 1..TotalReserve + 1 : FundReserve(a)
    \/ \E a \in fundings : AcceptFunding(a) \/ RefuseFunding(a)
    \/ \E a \in 1..TrancheAth, id \in 1..MaxPayouts :
          BuyMarketStabilityAth(a, id)
    \/ \E m \in Mail("ack") : FinalizePendingSale(m)
    \/ \E m \in Mail("failed") \cup Mail("bounced") : FailPendingSale(m)
    \/ \E a \in 1..treasury_due : FlushTreasuryTon(a)

=============================================================================
