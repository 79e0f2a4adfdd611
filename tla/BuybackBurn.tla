---------------------------- MODULE BuybackBurn ----------------------------
(***************************************************************************)
(* The BuybackBurn contract, its official ATH wallet, the ATH master and   *)
(* the exchange it buys from (contracts18/contracts/BuybackBurn.tact).     *)
(*                                                                         *)
(* A cycle spends one envelope of the reserve on ATH, and burns what the   *)
(* exchange sends.  It ends with the burn, or with a refund, a bounce or,  *)
(* after a grace, by anybody's request; what was not burned is retried in  *)
(* a cycle of its own.  After a year without a burn the TON may be swept   *)
(* to the treasury.                                                        *)
(*                                                                         *)
(* Abstractions.  Clocks are ages that stop at the longest grace: `age' is *)
(* now minus the start of the pending phase, `armed' now minus             *)
(* deadman_armed_at.  TON is counted net of the reserves handlers keep for *)
(* their gas.  The exchange may answer late, in pieces, or not at all.  A  *)
(* burn and its answers take at most BurnTransit; the request may be lost. *)
(***************************************************************************)
EXTENDS Naturals

CONSTANTS
    Envelope,        \* BUYBACK_FUNDING_ENVELOPE_NANOTONS
    RefundMin,       \* BUYBACK_ROUTE_REFUND_RECOVERY_MIN_NANOTONS
    Floor,           \* BUYBACK_SWEEP_STORAGE_FLOOR_NANOTONS
    MinOut,          \* evidence_dex_min_out_atomic_ath
    DeadlineAhead,   \* BUYBACK_DEADLINE_MAX_AHEAD_SECONDS
    RefundGrace,     \* BUYBACK_ROUTE_REFUND_RECOVERY_GRACE_SECONDS
    SwapGrace,       \* BUYBACK_STUCK_SWAP_DEADMAN_GRACE_SECONDS
    BurnGrace,       \* BUYBACK_STUCK_BURN_DEADMAN_GRACE_SECONDS
    SweepGrace,      \* BUYBACK_DEADMAN_SWEEP_GRACE_SECONDS
    BurnTransit,     \* bound on the time from a burn request to its answer
    MaxAth,          \* bound of the model on the ATH one swap brings
    MaxQuery,        \* UINT64_MAX: query ids stay below it
    MaxEnvelopes     \* bound of the model on accepted_reserve_count

ASSUME BuybackAssumption ==
    /\ {Envelope, MinOut} \subseteq Nat \ {0}
    /\ {RefundMin, Floor, DeadlineAhead, RefundGrace, SwapGrace, BurnGrace,
        SweepGrace, BurnTransit, MaxAth, MaxQuery, MaxEnvelopes} \subseteq Nat

(* Six hours are longer than the four hops of a burn                       *)
ASSUME BurnTransitAssumption == BurnTransit <= BurnGrace

VARIABLES
    sealed, route_frozen, controller,   \* genesis; controller: its hash is set
    phase, pending_query_id, pending_route_refund_start, pending_received_ath,
    age,
    reserve_due, route_refund_due, ath_burn_retry_due, last_terminal_query_id,
    accepted_reserve_count, burned_ath_total, armed,
    ton,        \* TON the contract holds, net of gas
    ath,        \* balance of its official ATH wallet
    burnt,      \* what the master burned for it
    burn,       \* the burn under way: its stage, query id and amount
    arrivals,   \* notifications of ATH the exchange sent
    exchange    \* TON the exchange has not answered for

genesisVars == <<sealed, route_frozen, controller>>
cycleVars == <<phase, pending_query_id, pending_route_refund_start,
               pending_received_ath, age, last_terminal_query_id>>
dueVars == <<reserve_due, route_refund_due, ath_burn_retry_due>>
countVars == <<accepted_reserve_count, burned_ath_total, armed>>
worldVars == <<ton, ath, burnt, burn, arrivals, exchange>>
buybackVars == <<genesisVars, cycleVars, dueVars, countVars, worldVars>>

Phases == {"IDLE", "PENDING_STONFI_SWAP", "PENDING_ATH_BURN"}
Stages == {"none", "request", "refused", "burning", "finalized", "failed"}
NoBurn == [stage |-> "none", qid |-> 0, amount |-> 0]

AtLeast(a, b) == IF a > b THEN a ELSE b
MaxAge ==
    AtLeast(DeadlineAhead + AtLeast(RefundGrace, SwapGrace), BurnGrace) + 1

BuybackInit ==
    /\ sealed = FALSE /\ route_frozen = FALSE /\ controller = TRUE
    /\ phase = "IDLE" /\ pending_query_id = 0
    /\ pending_route_refund_start = 0 /\ pending_received_ath = 0 /\ age = 0
    /\ reserve_due = 0 /\ route_refund_due = 0 /\ ath_burn_retry_due = 0
    /\ last_terminal_query_id = 0
    /\ accepted_reserve_count = 0 /\ burned_ath_total = 0 /\ armed = 0
    /\ ton = 0 /\ ath = 0 /\ burnt = 0
    /\ burn = NoBurn /\ arrivals = {} /\ exchange = 0

-----------------------------------------------------------------------------
(* ---- genesis -----------------------------------------------------------*)

(* receive(FreezeBuybackRoute), possibly after the seal                    *)
FreezeRoute ==
    /\ controller
    /\ ~route_frozen
    /\ sealed => /\ phase = "IDLE"
                 /\ reserve_due = 0 /\ route_refund_due = 0
                 /\ ath_burn_retry_due = 0 /\ accepted_reserve_count = 0
    /\ route_frozen' = TRUE
    /\ controller' = ~sealed
    /\ armed' = IF sealed THEN 0 ELSE armed
    /\ UNCHANGED <<sealed, cycleVars, dueVars, accepted_reserve_count,
                   burned_ath_total, worldVars>>

(* receive(SealBuybackBurnGenesis), everything bound                       *)
Seal ==
    /\ ~sealed
    /\ controller
    /\ sealed' = TRUE
    /\ controller' = ~route_frozen
    /\ armed' = 0
    /\ UNCHANGED <<route_frozen, cycleVars, dueVars, accepted_reserve_count,
                   burned_ath_total, worldVars>>

-----------------------------------------------------------------------------
(* ---- the cycle ---------------------------------------------------------*)

ClearPending ==
    /\ phase' = "IDLE"
    /\ pending_query_id' = 0
    /\ pending_route_refund_start' = 0
    /\ pending_received_ath' = 0
    /\ age' = 0

(* finishPendingCycle                                                      *)
FinishPendingCycle ==
    /\ ClearPending
    /\ last_terminal_query_id' = pending_query_id

(* creditRouteRefundValue, creditRouteNotifySurplus, net of their reserve  *)
CreditRouteRefund(value) ==
    /\ route_refund_due' = route_refund_due + value
    /\ ton' = ton + value

(* receive(AcceptBurnReserve) from the FeeAccumulator                      *)
AcceptBurnReserve ==
    /\ sealed /\ route_frozen
    /\ accepted_reserve_count < MaxEnvelopes
    /\ reserve_due' = reserve_due + Envelope
    /\ accepted_reserve_count' = accepted_reserve_count + 1
    /\ ton' = ton + Envelope
    /\ UNCHANGED <<genesisVars, cycleVars, route_refund_due,
                   ath_burn_retry_due, burned_ath_total, armed, ath, burnt,
                   burn, arrivals, exchange>>

(* receive(ExecuteBuybackChunk)                                            *)
ExecuteBuybackChunk ==
    /\ sealed /\ route_frozen
    /\ phase = "IDLE"
    /\ reserve_due >= Envelope
    /\ last_terminal_query_id + 1 < MaxQuery
    /\ reserve_due' = reserve_due - Envelope
    /\ phase' = "PENDING_STONFI_SWAP"
    /\ pending_query_id' = last_terminal_query_id + 1
    /\ pending_route_refund_start' = route_refund_due
    /\ pending_received_ath' = 0
    /\ age' = 0
    /\ ton' = ton - Envelope
    /\ exchange' = exchange + Envelope
    /\ UNCHANGED <<genesisVars, last_terminal_query_id, route_refund_due,
                   ath_burn_retry_due, countVars, ath, burnt, burn, arrivals>>

(* the exchange pays ATH for a swap, for an earlier one if it is late:     *)
(* the wallet is credited and a notification leaves for the contract       *)
ExchangePays(q, a) ==
    /\ exchange > 0
    /\ q <= AtLeast(pending_query_id, last_terminal_query_id)
    /\ \A n \in arrivals : n.qid # q
    /\ exchange' = exchange - 1
    /\ ath' = ath + a
    /\ arrivals' = arrivals \cup {[qid |-> q, amount |-> a]}
    /\ UNCHANGED <<genesisVars, cycleVars, dueVars, countVars, ton, burnt,
                   burn>>

(* the exchange sends TON back, in pieces: receive() from the route        *)
RouteRefund(value) ==
    /\ sealed /\ route_frozen
    /\ value <= exchange
    /\ exchange' = exchange - value
    /\ CreditRouteRefund(value)
    /\ UNCHANGED <<genesisVars, cycleVars, reserve_due, ath_burn_retry_due,
                   countVars, ath, burnt, burn, arrivals>>

(* bounced(StonfiPtonTonTransferBounce): the first hop refused             *)
PtonTransferBounce(value) ==
    /\ phase = "PENDING_STONFI_SWAP"
    /\ value <= exchange
    /\ exchange' = exchange - value
    /\ CreditRouteRefund(value)
    /\ FinishPendingCycle
    /\ UNCHANGED <<genesisVars, reserve_due, ath_burn_retry_due, countVars,
                   ath, burnt, burn, arrivals>>

(* the bounce of an earlier cycle's hop, or a message of no known kind from*)
(* the route, throws (22401, 22402): its TON stays, booked nowhere         *)
UnbookedTon(value) ==
    /\ value <= exchange
    /\ exchange' = exchange - value
    /\ ton' = ton + value
    /\ UNCHANGED <<genesisVars, cycleVars, dueVars, countVars, ath, burnt,
                   burn, arrivals>>

SendAthBurn(q, a) ==
    burn' = [stage |-> "request", qid |-> q, amount |-> a]

Accepts(n) ==
    /\ phase = "PENDING_STONFI_SWAP"
    /\ n.qid = pending_query_id
    /\ n.amount >= MinOut

(* receive(JettonTransferNotification): with enough value the burn starts  *)
(* at once (surplus credited), otherwise it is left to a retry             *)
BurnArrival(n, surplus) ==
    /\ Accepts(n)
    /\ phase' = "PENDING_ATH_BURN"
    /\ pending_received_ath' = n.amount
    /\ age' = 0
    /\ CreditRouteRefund(surplus)
    /\ SendAthBurn(n.qid, n.amount)
    /\ arrivals' = arrivals \ {n}
    /\ UNCHANGED <<genesisVars, pending_query_id, pending_route_refund_start,
                   last_terminal_query_id, reserve_due, ath_burn_retry_due,
                   countVars, ath, burnt, exchange>>

RetryArrivalLater(n, surplus) ==
    /\ Accepts(n)
    /\ ath_burn_retry_due' = ath_burn_retry_due + n.amount
    /\ FinishPendingCycle
    /\ CreditRouteRefund(surplus)
    /\ arrivals' = arrivals \ {n}
    /\ UNCHANGED <<genesisVars, reserve_due, countVars, ath, burnt, burn,
                   exchange>>

(* it throws (22300..22305): the ATH stays in the wallet, unaccounted for  *)
RefuseArrival(n) ==
    /\ ~Accepts(n)
    /\ arrivals' = arrivals \ {n}
    /\ UNCHANGED <<genesisVars, cycleVars, dueVars, countVars, ton, ath, burnt,
                   burn, exchange>>

(* mutant: the amount retried stays due                                    *)
RetryAthBurnDueTwice ==
    /\ sealed
    /\ phase = "IDLE"
    /\ last_terminal_query_id + 1 < MaxQuery
    /\ ath_burn_retry_due > 0
    /\ phase' = "PENDING_ATH_BURN"
    /\ pending_query_id' = last_terminal_query_id + 1
    /\ pending_received_ath' = ath_burn_retry_due
    /\ age' = 0
    /\ SendAthBurn(last_terminal_query_id + 1, ath_burn_retry_due)
    /\ UNCHANGED <<genesisVars, pending_route_refund_start,
                   last_terminal_query_id, dueVars, countVars, ton, ath, burnt,
                   arrivals, exchange>>

(* receive(RetryAthBurnDue)                                                *)
RetryAthBurnDue ==
    /\ sealed
    /\ phase = "IDLE"
    /\ last_terminal_query_id + 1 < MaxQuery
    /\ ath_burn_retry_due > 0
    /\ ath_burn_retry_due' = 0
    /\ phase' = "PENDING_ATH_BURN"
    /\ pending_query_id' = last_terminal_query_id + 1
    /\ pending_received_ath' = ath_burn_retry_due
    /\ age' = 0
    /\ SendAthBurn(last_terminal_query_id + 1, ath_burn_retry_due)
    /\ UNCHANGED <<genesisVars, pending_route_refund_start,
                   last_terminal_query_id, reserve_due, route_refund_due,
                   countVars, ton, ath, burnt, arrivals, exchange>>

-----------------------------------------------------------------------------
(* ---- the burn, at the wallet and the master ----------------------------*)

Stage(from, to) ==
    /\ burn.stage = from
    /\ burn' = [burn EXCEPT !.stage = to]
    /\ UNCHANGED <<genesisVars, cycleVars, dueVars, countVars, ton, arrivals,
                   exchange>>

(* ATHWallet receive(ATHBurn)                                              *)
WalletBurns ==
    /\ Stage("request", "burning")
    /\ ath >= burn.amount
    /\ ath' = ath - burn.amount
    /\ UNCHANGED burnt

(* it throws: the request bounces                                          *)
WalletRefuses == Stage("request", "refused") /\ UNCHANGED <<ath, burnt>>

(* ATHMaster receive(ATHBurnNotification)                                  *)
MasterBurns ==
    /\ Stage("burning", "finalized")
    /\ burnt' = burnt + burn.amount
    /\ UNCHANGED ath

(* it throws; ATHWallet bounced(ATHBurnNotification) restores the amount   *)
MasterRefuses ==
    /\ Stage("burning", "failed")
    /\ ath' = ath + burn.amount
    /\ UNCHANGED burnt

(* the request fails in the wallet's action phase                          *)
LoseRequest ==
    /\ burn.stage = "request"
    /\ burn' = NoBurn
    /\ UNCHANGED <<genesisVars, cycleVars, dueVars, countVars, ton, ath, burnt,
                   arrivals, exchange>>

Pending(q, a) ==
    /\ phase = "PENDING_ATH_BURN"
    /\ q = pending_query_id
    /\ a = pending_received_ath

(* receive(ATHBurnFinalized)                                               *)
BurnFinalized ==
    /\ burn.stage = "finalized"
    /\ Pending(burn.qid, burn.amount)
    /\ burn' = NoBurn
    /\ burned_ath_total' = burned_ath_total + burn.amount
    /\ armed' = 0
    /\ FinishPendingCycle
    /\ UNCHANGED <<genesisVars, dueVars, accepted_reserve_count, ton, ath,
                   burnt, arrivals, exchange>>

(* receive(ATHBurnFailed) and bounced(ATHBurn)                             *)
BurnFailed ==
    /\ burn.stage \in {"failed", "refused"}
    /\ Pending(burn.qid, burn.amount)
    /\ burn' = NoBurn
    /\ ath_burn_retry_due' = ath_burn_retry_due + burn.amount
    /\ FinishPendingCycle
    /\ UNCHANGED <<genesisVars, reserve_due, route_refund_due, countVars, ton,
                   ath, burnt, arrivals, exchange>>

-----------------------------------------------------------------------------
(* ---- recovery, by anybody ----------------------------------------------*)

(* receive(RecoverStonfiRouteRefund): most of the envelope came back       *)
RecoverStonfiRouteRefund ==
    /\ phase = "PENDING_STONFI_SWAP"
    /\ route_refund_due >= pending_route_refund_start + RefundMin
    /\ age > DeadlineAhead + RefundGrace
    /\ FinishPendingCycle
    /\ UNCHANGED <<genesisVars, dueVars, countVars, worldVars>>

(* mutant: a stuck swap is recovered only if some TON came back            *)
RecoverStuckStonfiSwapRefunded ==
    /\ phase = "PENDING_STONFI_SWAP"
    /\ route_refund_due > pending_route_refund_start
    /\ age > DeadlineAhead + SwapGrace
    /\ FinishPendingCycle
    /\ UNCHANGED <<genesisVars, dueVars, countVars, worldVars>>

(* receive(RecoverStuckStonfiSwap)                                         *)
RecoverStuckStonfiSwap ==
    /\ phase = "PENDING_STONFI_SWAP"
    /\ age > DeadlineAhead + SwapGrace
    /\ FinishPendingCycle
    /\ UNCHANGED <<genesisVars, dueVars, countVars, worldVars>>

(* mutant: the grace is not waited for                                     *)
RecoverStuckAthBurnEarly ==
    /\ phase = "PENDING_ATH_BURN"
    /\ age > 0
    /\ ath_burn_retry_due' = ath_burn_retry_due + pending_received_ath
    /\ FinishPendingCycle
    /\ UNCHANGED <<genesisVars, reserve_due, route_refund_due, countVars,
                   worldVars>>

(* receive(RecoverStuckAthBurn)                                            *)
RecoverStuckAthBurn ==
    /\ phase = "PENDING_ATH_BURN"
    /\ age > BurnGrace
    /\ ath_burn_retry_due' = ath_burn_retry_due + pending_received_ath
    /\ FinishPendingCycle
    /\ UNCHANGED <<genesisVars, reserve_due, route_refund_due, countVars,
                   worldVars>>

(* receive(RecycleRouteRefundReserve): the caller may top it up            *)
RecycleRouteRefundReserve(topUp) ==
    /\ sealed /\ route_frozen
    /\ phase = "IDLE"
    /\ route_refund_due + topUp >= Envelope
    /\ route_refund_due' = (route_refund_due + topUp) - Envelope
    /\ reserve_due' = reserve_due + Envelope
    /\ ton' = ton + topUp
    /\ UNCHANGED <<genesisVars, cycleVars, ath_burn_retry_due, countVars, ath,
                   burnt, burn, arrivals, exchange>>

(* mutant: the refunds due survive the sweep                               *)
SweepKeepsRefundDue ==
    /\ sealed
    /\ phase = "IDLE"
    /\ armed > SweepGrace
    /\ ton > Floor
    /\ ton' = Floor
    /\ reserve_due' = 0
    /\ armed' = 0
    /\ UNCHANGED <<genesisVars, cycleVars, route_refund_due,
                   ath_burn_retry_due, accepted_reserve_count,
                   burned_ath_total, ath, burnt, burn, arrivals, exchange>>

(* receive(SweepStuckReserveToTreasury)                                    *)
SweepStuckReserveToTreasury ==
    /\ sealed
    /\ phase = "IDLE"
    /\ armed > SweepGrace
    /\ ton > Floor
    /\ ton' = Floor
    /\ reserve_due' = 0
    /\ route_refund_due' = 0
    /\ armed' = 0
    /\ UNCHANGED <<genesisVars, cycleVars, ath_burn_retry_due,
                   accepted_reserve_count, burned_ath_total, ath, burnt, burn,
                   arrivals, exchange>>

(* Time passes; a burn under way is answered for within BurnTransit        *)
BuybackTick ==
    /\ burn.stage # "none" => age < BurnTransit
    /\ age' = IF phase = "IDLE" \/ age = MaxAge THEN age ELSE age + 1
    /\ armed' = IF sealed /\ armed <= SweepGrace THEN armed + 1 ELSE armed
    /\ UNCHANGED <<genesisVars, phase, pending_query_id,
                   pending_route_refund_start, pending_received_ath,
                   last_terminal_query_id, dueVars, accepted_reserve_count,
                   burned_ath_total, worldVars>>

Cycle ==
    \/ AcceptBurnReserve
    \/ ExecuteBuybackChunk
    \/ RetryAthBurnDue
    \/ \E n \in arrivals, surplus \in 0..1 :
          BurnArrival(n, surplus) \/ RetryArrivalLater(n, surplus)
    \/ \E n \in arrivals : RefuseArrival(n)

Exchange ==
    \/ \E q \in 1..MaxQuery, a \in 1..MaxAth : ExchangePays(q, a)
    \/ \E value \in 1..exchange :
          RouteRefund(value) \/ PtonTransferBounce(value) \/ UnbookedTon(value)

Burn ==
    \/ WalletBurns \/ WalletRefuses \/ LoseRequest
    \/ MasterBurns \/ MasterRefuses
    \/ BurnFinalized \/ BurnFailed

Recover ==
    \/ RecoverStonfiRouteRefund
    \/ RecoverStuckStonfiSwap
    \/ RecoverStuckAthBurn
    \/ \E topUp \in 0..1 : RecycleRouteRefundReserve(topUp)
    \/ SweepStuckReserveToTreasury

BuybackNext ==
    FreezeRoute \/ Seal \/ Cycle \/ Exchange \/ Burn \/ Recover \/ BuybackTick

BuybackSpec == BuybackInit /\ [][BuybackNext]_buybackVars

-----------------------------------------------------------------------------
(* Every variable of BuybackBurn holds what its declared type allows.      *)
BuybackTypeOK ==
    /\ sealed \in BOOLEAN /\ route_frozen \in BOOLEAN
    /\ controller \in BOOLEAN
    /\ phase \in Phases
    /\ pending_query_id \in Nat /\ last_terminal_query_id \in Nat
    /\ pending_route_refund_start \in Nat
    /\ pending_received_ath \in Nat
    /\ age \in 0..MaxAge /\ armed \in 0..(SweepGrace + 1)
    /\ reserve_due \in Nat /\ route_refund_due \in Nat
    /\ ath_burn_retry_due \in Nat
    /\ accepted_reserve_count \in Nat /\ burned_ath_total \in Nat
    /\ ton \in Nat /\ exchange \in Nat
    /\ ath \in Nat /\ burnt \in Nat
    /\ burn \in [stage : Stages, qid : Nat, amount : Nat]
    /\ arrivals \subseteq [qid : Nat, amount : Nat]

(* The TON the books promise to spend, refunds to recycle included, is TON *)
(* the contract has: no cycle spends an envelope that is not there,        *)
(* whatever was refunded late, recycled or swept before.                   *)
TonBacked == ton >= reserve_due + route_refund_due

(* The ATH left to burn, and that of the burn under way until it leaves    *)
(* the wallet, is in the wallet: RecoverStuckAthBurn never promises ATH    *)
(* already burned, and a retry is never refused for want of ATH.           *)
InWallet == burn.stage \notin {"burning", "finalized"}
BurnBacked ==
    ath >= ath_burn_retry_due
             + (IF phase = "PENDING_ATH_BURN" /\ InWallet
                THEN pending_received_ath ELSE 0)

(* The books of the buyback are backed: what its handlers promise to spend *)
(* or to burn, in whatever order swaps, refunds, burns, recoveries and the *)
(* sweep come, is there.                                                   *)
BooksBacked == TonBacked /\ BurnBacked

(* The burn under way is that of the pending cycle: its answer never finds *)
(* another phase, query id or amount (22321..22323, 22331..22333,          *)
(* 22411..22413), and the total burned is what the master burned.          *)
BurnTracked ==
    /\ burn.stage # "none" => Pending(burn.qid, burn.amount)
    /\ burned_ath_total
         + (IF burn.stage = "finalized" THEN burn.amount ELSE 0) = burnt

(* A cycle starts with a query id that no notification under way carries:  *)
(* ATH an earlier swap brings late is never taken for that of the new one, *)
(* however the earlier one ended (requireNextQueryId, 22301).              *)
StartsWith(q) == phase = "IDLE" /\ phase' # "IDLE" /\ pending_query_id' = q
FreshCycleIds == [][\A n \in arrivals : ~StartsWith(n.qid)]_buybackVars

(* What the above rest on: the cycle under way has the id after the last   *)
(* that ended; a notification carries an id used already, and the one it   *)
(* is accepted for is in the wallet; a burn is younger than BurnTransit.   *)
NextQueryPending ==
    pending_query_id =
        IF phase = "IDLE" THEN 0 ELSE last_terminal_query_id + 1

ArrivalsBacked ==
    \A n \in arrivals :
        /\ n.qid <= AtLeast(pending_query_id, last_terminal_query_id)
        /\ Accepts(n) => ath >= ath_burn_retry_due + n.amount

BurnTimely == burn.stage # "none" => age <= BurnTransit

BuybackInv ==
    /\ BuybackTypeOK
    /\ NextQueryPending /\ ArrivalsBacked
    /\ TonBacked
    /\ BurnTimely /\ BurnTracked /\ BurnBacked

(* Every cycle ends, whatever the exchange does and even if the burn       *)
(* request is lost, as long as somebody asks for what is stuck.            *)
CyclesEnd == []<>(phase = "IDLE")

=============================================================================
