------------------------------ MODULE FeeVault ------------------------------
(***************************************************************************)
(* A FeeVault, its ATH wallet and its owner                                *)
(* (contracts18/contracts/FeeVault.tact, ATHWallet.tact).                  *)
(*                                                                         *)
(* ATH the owner sends to the vault's wallet counts as staked once the     *)
(* wallet's notification arrives, and discounts the fee of what the owner  *)
(* publishes through the vault.  Unstake asks the wallet for a transfer    *)
(* and waits for its outcome; EmergencyExit does not wait, and remembers   *)
(* as exited what a notification still on its way may claim.               *)
(*                                                                         *)
(* Abstractions.  Messages between the vault and its wallet keep their     *)
(* order (TON orders the messages of a pair of contracts) and take at most *)
(* MaxTransit; the others arrive in any order.  A handler may be refused   *)
(* for lack of TON, and a flush for lack of balance.  The fees of the      *)
(* publications on their way are kept as a total, so one that bounces      *)
(* returns any part of it.                                                 *)
(***************************************************************************)
EXTENDS Naturals, Sequences, Functions

CONSTANTS
    Funds,         \* ATH the owner starts with
    FeeFull,       \* FV_PROTOCOL_FEE
    Cap,           \* stake of the full discount, FV_BPS_CAP whole ATH
    Amort,         \* FV_FLUSH_AMORT
    FlushMin,      \* FV_FLUSH_MIN
    AbsorbWindow,  \* FV_EXIT_ABSORB_WINDOW
    UnjamGrace,    \* FV_UNSTAKE_UNJAM_GRACE_SECONDS
    MaxTransit,    \* bound on the time a message spends in flight
    Emergencies,   \* whether the owner unjams and exits in an emergency:
                   \* the answers to consider
    MaxTime,       \* bound of the model on the clock
    MaxSeq,        \* bound of the model on unstake_seq
    MaxFees        \* bound of the model on the fees ever booked

ASSUME VaultAssumption ==
    /\ {Funds, FeeFull, Amort, FlushMin, AbsorbWindow, UnjamGrace,
        MaxTransit, MaxTime, MaxSeq, MaxFees} \subseteq Nat
    /\ Cap \in Nat \ {0}
    /\ Emergencies \subseteq BOOLEAN

(* A deposit the wallet spends in an emergency exit was credited before    *)
(* the exit's request arrived, so its notification arrives within two      *)
(* transits of the exit: still in the window.                              *)
ASSUME WindowAssumption == 2 * MaxTransit <= AbsorbWindow

VARIABLES
    staked, pending, pending_at, unstake_seq, exited, exited_at,  \* FeeVault
    accrued_fee,
    balance, outgoing,   \* its ATH wallet: holdings and pending transfers
    toWallet, toVault,   \* messages between the two, oldest first
    excesses,            \* JettonExcesses the owner's wallet sent the vault
    purse,               \* the owner's ATH
    posting, landed,     \* fees of publications on their way, and arrived
    treasury,            \* fees the treasury received
    emergency,           \* whether emergencies happen: never changes
    now

stakeVars == <<staked, pending, pending_at, unstake_seq, exited, exited_at>>
walletVars == <<balance, outgoing, purse>>
netVars == <<toWallet, toVault, excesses>>
feeVars == <<accrued_fee, posting, landed, treasury>>
setting == <<now, emergency>>
vars == <<stakeVars, walletVars, netVars, feeVars, setting>>

-----------------------------------------------------------------------------
Init ==
    /\ staked = 0 /\ pending = 0 /\ pending_at = 0 /\ unstake_seq = 0
    /\ exited = 0 /\ exited_at = 0
    /\ balance = 0 /\ outgoing = {} /\ purse = Funds
    /\ toWallet = <<>> /\ toVault = <<>> /\ excesses = {}
    /\ accrued_fee = 0 /\ posting = 0 /\ landed = 0 /\ treasury = 0
    /\ now = 0
    /\ emergency \in Emergencies

(* ---- the wallet --------------------------------------------------------*)

Note(a) == [type |-> "note", amount |-> a, sent |-> now]
Refusal(q) == [type |-> "bounce", qid |-> q, sent |-> now]
Failure(q) == [type |-> "failed", qid |-> q, sent |-> now]
ToVault(m) == toVault' = Append(toVault, m)

(* ATHWallet receive(JettonInternalTransfer) from the owner's wallet, with *)
(* or without a notification for the vault                                 *)
Deposit(a, notified) ==
    /\ purse >= a
    /\ emergency \/ notified
    /\ purse' = purse - a
    /\ balance' = balance + a
    /\ IF notified THEN ToVault(Note(a))
                   ELSE UNCHANGED toVault
    /\ UNCHANGED <<stakeVars, feeVars, outgoing, toWallet, excesses, setting>>

(* ATHWallet receive(JettonTransfer) from the vault                        *)
JettonTransfer ==
    LET m == Head(toWallet) IN
    /\ toWallet # <<>>
    /\ balance >= m.amount
    /\ balance' = balance - m.amount
    /\ outgoing' = outgoing \cup
           {[qid |-> m.qid, amount |-> m.amount, unstake |-> m.unstake]}
    /\ toWallet' = Tail(toWallet)
    /\ UNCHANGED <<stakeVars, feeVars, purse, toVault, excesses, setting>>

(* it throws (14702: not that much there; 14704: too little value)         *)
RefuseJettonTransfer ==
    /\ toWallet # <<>>
    /\ toWallet' = Tail(toWallet)
    /\ ToVault(Refusal(Head(toWallet).qid))
    /\ UNCHANGED <<stakeVars, feeVars, walletVars, excesses, setting>>

(* the owner's wallet is credited; it answers the vault of an Unstake with *)
(* JettonExcesses, if enough value is left                                 *)
CreditOwner(t, answered) ==
    /\ answered => t.unstake
    /\ outgoing' = outgoing \ {t}
    /\ purse' = purse + t.amount
    /\ excesses' = IF answered THEN excesses \cup {t.qid} ELSE excesses
    /\ UNCHANGED <<stakeVars, feeVars, balance, toWallet, toVault, setting>>

(* the transfer bounces or is recovered: restore_bounced_outgoing and      *)
(* receive(ATHRecoverStuckOutgoing) tell the response destination          *)
TakeBack(t) ==
    /\ outgoing' = outgoing \ {t}
    /\ balance' = balance + t.amount
    /\ IF t.unstake THEN ToVault(Failure(t.qid))
                    ELSE UNCHANGED toVault
    /\ UNCHANGED <<stakeVars, feeVars, purse, toWallet, excesses, setting>>

-----------------------------------------------------------------------------
(* ---- the stake ---------------------------------------------------------*)

Arrives(type) == toVault # <<>> /\ Head(toVault).type = type

(* mutant: nothing exited is absorbed                                      *)
DebtIgnored == 0

(* what an emergency exit took before its deposit was notified             *)
Debt == IF now - exited_at <= AbsorbWindow THEN exited ELSE 0

(* receive(JettonTransferNotification)                                     *)
JettonTransferNotification ==
    LET amount == Head(toVault).amount IN
    /\ Arrives("note")
    /\ IF Debt >= amount
       THEN /\ exited' = exited - amount
            /\ UNCHANGED staked
       ELSE /\ staked' = staked + (amount - Debt)
            /\ exited' = 0
    /\ toVault' = Tail(toVault)
    /\ UNCHANGED <<pending, pending_at, unstake_seq, exited_at, walletVars,
                   toWallet, excesses, feeVars, setting>>

AskTransfer(a, unstake) ==
    toWallet' = Append(toWallet, [qid |-> unstake_seq + 1, amount |-> a,
                                  unstake |-> unstake, sent |-> now])

(* receive(Unstake)                                                        *)
Unstake(a) ==
    /\ unstake_seq < MaxSeq
    /\ pending = 0
    /\ a <= staked
    /\ staked' = staked - a
    /\ pending' = a
    /\ pending_at' = now
    /\ unstake_seq' = unstake_seq + 1
    /\ AskTransfer(a, TRUE)
    /\ UNCHANGED <<exited, exited_at, walletVars, toVault, excesses, feeVars,
                   setting>>

(* receive(JettonExcesses): the unstake arrived                            *)
JettonExcesses(q) ==
    /\ excesses' = excesses \ {q}
    /\ IF q = unstake_seq THEN pending' = 0 /\ pending_at' = 0
                          ELSE UNCHANGED <<pending, pending_at>>
    /\ UNCHANGED <<staked, unstake_seq, exited, exited_at, walletVars,
                   toWallet, toVault, feeVars, setting>>

(* mutant: the sequence number is not compared                             *)
LatestIgnored(q) == TRUE

(* only the outcome of the latest request counts                           *)
Latest(q) == q = unstake_seq

(* bounced(JettonTransfer): the wallet refused the request                 *)
BouncedJettonTransfer ==
    /\ Arrives("bounce")
    /\ IF ~Latest(Head(toVault).qid)
       THEN UNCHANGED stakeVars
       ELSE /\ IF pending > 0
               THEN /\ staked' = staked + pending
                    /\ pending' = 0
                    /\ pending_at' = 0
                    /\ UNCHANGED <<exited, exited_at>>
               ELSE /\ exited' = 0
                    /\ exited_at' = 0
                    /\ UNCHANGED <<staked, pending, pending_at>>
            /\ UNCHANGED unstake_seq
    /\ toVault' = Tail(toVault)
    /\ UNCHANGED <<walletVars, toWallet, excesses, feeVars, setting>>

(* mutant: what is pending is dropped                                      *)
TransferFailedForgets ==
    /\ Arrives("failed")
    /\ IF Latest(Head(toVault).qid)
       THEN pending' = 0 /\ pending_at' = 0
       ELSE UNCHANGED <<pending, pending_at>>
    /\ toVault' = Tail(toVault)
    /\ UNCHANGED <<staked, unstake_seq, exited, exited_at, walletVars,
                   toWallet, excesses, feeVars, setting>>

(* receive(ATHTransferFailed): the wallet took the transfer back           *)
TransferFailed ==
    /\ Arrives("failed")
    /\ IF Latest(Head(toVault).qid)
       THEN staked' = staked + pending /\ pending' = 0 /\ pending_at' = 0
       ELSE UNCHANGED <<staked, pending, pending_at>>
    /\ toVault' = Tail(toVault)
    /\ UNCHANGED <<unstake_seq, exited, exited_at, walletVars, toWallet,
                   excesses, feeVars, setting>>

(* receive(UnstakeUnjam)                                                   *)
UnstakeUnjam ==
    /\ emergency
    /\ pending > 0
    /\ now > pending_at + UnjamGrace
    /\ pending' = 0
    /\ pending_at' = 0
    /\ UNCHANGED <<staked, unstake_seq, exited, exited_at, walletVars, netVars,
                   feeVars, setting>>

(* receive(EmergencyExit): any amount, whatever is staked or pending       *)
EmergencyExit(a) ==
    /\ emergency
    /\ unstake_seq < MaxSeq
    /\ staked' = IF staked > a THEN staked - a ELSE 0
    /\ exited' = exited + a
    /\ exited_at' = now
    /\ pending' = 0
    /\ pending_at' = 0
    /\ unstake_seq' = unstake_seq + 1
    /\ AskTransfer(a, FALSE)
    /\ UNCHANGED <<walletVars, toVault, excesses, feeVars, setting>>

-----------------------------------------------------------------------------
(* ---- the fees ----------------------------------------------------------*)

(* feeDue and feeTake: a stake of Cap whole ATH pays nothing               *)
FeeDue ==
    (FeeFull * (Cap - (IF staked > Cap THEN Cap ELSE staked))) \div Cap
FeeTake == IF FeeDue > 0 THEN FeeDue + Amort ELSE 0

(* receive(PublishViaVault): book the fee, forward the publication, flush  *)
(* what was booked before if it is worth it and the balance allows it      *)
PublishViaVault(flushed) ==
    /\ treasury + accrued_fee + FeeTake <= MaxFees
    /\ flushed => accrued_fee >= FlushMin
    /\ accrued_fee' = IF flushed THEN FeeTake ELSE accrued_fee + FeeTake
    /\ treasury' = IF flushed THEN treasury + accrued_fee ELSE treasury
    /\ posting' = posting + FeeTake
    /\ UNCHANGED <<landed, stakeVars, walletVars, netVars, setting>>

(* the shard accepts the publication                                       *)
PublicationLands(fee) ==
    /\ fee <= posting
    /\ posting' = posting - fee
    /\ landed' = landed + fee
    /\ UNCHANGED <<accrued_fee, treasury, stakeVars, walletVars, netVars, setting>>

(* mutant: everything booked is taken back, not only this fee              *)
BouncedVaultPublishAll(fee) ==
    /\ fee <= posting
    /\ posting' = posting - fee
    /\ accrued_fee' = 0
    /\ UNCHANGED <<landed, treasury, stakeVars, walletVars, netVars, setting>>

(* bounced(VaultPublish): the shard refused it; the fee may be flushed     *)
BouncedVaultPublish(fee) ==
    /\ fee <= posting
    /\ posting' = posting - fee
    /\ accrued_fee' = IF accrued_fee > fee THEN accrued_fee - fee ELSE 0
    /\ UNCHANGED <<landed, treasury, stakeVars, walletVars, netVars, setting>>

(* receive(FlushFees): the owner whenever something is booked, others from *)
(* FlushMin on                                                             *)
FlushFees ==
    /\ accrued_fee > 0
    /\ treasury' = treasury + accrued_fee
    /\ accrued_fee' = 0
    /\ UNCHANGED <<posting, landed, stakeVars, walletVars, netVars, setting>>

Elements(queue) == {queue[i] : i \in DOMAIN queue}
InTransit == Elements(toWallet) \cup Elements(toVault)

(* Time passes, but never beyond the transit bound of a message            *)
Tick ==
    /\ now < MaxTime
    /\ \A m \in InTransit : now < m.sent + MaxTransit
    /\ now' = now + 1
    /\ UNCHANGED <<stakeVars, walletVars, netVars, feeVars, emergency>>

Wallet ==
    \/ \E a \in 1..Funds, notified \in BOOLEAN : Deposit(a, notified)
    \/ JettonTransfer
    \/ RefuseJettonTransfer
    \/ \E t \in outgoing :
          TakeBack(t) \/ \E answered \in BOOLEAN : CreditOwner(t, answered)

Stake ==
    \/ JettonTransferNotification
    \/ BouncedJettonTransfer
    \/ TransferFailed
    \/ UnstakeUnjam
    \/ \E a \in 1..Funds : Unstake(a) \/ EmergencyExit(a)
    \/ \E q \in excesses : JettonExcesses(q)

Fees ==
    \/ \E flushed \in BOOLEAN : PublishViaVault(flushed)
    \/ \E fee \in 1..MaxFees : PublicationLands(fee) \/ BouncedVaultPublish(fee)
    \/ FlushFees

Next == Wallet \/ Stake \/ Fees \/ Tick

Spec == Init /\ [][Next]_vars

-----------------------------------------------------------------------------
Queries == 1..MaxSeq

(* The outcome of the latest request is on its way back to the vault       *)
Returning ==
    \E m \in Elements(toVault) :
        m.type \in {"bounce", "failed"} /\ m.qid = unstake_seq

(* The stake that discounts fees, with what a refused unstake is about to  *)
(* give back to it, is ATH the vault's wallet really holds: no exit,       *)
(* refusal, recovery or late notification leaves a discount behind that    *)
(* nothing backs.                                                          *)
StakeBacked == staked + (IF Returning THEN pending ELSE 0) <= balance

(* Without emergencies nothing deposited is forgotten either: stake, what  *)
(* is pending with its outcome open, and the notifications on their way    *)
(* are what the wallet holds or has in its pending transfers.              *)
Open ==
    \/ Returning
    \/ \E m \in Elements(toWallet) : m.qid = unstake_seq
    \/ \E t \in outgoing : t.qid = unstake_seq
NoteAmount(m) == IF m.type = "note" THEN m.amount ELSE 0
NotesInTransit ==
    SumFunction([i \in DOMAIN toVault |-> NoteAmount(toVault[i])])
StakeExact ==
    ~emergency =>
        staked + NotesInTransit + (IF Open THEN pending ELSE 0)
            = balance + SumFunction([t \in outgoing |-> t.amount])

(* What discounts fees is backed, and nothing deposited is forgotten.      *)
StakeKept == StakeBacked /\ StakeExact

(* The fee of every publication that landed or still may is booked or with *)
(* the treasury: one that bounces after its fee was flushed takes no more  *)
(* back than is booked, and never what the treasury is owed for the rest.  *)
FeesCovered == treasury + accrued_fee >= landed + posting

(* The vault owes nobody what it has not: neither the depositor, whatever  *)
(* its wallet answers and when, nor the treasury.                          *)
VaultBacked == StakeKept /\ FeesCovered

=============================================================================
