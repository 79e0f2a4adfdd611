----------------------------- MODULE AthPayout -----------------------------
(***************************************************************************)
(* A contract that pays ATH out of a wallet of its own, one transfer at a  *)
(* time, as MarketStabilitySeller and ATHVesting do: it asks its wallet    *)
(* (contracts18/contracts/ATHWallet.tact, receive(ATHTransferRequest)) and *)
(* stays in its pending phase until it hears of that transfer.             *)
(*                                                                         *)
(* Abstractions.  The recipient's wallet is credited and answers in one    *)
(* step.  The wallet takes a transfer back when it bounces, or when        *)
(* anybody recovers it as stuck; that this never happens to one that was   *)
(* credited is a property of ATHToken.  Only the acknowledgement, which is *)
(* the last message of the exchange, may be lost.                          *)
(***************************************************************************)
EXTENDS Naturals, FiniteSets

CONSTANT MaxPayouts   \* bound of the model on the query ids

ASSUME PayoutAssumption == MaxPayouts \in Nat

VARIABLES
    payout,      \* the transfer waited for: pending_*, and the phase
    last_id,     \* last_terminal_query_id
    held,        \* ATH in the wallet of the contract
    mail,        \* messages between the contract and the wallets
    moving,      \* transfers that left the wallet and may still come back
    delivered,   \* transfers that arrived
    lossless     \* whether no acknowledgement is lost: never changes

payoutVars == <<payout, last_id, held, mail, moving, delivered, lossless>>

NoPayout == [id |-> 0]
Idle == payout = NoPayout

PayoutInit(stock) ==
    /\ payout = NoPayout
    /\ last_id = 0
    /\ held = stock
    /\ mail = {}
    /\ moving = {}
    /\ delivered = {}
    /\ lossless \in BOOLEAN

Message(type, p) == [type |-> type, id |-> p.id, amount |-> p.amount]
Mail(type) == {m \in mail : m.type = type}

-----------------------------------------------------------------------------
(* ---- the contract ------------------------------------------------------*)

(* the end of the two handlers that begin a payout                         *)
Ask(p) ==
    /\ Idle
    /\ payout' = p
    /\ mail' = mail \cup {Message("request", p)}
    /\ UNCHANGED <<last_id, held, moving, delivered, lossless>>

(* the guards of every handler that hears of a transfer                    *)
Answers(m) == ~Idle /\ m.id = payout.id /\ m.amount = payout.amount

(* clearPending and recordTerminalQuery                                    *)
Close(m) ==
    /\ payout' = NoPayout
    /\ last_id' = payout.id
    /\ mail' = mail \ {m}
    /\ UNCHANGED <<held, moving, delivered, lossless>>

-----------------------------------------------------------------------------
(* ---- the wallets -------------------------------------------------------*)

(* receive(ATHTransferRequest)                                             *)
TransferRequest(m) ==
    /\ held >= m.amount
    /\ held' = held - m.amount
    /\ moving' = moving \cup {[id |-> m.id, amount |-> m.amount]}
    /\ mail' = mail \ {m}
    /\ UNCHANGED <<payout, last_id, delivered, lossless>>

(* it throws: not enough there (14203), or too little value (14204)        *)
RefuseTransferRequest(m) ==
    /\ mail' = (mail \ {m}) \cup {Message("bounced", m)}
    /\ UNCHANGED <<payout, last_id, held, moving, delivered, lossless>>

(* receive(ATHInternalTransfer) of the recipient's wallet                  *)
Deliver(t) ==
    /\ moving' = moving \ {t}
    /\ delivered' = delivered \cup {t}
    /\ mail' = mail \cup {Message("ack", t)}
    /\ UNCHANGED <<payout, last_id, held, lossless>>

(* restore_bounced_outgoing, receive(ATHRecoverStuckOutgoing)              *)
TakeBackPayout(t) ==
    /\ moving' = moving \ {t}
    /\ held' = held + t.amount
    /\ mail' = mail \cup {Message("failed", t)}
    /\ UNCHANGED <<payout, last_id, delivered, lossless>>

(* the acknowledgement is not sent, or fails where it arrives              *)
LoseAck(m) ==
    /\ ~lossless
    /\ mail' = mail \ {m}
    /\ UNCHANGED <<payout, last_id, held, moving, delivered, lossless>>

WalletsMove ==
    \/ \E m \in Mail("request") :
          TransferRequest(m) \/ RefuseTransferRequest(m)
    \/ \E t \in moving : Deliver(t) \/ TakeBackPayout(t)
    \/ \E m \in Mail("ack") : LoseAck(m)

=============================================================================
