---------------------------- MODULE MC_ATHToken ----------------------------
(* A small instance of ATHToken for TLC.  Its behaviours are of two kinds. *)
(* Where nothing is lost, every lane is used and the whole supply moves at *)
(* once, which keeps every interleaving of a payment, its notification,    *)
(* its refund and their answers; where messages may vanish, the supply is  *)
(* divided, and only plain transfers are made.                             *)
EXTENDS ATHToken, TLC

CONSTANTS treasury, alice, q1

VARIABLE lossless

Vanish ==
    \/ \E m \in net : LoseTransfer(m)
    \/ \E o \in Owners, a \in Amounts : LoseBurn(o, a)

Starts ==
    \/ \E s, r \in Owners, q \in QueryIds, a \in Amounts, lane \in Lanes :
          TransferRequest(s, r, q, a, lane)
    \/ \E o \in Owners, a \in Amounts : Burn(o, a)

Undivided(amounts) == \A o \in Owners : amounts[o] \in {0, Supply}

Kind ==
    IF lossless
    THEN /\ ~Vanish
         /\ net # {} => ~Starts
         /\ Undivided(balance') /\ Undivided(burning')
    ELSE \A m \in net' : m.type = "transfer" => m.lane = "plain"

MCInit == Init /\ lossless \in BOOLEAN

MCSpec ==
    /\ MCInit
    /\ [][Next /\ Kind /\ UNCHANGED lossless]_<<vars, lossless>>
    /\ \A s, r \in Owners, q \in AllQueryIds : WF_vars(SettleOf(s, q, r))

(* Every debit is settled in the end where nothing is lost: no amount      *)
(* stays out of every balance (send_source_wallet_ack and the bounces).    *)
Settled == lossless => DebitsSettle

=============================================================================
