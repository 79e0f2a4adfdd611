----------------------------- MODULE ATHLedger -----------------------------
(***************************************************************************)
(* What the ATH token promises its holders, without wallets or messages: a *)
(* payment leaves the payer's holding into escrow in one step, and in one  *)
(* later step either reaches the payee or returns to the payer, never both *)
(* and never twice; the supply is issued once, and shrinks by what is      *)
(* burned.  ATHToken (ATHWallet.tact, ATHMaster.tact) implements it.       *)
(***************************************************************************)
EXTENDS Naturals

CONSTANTS
    Owners, Treasury, Supply,
    Ids,                 \* identifiers of payments, reusable once settled
    BurnsMayVanish       \* whether a burn can be lost on its way

VARIABLES
    supply, issued,      \* what exists, and whether it was handed out
    holding,             \* of each owner
    escrow,              \* the payments debited and not yet settled
    burning,             \* of each owner, given up and not yet destroyed
    vanished             \* given up, and never destroyed

vars == <<supply, issued, holding, escrow, burning, vanished>>

Amounts == 1..Supply
Payments == [src : Owners, dst : Owners, qid : Ids, amount : Amounts]

Init ==
    /\ supply = Supply
    /\ issued = FALSE
    /\ holding = [o \in Owners |-> 0]
    /\ escrow = {}
    /\ burning = [o \in Owners |-> 0]
    /\ vanished = 0

Issue ==
    /\ ~issued
    /\ issued' = TRUE
    /\ holding' = [holding EXCEPT ![Treasury] = @ + supply]
    /\ UNCHANGED <<supply, escrow, burning, vanished>>

Debit(p) ==
    /\ holding[p.src] >= p.amount
    /\ \A x \in escrow : <<x.src, x.dst, x.qid>> # <<p.src, p.dst, p.qid>>
    /\ holding' = [holding EXCEPT ![p.src] = @ - p.amount]
    /\ escrow' = escrow \cup {p}
    /\ UNCHANGED <<supply, issued, burning, vanished>>

(* a payment settles: its amount reaches one of the two parties            *)
Settle(p, o) ==
    /\ o \in {p.src, p.dst}
    /\ escrow' = escrow \ {p}
    /\ holding' = [holding EXCEPT ![o] = @ + p.amount]
    /\ UNCHANGED <<supply, issued, burning, vanished>>

GiveUp(o, a) ==
    /\ holding[o] >= a
    /\ holding' = [holding EXCEPT ![o] = @ - a]
    /\ burning' = [burning EXCEPT ![o] = @ + a]
    /\ UNCHANGED <<supply, issued, escrow, vanished>>

TakeBack(o, a) ==
    /\ burning[o] >= a
    /\ burning' = [burning EXCEPT ![o] = @ - a]
    /\ holding' = [holding EXCEPT ![o] = @ + a]
    /\ UNCHANGED <<supply, issued, escrow, vanished>>

Destroy(o, a) ==
    /\ burning[o] >= a
    /\ burning' = [burning EXCEPT ![o] = @ - a]
    /\ \/ supply' = supply - a /\ UNCHANGED vanished
       \/ BurnsMayVanish /\ vanished' = vanished + a /\ UNCHANGED supply
    /\ UNCHANGED <<issued, holding, escrow>>

Next ==
    \/ Issue
    \/ \E p \in Payments : Debit(p)
    \/ \E p \in escrow, o \in Owners : Settle(p, o)
    \/ \E o \in Owners, a \in Amounts :
          GiveUp(o, a) \/ TakeBack(o, a) \/ Destroy(o, a)

Spec == Init /\ [][Next]_vars

=============================================================================
