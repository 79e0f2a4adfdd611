------------------------ MODULE MC_ModerationLedger ------------------------
(* ModerationLedger on a small instance: three roots and one more wallet.  *)
EXTENDS ModerationLedger, TLC

CONSTANTS w1, w2, w3, w4

ThreeWallets == {w1, w2, w3}
FourWallets == ThreeWallets \cup {w4}

(* the first roots are interchangeable                                     *)
Interchangeable == Permutations(ThreeWallets)

=============================================================================
