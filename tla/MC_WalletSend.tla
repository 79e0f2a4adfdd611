---------------------------- MODULE MC_WalletSend ----------------------------
(* WalletSend on a small instance with interchangeable messages.           *)
EXTENDS WalletSend, TLC

Interchangeable == Permutations(Messages)

=============================================================================
