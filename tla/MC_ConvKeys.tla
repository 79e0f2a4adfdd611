---------------------------- MODULE MC_ConvKeys ----------------------------
(* Small instances of ConvKeys for TLC.                                    *)
EXTENDS ConvKeys, TLC

CONSTANTS w1, w2

Windows == Permutations(Stores)

(* the second INTRO before the first, and a later copy of it               *)
TwoIntros == {<<1, 2>>, <<2, 1>>, <<2, 3>>}
EachOnce == {<<1, 1>>, <<2, 2>>}
(* made by a device that read only the later copy                          *)
OneBackup == {<<2, 3>>}
NoBackups == {}

=============================================================================
