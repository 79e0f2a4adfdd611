---------------------------- MODULE MC_IntroLane ----------------------------
(* Small instances of IntroLane for TLC.                                   *)
EXTENDS IntroLane, TLC

CONSTANTS n1, n2, w1, w2

(* the second introduction opens from the second build on                  *)
OneLater == n1 :> 1 @@ n2 :> 2

(* one window that is updated on the way, and two up to date               *)
MCScenes == {[windows |-> {w1}, build |-> 1, faults |-> 3],
             [windows |-> {w1, w2}, build |-> 2, faults |-> 1]}

=============================================================================
