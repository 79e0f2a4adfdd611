---------------------------- MODULE MC_GroupRoom ----------------------------
(* Instances of GroupRoom for TLC: two admins, three people, and scenes in *)
(* which what the admins write crosses.                                    *)
EXTENDS GroupRoom, TLC

CONSTANTS own, adm, ann, bob, cyd

TwoAdmins == {own, adm}
ThreePeople == {ann, bob, cyd}
TwoPeople == {ann, bob}
JustAnn == {ann}

Cuts(admin, who) == <<admin, "remove", who, TRUE>>
Removes(admin, who) == <<admin, "remove", who, FALSE>>
Admits(admin, who) == <<admin, "admit", who, FALSE>>

Scene(wishes, losses, failures, restarts) ==
    [wishes |-> wishes, losses |-> losses,
     failures |-> failures, restarts |-> restarts]

(* each admin cuts the other's friend off: two claims on one generation    *)
Rivals(losses, failures, restarts) ==
    Scene({Cuts(own, ann), Cuts(adm, bob)}, losses, failures, restarts)

(* the rivals' removals, of which one follows another row of its admin     *)
Follows == Scene({Cuts(own, ann), Admits(adm, cyd), Cuts(adm, bob)}, 0, 0, 0)

Crossings ==
    { Rivals(0, 0, 2), Rivals(1, 1, 1),
      \* one admin cuts two off and takes one of them back
      Scene({Cuts(own, ann), Cuts(own, bob), Admits(own, ann)}, 0, 0, 1),
      Scene({Cuts(own, ann), Cuts(own, bob), Admits(own, ann)}, 1, 1, 0),
      \* one cuts off, the other takes back, or admits somebody else
      Scene({Cuts(own, ann), Admits(adm, ann)}, 1, 1, 1),
      Scene({Cuts(own, ann), Admits(adm, cyd)}, 1, 1, 1),
      \* a removal during a pass, which then reads a later admission
      Scene({Removes(own, ann), Admits(adm, cyd), Admits(adm, ann)}, 0, 0, 0),
      Follows }

SettledFirst == {Follows}

(* one admits somebody, the other removes them, the first admits another   *)
Returns ==
    {Scene({Admits(adm, cyd), Removes(own, cyd), Admits(adm, bob)}, 0, 0, 0)}

=============================================================================
