---- MODULE MCTextModeFlow ----
(* Instances of TextModeFlow, and with it of LoginMediator, for TLC. *)
EXTENDS TextModeFlow, TLC

CONSTANTS w1, w2, c1, c2, c3

\* Two worlds, the second reached over two addresses, and characters on each.
MCAddresses == w1 :> 1 @@ w2 :> 2
MCWorldOf == c1 :> w1 @@ c2 :> w2 @@ c3 :> w1

\* The second world is closed to the user, and so is one of the characters.
MCOpen == {w1}
MCPlayable == {c1, c2}
====
