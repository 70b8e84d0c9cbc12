------------------------------ MODULE MCDongle ------------------------------
(* Dongle for TLC: the kinds of traffic the runs choose from, and symmetry. *)
EXTENDS Dongle, TLC

ClientTraffic  == {"associate", "announce", "input", "disassociate", "lost"}
AllTraffic     == ClientTraffic \cup {"retry", "reannounce", "pair", "button"}
PairingTraffic == {"pair", "button"}

\* The gamepads are interchangeable.
Symmetry == Permutations(Client)
=============================================================================
