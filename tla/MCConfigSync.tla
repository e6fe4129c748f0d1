----------------------------- MODULE MCConfigSync -----------------------------
(* Small instances of ConfigSync: edges in units of 100 kHz, so one MHz is 10, and
one of them is not whole;
the HTTP client puts one list, MQTT commands either. *)
EXTENDS ConfigSync

MCBand(n, lo, hi) == [name |-> n, lo |-> lo, hi |-> hi]

\* one band, and two bands: the lists differ in length
MCFirst   == <<MCBand("UHF", 4700, 6360)>>
MCTwo     == <<MCBand("UHF", 4700, 6085), MCBand("DECT", 19200, 19300)>>
MCDefault == <<MCBand("VHF", 1740, 2160)>>

MCLists == {MCFirst, MCTwo}
MCTwoOnly == {MCTwo}
=============================================================================
