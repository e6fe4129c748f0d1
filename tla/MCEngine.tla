------------------------------ MODULE MCEngine ------------------------------
(* Small instances of Engine: two bands, a few band lists.                 *)
EXTENDS Engine

CONSTANTS b1, b2

Band(n, on) == [name |-> n, enabled |-> on]

MCBands == {b1, b2}

\* One list sweeps both bands; another has dropped or disabled a band
MCBothBands == {<<Band(b1, TRUE), Band(b2, TRUE)>>}
MCDroppedBand == MCBothBands \cup {<<Band(b2, TRUE)>>}
MCDisabledBand == {<<Band(b1, TRUE), Band(b2, FALSE)>>}
=============================================================================
