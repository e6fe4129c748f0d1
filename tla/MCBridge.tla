------------------------------ MODULE MCBridge ------------------------------
EXTENDS Bridge, TLC
CONSTANTS uhf, vhf, low, high

\* Two bands, of which the second configuration moves one and drops the other
MCFirst  == (uhf :> low) @@ (vhf :> low)
MCSecond == uhf :> high
MCLayouts == {MCFirst, MCSecond}
=============================================================================
