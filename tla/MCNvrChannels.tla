--------------------------- MODULE MCNvrChannels ---------------------------
EXTENDS NvrChannels, TLC

MCEnvAddr == [c \in Chans |-> IF c = 0 THEN <<1, 11>> ELSE NoAddr]
MCEnabled == {0}
MCCamAddr == {<<1, 11>>}
Symmetry == Permutations(Devices)
=============================================================================
