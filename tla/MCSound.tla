------------------------------ MODULE MCSound -------------------------------
(* An instance of SoundService for TLC: two channels, pages of two bytes,    *)
(* halves of four pages.  The second drum and the last segment do not fit.   *)
EXTENDS SoundService
MCInc == [s \in 0..2 |-> [m \in 0..7 |->
            (<<<<2, 6, 10, 14, 18, 22, 26, 30>>, <<2, 6, 10, 14, 19, 23, 27, 31>>,
               <<2, 7, 11, 16, 21, 26, 30, 35>>>>)[s + 1][m + 1]]]
MCWav == [v \in Ch |-> IF v = 0 THEN <<300, -200, 480, 90, -640, 20>>
                       ELSE <<-100, 350, 720, 16, 900, -320, 410, 70, 3, 5>>]
MCWavRate == [v \in Ch |-> IF v = 0 THEN 22050 ELSE 11025]
MCBin == <<1, 2, 3, 4, 5, 6, 7, 8, 9>>
MCBinPair == [v \in Ch |-> <<v, 5>>]
MCKit == <<<<100, 200>>, <<-400, 500>>, <<600, -700, 160, 90, 330, 40>>, <<>>, <<400, -100>>>>
MCStarts == {{0, 1}, {BinSlot}}
MCLate == {KitSlot}
=============================================================================
