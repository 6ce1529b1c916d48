----------------------------- MODULE MCSettings -----------------------------
(* Instances of SettingsStore for TLC.                                      *)
EXTENDS SettingsStore

MCDefaults == [f \in Field |-> 1]

\* A window an older firmware left: no table here, yet a word pair that would
\* read as the profile of some disk.
MCResidues ==
    { [Blank EXCEPT ![1][0] = Hash(d), ![1][1] = NotHash(d)] : d \in Disk }
=============================================================================
