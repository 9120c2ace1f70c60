--------------------------- MODULE MC_FileServer ---------------------------
(* Instances of FileServer for TLC. *)
EXTENDS FileServer, TLC

CONSTANTS x, y

ThreeIds == {40, 50, 60}
TwoIds   == {40, 50}
TwoSettings == {x, y}
OneSetting  == {x}
SettingsAreAlike == Permutations(TwoSettings)
OneFile    == {{"alarm"}, {"alert"}}
AlarmsOnly == {{"alarm"}}
AlertsOnly == {{"alert"}}
Either   == {TRUE, FALSE}
=============================================================================
