--------------------------- MODULE MCDitdahDecoder ---------------------------
(* Small stations for the dit/dah decoder.                                 *)
EXTENDS DitdahDecoder

MCKeywords == {<<"C", "Q">>, <<"K">>}
MCTexts    == {<<"K", "1", "A", Space, "E">>, <<"C", "Q", Space, "E", "5", "E">>,
               <<"E", "T", Space, "I">>}
MCNoise    == {<<FALSE, FALSE>>, <<FALSE, TRUE, TRUE, FALSE>>}

CONSTANTS s1, s2
MCStations == {s1, s2}

\* the stations differ in what they key only, and that is chosen for each
StationsAlike == Permutations(MCStations)
===============================================================================
