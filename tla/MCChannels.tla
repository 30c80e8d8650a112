------------------------------ MODULE MCChannels -------------------------------
(* Decoders for TLC: the spectra, the columns and the copies of the instance, *)
(* which are functions and sequences; its numbers are in the cfg file.        *)
EXTENDS Decoders

\* a spectrum with the given peaks over silence
Band(peaks) == [t \in 0 .. 10 |-> IF t \in DOMAIN peaks THEN peaks[t] ELSE 0]

\* silence, one station, two far apart, and a carrier on DC beside two that are
\* within one another's bucket and search range
AllSpectra == {Band([t \in T |-> IF t = 5 THEN 4 ELSE 3]) : T \in {{}, {3}, {3, 8}, {1, 3, 5}}}

\* an IQ stream, real audio, and a switch to it while the block is searched
AllModes == {Iq, [single |-> TRUE, signals |-> TRUE, more |-> TRUE],
             [single |-> FALSE, signals |-> FALSE, more |-> TRUE]}

\* columns of the waterfall, over two and over three slices: equally loud
\* signals, and signals of which the higher one is the louder
Flat(n, T)   == [b \in 0 .. n - 1 |-> IF b \in T THEN 4 ELSE 0]
Rising(n, T) == [b \in 0 .. n - 1 |-> IF b \in T THEN b ELSE 0]
AllColumns   == {Flat(12, T) : T \in {{}, {2}, {3}, {2, 5}}}
                \cup {Rising(12, T) : T \in {{2, 5}, {3, 5}, {3, 8}}}
                \cup {Flat(18, T) : T \in {{}, {4, 10}}}

OneCopy == {<<0>>}
===============================================================================
