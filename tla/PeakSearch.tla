------------------------------ MODULE PeakSearch ------------------------------
(* The search of the detection loop for stations in the spectrum of a block: *)
(* its peaks (src/cw-skimmer/src/audio_processor.c), their refinement, and   *)
(* the candidates for a decode channel they are merged into                  *)
(* (src/cw-skimmer/src/cwskimmer_api.c).  What is computed here depends on   *)
(* the spectrum and the settings alone; ChannelPool uses it.                 *)
(*                                                                           *)
(* A spectrum is a function of its bins, s[t] the power of bin t above the   *)
(* noise floor; interpolation between bins is left out.  Tones 80 Hz apart   *)
(* are the same bin.  Of real audio the spectrum is single-sided: the search *)
(* for peaks counts from bin 0 then, but their refinement from the middle,   *)
(* so that a station is looked for in another place.                         *)
EXTENDS Integers, Sequences, FiniteSets, FiniteSetsExt

CONSTANTS MAX_DECODE_CHANNELS,  \* channels in the pool
          MAX_SIGNALS,          \* peaks one search returns
          NumBins,              \* bins of the spectrum, of IQ
          DcGuard, LowGuard,    \* no peak is looked for that close to DC, in IQ
                                \* and in real audio
          Spectra,              \* the spectra a block may have
          Modes,                \* how a block may be searched, see EveryMode
          SearchRange,          \* TONE_SEARCH_RANGE_HZ, in bins
          SearchMin,            \* the fewest bins searched to each side: 3
          NoiseBins,            \* bins beyond the range that are averaged: 6
          Buckets,              \* the values of decode_bucket_hz, in bins
          MinSnr,               \* decode_min_snr_db, less the 1 dB allowed
          WorstSnr,             \* the 3 dB a refined peak has at least
          NoPeakSnr,            \* the 6 dB of a tone no peak is found for
          RateRatio             \* sample_rate / the spectrum's: 1, or narrow

Bins == 0 .. NumBins - 1
Dc   == NumBins \div 2    \* 0 Hz: a tone is Dc plus its offset

Candidate == [tone : Int, snr : Nat]

(* A live switch of the stream may fall within a block.  Was it real audio    *)
(* when the spectrum was computed, when the signals were looked for, and when *)
(* more candidates were?                                                      *)
EveryMode == [single : BOOLEAN, signals : BOOLEAN, more : BOOLEAN]

\* an IQ stream, which was not switched
Iq == [single |-> FALSE, signals |-> FALSE, more |-> FALSE]

SearchAssumption ==
    /\ MAX_DECODE_CHANNELS \in Nat \ {0} /\ MAX_SIGNALS \in Nat \ {0}
    /\ NumBins \in Nat \ 0 .. 5 /\ {SearchRange, SearchMin} \subseteq Nat
    /\ NoiseBins \in Nat \ {0} /\ {DcGuard, LowGuard} \subseteq Nat
    /\ RateRatio \in Nat \ {0} /\ {MinSnr, WorstSnr, NoPeakSnr} \subseteq Nat
    /\ RateRatio = 1 => 2 * Max({SearchMin, SearchRange}) + 1 < NumBins
    /\ Buckets \subseteq Nat /\ Spectra \subseteq [Bins -> Nat]
    /\ Modes \subseteq EveryMode

-------------------------------------------------------------------------------
(* Peaks.                                                                    *)
Distance(a, b) == IF a < b THEN b - a ELSE a - b

\* the spectrum of real audio has half as many bins, of the same width
Width(single) == IF single THEN NumBins \div 2 ELSE NumBins

LocalPeak(s, n, t) == /\ t > 0 /\ t < n - 1
                      /\ s[t] > s[t - 1] /\ s[t] >= s[t + 1]

\* the bin from which the search counts, and the bins around it left out
Zero(single, real) == IF real THEN 0 ELSE Width(single) \div 2

Guarded(single, real) ==
    {t \in Bins : Distance(t, Zero(single, real)) <= IF real THEN LowGuard ELSE DcGuard}

ToneOf(single, real, b) == Dc + (b - Zero(single, real))

\* audio_processor_find_peaks: the first max peaks from the lowest frequency
\* up, whatever their strength
FindPeaks(s, single, real, floor, max) ==
    LET isPeak(t) == /\ t \notin Guarded(single, real)
                     /\ LocalPeak(s, Width(single), t) /\ s[t] >= floor
        upto[t \in 0 .. NumBins - 1] ==
            IF t = 0 THEN <<>>
            ELSE IF isPeak(t) /\ Len(upto[t - 1]) < max THEN Append(upto[t - 1], t)
            ELSE upto[t - 1]
    IN  upto[NumBins - 1]

\* the mean power of NoiseBins bins below lo and as many above hi
Noise(s, n, lo, hi) ==
    LET power(b) == IF b \in 0 .. n - 1 THEN s[b] ELSE 0
        sum[k \in 0 .. NoiseBins] ==
            IF k = 0 THEN 0 ELSE sum[k - 1] + (power(lo - k) + power(hi + k))
        outside == {b \in 0 .. n - 1 : \/ b \in lo - NoiseBins .. lo - 1
                                       \/ b \in hi + 1 .. hi + NoiseBins}
    IN  IF outside = {} THEN s[Max({n \div 2 - 1, 0})]
        ELSE sum[NoiseBins] \div Cardinality(outside)

\* lroundf(d / r)
Rounded(d, r) == IF d < 0 THEN -((r \div 2 - d) \div r) ELSE (d + r \div 2) \div r

(* cwskimmer_refine_tone_from_spectrum: the strongest peak within the search *)
(* range, DC included, and its strength over the noise outside.  A tone is   *)
(* counted from the middle of the bins and a bin taken for r times its       *)
(* width, which is right only of IQ with ratio 1; with no peak in range the  *)
(* tone stays and is credited with NoPeakSnr.                                *)
Refine(s, single, t, ratio) ==
    LET n     == Width(single)
        mid   == n \div 2
        r     == IF single THEN 2 * ratio ELSE ratio
        bin   == mid + Rounded(t - Dc, r)
        range == Max({SearchMin, Rounded(SearchRange, r)})
        peaks == {b \in Bins : Distance(b, bin) <= range /\ LocalPeak(s, n, b)}
        best  == CHOOSE b \in peaks : \A o \in peaks \ {b} :
                     s[b] > s[o] \/ (s[b] = s[o] /\ b < o)
        over  == s[best] - Noise(s, n, bin - range, bin + range)
    IN  IF peaks = {} THEN [tone |-> t, snr |-> NoPeakSnr]
        ELSE [tone |-> Dc + (best - mid) * r, snr |-> Max({WorstSnr, over})]

\* the detection loop's signals, which drive the yellow markers: refined
\* peaks, one per tone, with the best strength any peak gave it
AddSignal(list, r) ==
    LET same == {k \in DOMAIN list : list[k].tone = r.tone}
    IN  IF same = {} THEN Append(list, r)
        ELSE [list EXCEPT ![Min(same)].snr = Max({@, r.snr})]

Signals(s, m) ==
    LET peaks == FindPeaks(s, m.single, m.signals, MinSnr, MAX_SIGNALS)
        tone(k) == ToneOf(m.single, m.signals, peaks[k])
        upto[k \in 0 .. Len(peaks)] ==
            IF k = 0 THEN <<>>
            ELSE AddSignal(upto[k - 1], Refine(s, m.single, tone(k), 1))
    IN  upto[Len(peaks)]

-------------------------------------------------------------------------------

(* Candidates.                                                               *)
SameBucket(anchor, t, width) == Distance(anchor, t) <= width

\* mutant: a peak that is found twice is two candidates
AddAlways(list, width, tone, snr) ==
    IF Len(list) >= MAX_DECODE_CHANNELS THEN list
    ELSE Append(list, [tone |-> tone, snr |-> snr])

\* cwskimmer_add_decode_candidate: a bucket keeps the frequency of its first
\* peak and the strength of its strongest
AddCandidate(list, width, tone, snr) ==
    LET same == {k \in DOMAIN list : SameBucket(list[k].tone, tone, width)}
    IN  IF Len(list) >= MAX_DECODE_CHANNELS THEN list
        ELSE IF same = {} THEN Append(list, [tone |-> tone, snr |-> snr])
        ELSE [list EXCEPT ![Min(same)].snr = Max({@, snr})]

Merged(s, width, m) ==
    LET peaks == FindPeaks(s, m.single, m.more, MinSnr, MAX_DECODE_CHANNELS)
        all   == Signals(s, m) \o [k \in DOMAIN peaks |->
                                       [tone |-> ToneOf(m.single, m.more, peaks[k]),
                                        snr  |-> s[peaks[k]]]]
        upto[k \in 0 .. Len(all)] ==
            IF k = 0 THEN <<>>
            ELSE AddCandidate(upto[k - 1], width, all[k].tone, all[k].snr)
    IN  upto[Len(all)]

\* two places of the list are exchanged if the later one is the stronger
Exchange(list, i, j) ==
    IF i < j /\ list[j].snr > list[i].snr
    THEN [list EXCEPT ![i] = list[j], ![j] = list[i]] ELSE list

\* ... for every pair of places, in the order of the two loops
StrongestFirst(list) ==
    LET n == Len(list)
        upto[k \in 0 .. n * n] ==
            IF k = 0 THEN list
            ELSE Exchange(upto[k - 1], ((k - 1) \div n) + 1, ((k - 1) % n) + 1)
    IN  upto[n * n]

\* for every spectrum and setting
Candidates == [s \in Spectra |-> [width \in Buckets |->
                  [m \in Modes |-> StrongestFirst(Merged(s, width, m))]]]

-------------------------------------------------------------------------------
(* Bands.                                                                    *)

\* the peaks of an IQ stream the search could report
Peaks(s) == {t \in Bins \ Guarded(FALSE, FALSE) :
                 LocalPeak(s, NumBins, t) /\ s[t] >= MinSnr}

\* few peaks, no two of which share a bucket, a search range or the bins that
\* are taken for noise
Sparse(s) ==
    /\ Cardinality(Peaks(s)) <= Min({MAX_SIGNALS, MAX_DECODE_CHANNELS})
    /\ \A p, q \in {t \in Bins : s[t] > 0} :
           p # q => \A w \in Buckets \cup {SearchRange + NoiseBins, SearchMin + NoiseBins} :
                        Distance(p, q) > w

===============================================================================
