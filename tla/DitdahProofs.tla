------------------------------ MODULE DitdahProofs ----------------------------
(***************************************************************************)
(* Proofs about DitdahDecoder, for any stations, texts and bounds: which   *)
(* readings and which clock the decoder's fields stem from, and, by        *)
(* induction over the runs of marks and gaps, that a reading is a sequence *)
(* of characters, from which follows what the validator lets be spotted.   *)
(***************************************************************************)
EXTENDS DitdahDecoder, WellFoundedInduction, TLAPS

(* Induction, for sets rather than predicates.                             *)
Below == {ss \in Nat \X Nat : ss[1] < ss[2]}

LEMMA Least ==
    ASSUME NEW T, T \subseteq Nat, T # {}
    PROVE  \E x \in T : \A y \in T : x <= y
<1>1. IsWellFoundedOn(Below, Nat)
  BY NatLessThanWellFounded DEF Below, OpToRel
<1>2. PICK x \in T : \A y \in T : ~ (<<y, x>> \in Below)
  BY <1>1, WFMin
<1>3. ASSUME NEW y \in T PROVE x <= y
  <2>1. ~ (<<y, x>> \in Below) /\ y \in Nat /\ x \in Nat
    BY <1>2
  <2>2. y < x => <<y, x>> \in Below
    BY <2>1 DEF Below
  <2> QED
    BY <2>1, <2>2
<1> QED
  BY <1>2, <1>3

LEMMA Induct ==
    ASSUME NEW S, 0 \in S, \A n \in Nat : n \in S => n + 1 \in S
    PROVE  \A n \in Nat : n \in S
<1>1. SUFFICES ASSUME Nat \ S # {} PROVE FALSE
  OBVIOUS
<1>2. PICK x \in Nat \ S : \A y \in Nat \ S : x <= y
  BY <1>1, Least
<1>3. x - 1 \in Nat /\ x - 1 \in S
  BY <1>2
<1> QED
  BY <1>2, <1>3

LEMMA Stays ==
    ASSUME NEW n \in Nat, NEW S, NEW f, f[0] \in S,
           \A k \in 1 .. n : f[k - 1] \in S => f[k] \in S
    PROVE  \A k \in 0 .. n : f[k] \in S
<1> DEFINE In == {k \in Nat : k <= n => f[k] \in S}
<1>1. 0 \in In
  OBVIOUS
<1>2. ASSUME NEW k \in Nat, k \in In PROVE k + 1 \in In
  <2>1. SUFFICES ASSUME k + 1 <= n PROVE f[k + 1] \in S
    OBVIOUS
  <2>2. k + 1 \in 1 .. n /\ (k + 1) - 1 = k
    BY <2>1
  <2> QED
    BY <1>2, <2>1, <2>2
<1>3. \A k \in Nat : k \in In
  <2> HIDE DEF In
  <2> QED
    BY <1>1, <1>2, Induct
<1> QED
  BY <1>3

Unfolds(g, n, S, a, G) ==
    g \in [0 .. n -> S] /\ g[0] = a /\ \A k \in 1 .. n : g[k] = G[k][g[k - 1]]

LEMMA Exists ==
    ASSUME NEW n \in Nat, NEW S, NEW a \in S, NEW G \in [1 .. n -> [S -> S]]
    PROVE  \E g : Unfolds(g, n, S, a, G)
<1> DEFINE Upto(m) == {g \in [0 .. m -> S] :
                         g[0] = a /\ \A k \in 1 .. m : g[k] = G[k][g[k - 1]]}
           In == {m \in Nat : m <= n => Upto(m) # {}}
<1>1. 0 \in In
  <2>1. [k \in 0 .. 0 |-> a] \in Upto(0)
    OBVIOUS
  <2> QED
    BY <2>1
<1>2. ASSUME NEW m \in Nat, m \in In PROVE m + 1 \in In
  <2>1. SUFFICES ASSUME m + 1 <= n PROVE Upto(m + 1) # {}
    OBVIOUS
  <2>2. PICK g \in [0 .. m -> S] : g[0] = a /\ \A k \in 1 .. m : g[k] = G[k][g[k - 1]]
    BY <1>2, <2>1
  <2> DEFINE h == [k \in 0 .. m + 1 |-> IF k <= m THEN g[k] ELSE G[m + 1][g[m]]]
  <2>3. G[m + 1][g[m]] \in S
    <3>1. m + 1 \in 1 .. n /\ g[m] \in S
      BY <2>1
    <3>2. G[m + 1] \in [S -> S]
      BY <3>1
    <3> QED
      BY <3>1, <3>2
  <2>4. h \in [0 .. m + 1 -> S] /\ h[0] = a
    BY <2>2, <2>3
  <2>5. \A k \in 1 .. m + 1 : h[k] = G[k][h[k - 1]]
    BY <2>2
  <2>6. h \in Upto(m + 1)
    BY <2>4, <2>5
  <2> QED
    BY <2>6
<1>3. \A m \in Nat : m \in In
  <2> HIDE DEF In
  <2> QED
    BY <1>1, <1>2, Induct
<1> QED
  BY <1>3 DEF Unfolds

-------------------------------------------------------------------------------
(* A reading is a sequence of characters.                                  *)
Letters == Alpha \cup Digits \cup {Unread}
Chars   == Letters \cup {Space}

LEMMA MorseLetters == \A code : morse_to_char(code) \in Letters
<1> TAKE code
<1>1. DOMAIN Morse = Alpha \cup Digits
  BY DEF Morse
<1> DEFINE P(c) == c \in DOMAIN Morse /\ Morse[c] = code
<1>2. CASE \E c \in DOMAIN Morse : Morse[c] = code
  <2>1. (CHOOSE c \in DOMAIN Morse : Morse[c] = code) \in DOMAIN Morse
    BY <1>2
  <2>2. morse_to_char(code) = CHOOSE c \in DOMAIN Morse : Morse[c] = code
    BY <1>2 DEF morse_to_char
  <2> QED
    BY <2>1, <2>2, <1>1 DEF Letters
<1>3. CASE ~ \E c \in DOMAIN Morse : Morse[c] = code
  <2>1. morse_to_char(code) = Unread
    BY <1>3 DEF morse_to_char
  <2> QED
    BY <2>1 DEF Letters
<1> QED
  BY <1>2, <1>3

(* The text and the open letter, as they grow run by run.                  *)
Reads == [text : Seq(Chars), code : Seq({0, 1})]

LEMMA EndedType ==
    ASSUME NEW text \in Seq(Chars), NEW code
    PROVE  Ended(text, code) \in Seq(Chars)
<1>1. morse_to_char(code) \in Chars
  BY MorseLetters DEF Chars
<1> QED
  BY <1>1 DEF Ended

LEMMA SpacedType ==
    ASSUME NEW text \in Seq(Chars) PROVE Spaced(text) \in Seq(Chars)
<1>1. Space \in Chars
  BY DEF Chars
<1>2. \A c : c \in Chars => Append(text, c) \in Seq(Chars)
  OBVIOUS
<1>3. Spaced(text) = text \/ Spaced(text) = Append(text, Space)
  BY DEF Spaced
<1> QED
  BY <1>1, <1>2, <1>3

LEMMA TakeType ==
    ASSUME NEW r \in Reads, NEW run, NEW dot3
    PROVE  Take(r, run, dot3) \in Reads
<1>1. r.text \in Seq(Chars) /\ r.code \in Seq({0, 1})
      /\ r = [text |-> r.text, code |-> r.code]
  BY DEF Reads
<1>2. Ended(r.text, r.code) \in Seq(Chars)
  BY <1>1, EndedType
<1>3. Spaced(Ended(r.text, r.code)) \in Seq(Chars)
  BY <1>2, SpacedType
<1>4. <<>> \in Seq({0, 1})
  OBVIOUS
<1> DEFINE e == IF Dash(run.len, dot3) THEN 1 ELSE 0
<1>5. [r EXCEPT !.code = Append(@, e)] \in Reads
  <2>1. e \in {0, 1}
    OBVIOUS
  <2>2. Append(r.code, e) \in Seq({0, 1})
    BY <2>1, <1>1
  <2> HIDE DEF e
  <2> QED
    BY <1>1, <2>2 DEF Reads
<1>6. [text |-> Spaced(Ended(r.text, r.code)), code |-> <<>>] \in Reads
  BY <1>3, <1>4 DEF Reads
<1>7. [text |-> Ended(r.text, r.code), code |-> <<>>] \in Reads
  BY <1>2, <1>4 DEF Reads
<1> QED
  BY <1>5, <1>6, <1>7 DEF Take

(* By induction over the runs, what is read of them.                       *)
LEMMA ReadRunsType ==
    ASSUME NEW R, NEW runs \in Seq(R), NEW dot3
    PROVE  ReadRuns(runs, dot3) \in Reads
<1> DEFINE n == Len(runs)
           none == [text |-> <<>>, code |-> <<>>]
           Behind(r, k) == IF runs[k].len <= Bounce(dot3) THEN r
                           ELSE Take(r, runs[k], dot3)
           G == [k \in 1 .. n |-> [r \in Reads |-> Behind(r, k)]]
           F == CHOOSE read : read = [k \in 0 .. Len(runs) |->
                    IF k = 0 THEN [text |-> <<>>, code |-> <<>>]
                    ELSE IF runs[k].len <= Bounce(dot3) THEN read[k - 1]
                    ELSE Take(read[k - 1], runs[k], dot3)]
<1>1. n \in Nat
  OBVIOUS
<1>2. none \in Reads
  BY DEF Reads
<1>3. \A k, r : r \in Reads => Behind(r, k) \in Reads
  BY TakeType
<1>4. ReadRuns(runs, dot3) = F[n]
  BY DEF ReadRuns
<1>5. F = [k \in 0 .. n |-> IF k = 0 THEN none ELSE Behind(F[k - 1], k)]
  <2>1. PICK g : Unfolds(g, n, Reads, none, G)
    <3>1. G \in [1 .. n -> [Reads -> Reads]]
      BY <1>3
    <3> HIDE DEF n, none, G
    <3> QED
      BY <1>1, <1>2, <3>1, Exists
  <2>2. ASSUME NEW k \in 0 .. n
        PROVE  g[k] = IF k = 0 THEN none ELSE Behind(g[k - 1], k)
    <3>1. CASE k = 0
      BY <3>1, <2>1 DEF Unfolds
    <3>2. CASE k # 0
      <4>1. k \in 1 .. n /\ k - 1 \in 0 .. n
        BY <3>2, <1>1
      <4>2. g[k] = G[k][g[k - 1]] /\ g[k - 1] \in Reads
        BY <4>1, <2>1 DEF Unfolds
      <4>3. G[k] = [r \in Reads |-> Behind(r, k)]
        BY <4>1
      <4> HIDE DEF G, Behind, none, n
      <4> QED
        BY <4>2, <4>3, <3>2
    <3> QED
      BY <3>1, <3>2
  <2>3. g = [k \in 0 .. n |-> g[k]]
    BY <2>1 DEF Unfolds
  <2>4. g = [k \in 0 .. n |-> IF k = 0 THEN none ELSE Behind(g[k - 1], k)]
    <3> HIDE DEF Behind, none, n
    <3> QED
      BY <2>2, <2>3
  <2> QED
    BY <2>4
<1>6. F[0] \in Reads
  <2>1. 0 \in 0 .. n
    BY <1>1
  <2> HIDE DEF F, Behind, none, n
  <2> QED
    BY <1>2, <1>5, <2>1
<1>7. ASSUME NEW k \in 1 .. n, F[k - 1] \in Reads PROVE F[k] \in Reads
  <2>1. k \in 0 .. n /\ k # 0
    BY <1>1
  <2> HIDE DEF F, Behind, none, n
  <2> QED
    BY <1>3, <1>5, <1>7, <2>1
<1>8. \A k \in 0 .. n : F[k] \in Reads
  <2> HIDE DEF F, n
  <2> QED
    BY <1>1, <1>6, <1>7, Stays
<1> QED
  <2>1. n \in 0 .. n
    BY <1>1
  <2> HIDE DEF F, n
  <2> QED
    BY <1>4, <1>8, <2>1

(* And over the samples, the runs.                                         *)
LEMMA RunsType ==
    ASSUME NEW T, NEW w \in Seq(T) PROVE Runs(w) \in Seq([on : T, len : Nat])
<1> DEFINE n == Len(w)
           R == [on : T, len : Nat]
           Next1(s, i) == IF i > 1 /\ w[i] = w[i - 1] THEN Longer(s)
                          ELSE Append(s, [on |-> w[i], len |-> 1])
           G == [i \in 1 .. n |-> [s \in Seq(R) |-> Next1(s, i)]]
           F == CHOOSE runs : runs = [i \in 0 .. Len(w) |->
                    IF i = 0 THEN <<>>
                    ELSE IF i > 1 /\ w[i] = w[i - 1] THEN Longer(runs[i - 1])
                    ELSE Append(runs[i - 1], [on |-> w[i], len |-> 1])]
<1>1. n \in Nat
  OBVIOUS
<1>2. <<>> \in Seq(R)
  OBVIOUS
<1>3. ASSUME NEW i \in 1 .. n, NEW s \in Seq(R) PROVE Next1(s, i) \in Seq(R)
  <2>1. [on |-> w[i], len |-> 1] \in R
    OBVIOUS
  <2>2. Append(s, [on |-> w[i], len |-> 1]) \in Seq(R)
    <3> HIDE DEF R
    <3> QED
      BY <2>1
  <2>3. Longer(s) \in Seq(R)
    <3>1. CASE Len(s) = 0
      <4>1. DOMAIN s = {}
        BY <3>1
      <4>2. Longer(s) = s
        BY <4>1, <3>1 DEF Longer
      <4> QED
        BY <4>2
    <3>2. CASE Len(s) # 0
      <4>1. Len(s) \in 1 .. Len(s) /\ Len(s) \in Nat
        BY <3>2
      <4>2. s[Len(s)] \in R
        <5> HIDE DEF R
        <5> QED
          BY <4>1
      <4>0. \A r : r \in R => [r EXCEPT !.len = @ + 1] \in R
        OBVIOUS
      <4> DEFINE e == [s[Len(s)] EXCEPT !.len = @ + 1]
      <4>3. e \in R
        <5> HIDE DEF R
        <5> QED
          BY <4>2, <4>0
      <4>4. Longer(s) = [s EXCEPT ![Len(s)] = e]
        BY DEF Longer
      <4> HIDE DEF e, R
      <4>5. [s EXCEPT ![Len(s)] = e] \in Seq(R)
        BY <4>1, <4>3
      <4> QED
        BY <4>4, <4>5
    <3> QED
      BY <3>1, <3>2
  <2> QED
    BY <2>2, <2>3
<1>4. Runs(w) = F[n]
  BY DEF Runs
<1>5. F = [i \in 0 .. n |-> IF i = 0 THEN <<>> ELSE Next1(F[i - 1], i)]
  <2>1. PICK g : Unfolds(g, n, Seq(R), <<>>, G)
    <3>1. G \in [1 .. n -> [Seq(R) -> Seq(R)]]
      <4> HIDE DEF Next1, R
      <4> QED
        BY <1>3
    <3> HIDE DEF n, R, G
    <3> QED
      BY <1>1, <1>2, <3>1, Exists
  <2>2. ASSUME NEW i \in 0 .. n
        PROVE  g[i] = IF i = 0 THEN <<>> ELSE Next1(g[i - 1], i)
    <3>1. CASE i = 0
      BY <3>1, <2>1 DEF Unfolds
    <3>2. CASE i # 0
      <4>1. i \in 1 .. n /\ i - 1 \in 0 .. n
        BY <3>2, <1>1
      <4>2. g[i] = G[i][g[i - 1]] /\ g[i - 1] \in Seq(R)
        <5> HIDE DEF G, R
        <5> QED
          BY <4>1, <2>1 DEF Unfolds
      <4>3. G[i] = [s \in Seq(R) |-> Next1(s, i)]
        <5> HIDE DEF R, Next1
        <5> QED
          BY <4>1
      <4> HIDE DEF G, Next1, n, R
      <4> QED
        BY <4>2, <4>3, <3>2
    <3> QED
      BY <3>1, <3>2
  <2>3. g = [i \in 0 .. n |-> g[i]]
    BY <2>1 DEF Unfolds
  <2>4. g = [i \in 0 .. n |-> IF i = 0 THEN <<>> ELSE Next1(g[i - 1], i)]
    <3> HIDE DEF Next1, n
    <3> QED
      BY <2>2, <2>3
  <2> QED
    BY <2>4
<1>6. F[0] \in Seq(R)
  <2>1. 0 \in 0 .. n
    BY <1>1
  <2> HIDE DEF F, Next1, n, R
  <2> QED
    BY <1>2, <1>5, <2>1
<1>7. ASSUME NEW i \in 1 .. n, F[i - 1] \in Seq(R) PROVE F[i] \in Seq(R)
  <2>1. i \in 0 .. n /\ i # 0
    BY <1>1
  <2> HIDE DEF F, Next1, n, R
  <2> QED
    BY <1>3, <1>5, <1>7, <2>1
<1>8. \A i \in 0 .. n : F[i] \in Seq(R)
  <2> HIDE DEF F, n, R
  <2> QED
    BY <1>1, <1>6, <1>7, Stays
<1> QED
  <2>1. n \in 0 .. n
    BY <1>1
  <2> HIDE DEF F, n, R
  <2>2. Runs(w) \in Seq(R)
    BY <1>4, <1>8, <2>1
  <2> QED
    BY <2>2 DEF R

LEMMA ReadingText ==
    ASSUME NEW T, NEW w \in Seq(T) PROVE Reading(w).text \in Seq(Chars)
<1> DEFINE R == [on : T, len : Nat]
           runs == Runs(w)
           heard1 == IF Last(runs).on THEN runs ELSE Front(runs)
           on == Marked(runs)
           read == ReadRuns(heard1, DotLen3(OnLengths(on)))
<1>1. runs \in Seq(R)
  BY RunsType
<1>2. heard1 \in Seq(R)
  <2> HIDE DEF runs, R
  <2>1. Front(runs) \in Seq(R)
    BY <1>1 DEF Front
  <2> QED
    BY <1>1, <2>1
<1>3. read \in Reads
  <2> HIDE DEF heard1, R
  <2> QED
    BY <1>2, ReadRunsType
<1>4. Ended(read.text, read.code) \in Seq(Chars)
  <2>1. read.text \in Seq(Chars)
    BY <1>3 DEF Reads
  <2> HIDE DEF read
  <2> QED
    BY <2>1, EndedType
<1>5. Reading(w) = IF on = <<>> THEN NoReading
                   ELSE Finished(read, Len(on))
  BY DEF Reading, ReadingRuns, ReadingOf
<1>6. CASE on = <<>>
  BY <1>5, <1>6 DEF NoReading
<1>7. CASE on # <<>>
  <2>1. Reading(w).text = Ended(read.text, read.code)
    <3> HIDE DEF on, read
    <3> QED
      BY <1>5, <1>7 DEF Finished
  <2> QED
    BY <1>4, <2>1
<1> QED
  BY <1>6, <1>7

-------------------------------------------------------------------------------
(* What the validator accepts of a word.                                   *)
Words == {word \in Seq(Chars) : \A i \in DOMAIN word : word[i] # Space}

LEMMA WordType == ASSUME NEW text \in Seq(Chars) PROVE Word(text) \in Words
<1> DEFINE spaces == {i \in 1 .. Len(text) : text[i] = Space}
           at == FirstWord(text)
<1>1. at = IF spaces # {} THEN Min(spaces) ELSE 0
  BY DEF FirstWord, SelectInSeq
<1>2. CASE spaces = {}
  <2>1. at = 0
    BY <1>1, <1>2
  <2>2. Word(text) = text
    BY <2>1 DEF Word
  <2>3. \A i \in DOMAIN text : text[i] # Space
    BY <1>2
  <2> QED
    BY <2>2, <2>3 DEF Words
<1>3. CASE spaces # {}
  <2>1. PICK x \in spaces : \A y \in spaces : x <= y
    <3>1. spaces \subseteq Nat
      OBVIOUS
    <3> HIDE DEF spaces
    <3> QED
      BY <1>3, <3>1, Least
  <2>2. at \in spaces /\ \A y \in spaces : at <= y
    <3>1. at = Min(spaces)
      BY <1>1, <1>3
    <3>2. Min(spaces) \in spaces /\ \A y \in spaces : Min(spaces) <= y
      <4> HIDE DEF spaces
      <4> QED
        BY <2>1 DEF Min
    <3> HIDE DEF spaces, at
    <3> QED
      BY <3>1, <3>2
  <2> HIDE DEF at
  <2>3. at \in 1 .. Len(text)
    BY <2>2
  <2>4. Word(text) = SubSeq(text, 1, at - 1)
    BY <2>3 DEF Word, at
  <2>5. SubSeq(text, 1, at - 1) \in Seq(Chars)
        /\ Len(SubSeq(text, 1, at - 1)) = at - 1
        /\ \A i \in 1 .. at - 1 : SubSeq(text, 1, at - 1)[i] = text[i]
    BY <2>3
  <2>6. \A i \in 1 .. at - 1 : text[i] # Space
    BY <2>2, <2>3
  <2> DEFINE head == SubSeq(text, 1, at - 1)
  <2>7. DOMAIN head = 1 .. at - 1
    BY <2>3, <2>5
  <2>8. head \in Words
    <3> HIDE DEF head
    <3>1. head \in Seq(Chars) /\ \A i \in DOMAIN head : head[i] # Space
      BY <2>5, <2>6, <2>7 DEF head
    <3> QED
      BY <3>1 DEF Words
  <2> QED
    BY <2>4, <2>8
<1> QED
  BY <1>2, <1>3

LEMMA PrimaryIsWord ==
    ASSUME NEW word \in Words, word # <<>> PROVE primary_score_text(word) = word
<1> DEFINE n == Len(word)
           ends   == {i \in DOMAIN word : word[i] # Space}
           last   == CHOOSE i \in ends : \A j \in ends : j <= i
           starts == {i \in 1 .. last : \A j \in i .. last : word[j] # Space}
           first  == CHOOSE i \in starts : \A j \in starts : i <= j
<1>1. n \in Nat \ {0} /\ DOMAIN word = 1 .. n /\ \A i \in 1 .. n : word[i] # Space
  BY DEF Words
<1>2. ends = 1 .. n
  BY <1>1
<1>3. last = n
  <2>1. n \in ends /\ \A j \in ends : j <= n
    <3> HIDE DEF ends, n
    <3> QED
      BY <1>1, <1>2
  <2>2. \A i \in ends : (\A j \in ends : j <= i) => i = n
    <3> HIDE DEF ends, n
    <3> QED
      BY <1>1, <1>2, <2>1
  <2> HIDE DEF ends, n
  <2> QED
    BY <2>1, <2>2
<1>4. starts = 1 .. n
  <2> HIDE DEF last, n
  <2> QED
    BY <1>1, <1>3
<1>5. first = 1
  <2>1. 1 \in starts /\ \A j \in starts : 1 <= j
    <3> HIDE DEF starts, n
    <3> QED
      BY <1>1, <1>4
  <2>2. \A i \in starts : (\A j \in starts : i <= j) => i = 1
    <3> HIDE DEF starts, n
    <3> QED
      BY <1>1, <1>4, <2>1
  <2> HIDE DEF starts
  <2> QED
    BY <2>1, <2>2
<1>6. primary_score_text(word) = IF ends = {} THEN word ELSE SubSeq(word, first, last)
  BY DEF primary_score_text
<1>7. ends # {}
  BY <1>1, <1>2
<1>8. SubSeq(word, 1, n) = word
  BY DEF Words
<1> HIDE DEF ends, first, last
<1> QED
  BY <1>3, <1>5, <1>6, <1>7, <1>8

LEMMA KeywordIsWord ==
    ASSUME NEW word \in Words, ~Has(word, {Unread}), text_contains_keyword(word)
    PROVE  word \in Keywords
<1>0. PICK i \in DOMAIN word : \E j \in i .. Len(word) :
          /\ SubSeq(word, i, j) \in Keywords
          /\ i = 1 \/ word[i - 1] \notin WordChars
          /\ j = Len(word) \/ word[j + 1] \notin WordChars
  BY DEF text_contains_keyword
<1>1. PICK j \in i .. Len(word) :
          /\ SubSeq(word, i, j) \in Keywords
          /\ i = 1 \/ word[i - 1] \notin WordChars
          /\ j = Len(word) \/ word[j + 1] \notin WordChars
  BY <1>0
<1>2. word \in Seq(Chars) /\ \A k \in DOMAIN word : word[k] # Space /\ word[k] # Unread
  BY DEF Words, Has
<1>3. \A k \in DOMAIN word : word[k] \in WordChars
  BY <1>2 DEF Chars, Letters, WordChars
<1>4. i = 1
  BY <1>1, <1>2, <1>3
<1>5. j = Len(word)
  BY <1>1, <1>2, <1>3
<1>6. SubSeq(word, 1, Len(word)) = word
  BY <1>2
<1> QED
  BY <1>1, <1>4, <1>5, <1>6

(* Why a word may be spotted in mode m.                                    *)
Earned(word, m) ==
    /\ m # "paranoid"
    /\ \/ looks_like_callsign(word) \/ word \in Keywords
       \/ m = "minimal" /\ itu_prefix_plausible(word)

LEMMA IfRange == \A c, p : If(c, p) \in {0, p} /\ (~c => If(c, p) = 0)
  BY DEF If

LEMMA Minima ==
    ASSUME NEW m \in DOMAIN accept_min
    PROVE  /\ accept_min[m] \in {35, 50, 60, 75}
           /\ m # "minimal" => accept_min[m] >= 50
           /\ m = "paranoid" => accept_min[m] = 75
<1>1. m \in {"minimal", "normal", "aggressive", "paranoid"}
  BY DEF accept_min
<1> QED
  BY <1>1 DEF accept_min

(* What a word scores that is not the one accepted before: what it lacks   *)
(* it cannot be given.                                                     *)
LEMMA WeighBound ==
    ASSUME NEW text, NEW n \in Nat, NEW keyword, NEW call, NEW digit, NEW primary,
           NEW prior, primary # prior
    PROVE  LET w == Weigh(text, n, keyword, call, digit, primary, prior)
           IN  /\ w \in Int
               /\ w >= 35 =>
                     /\ ~Has(text, {Unread})
                     /\ w <= 24 + If(text_contains_keyword(text), 24) + If(keyword, 14)
                               + If(itu_prefix_plausible(primary), 18) + If(call, 24)
<1> DEFINE w == Weigh(text, n, keyword, call, digit, primary, prior)
           a == If(text_contains_keyword(text), 24)
           b == If(keyword, 14)
           c == If(itu_prefix_plausible(primary), 18)
           d == If(call, 24)
           plus == 18 + a + b + c + d
           f == If(n \in 3 .. 7 /\ primary[1] \in Alpha, 6)
           p == If(prior # <<>> /\ primary = prior, 12)
           m1 == If(digit /\ n \in 4 .. 7 /\ ~call /\ ~keyword, 28)
           m2 == If(suffix_letters_after_digit(primary) > 3, 18)
           m3 == If(Len(text) > 12, 25)
           m4 == If(LongRun(primary), 30)
           m5 == If(digit_letter_chaos(primary), 25)
           m6 == If(n >= 6 /\ ~keyword /\ ~call, 22)
<1>1. w \in {0, 5, 22, 28} \/ (~Has(text, {Unread})
         /\ w = Clamp(plus + f + p - m1 - m2 - m3 - m4 - m5 - m6))
  BY DEF Weigh
<1>2. a \in {0, 24} /\ b \in {0, 14} /\ c \in {0, 18} /\ d \in {0, 24}
  BY IfRange
<1>3. f \in {0, 6} /\ p = 0
  BY IfRange
<1>4. /\ m1 \in {0, 28} /\ m2 \in {0, 18} /\ m3 \in {0, 25} /\ m4 \in {0, 30}
      /\ m5 \in {0, 25} /\ m6 \in {0, 22}
  BY IfRange
<1> HIDE DEF w, a, b, c, d, f, p, m1, m2, m3, m4, m5, m6
<1>5. CASE w \in {0, 5, 22, 28}
  <2>1. w \in Int /\ ~(w >= 35)
    BY <1>5
  <2> QED
    BY <2>1 DEF w
<1>6. CASE ~Has(text, {Unread})
           /\ w = Clamp(plus + f + p - m1 - m2 - m3 - m4 - m5 - m6)
  <2>1. w \in Int /\ w <= 24 + a + b + c + d
    BY <1>2, <1>3, <1>4, <1>6 DEF Clamp
  <2> QED
    BY <1>6, <2>1 DEF w, a, b, c, d
<1> QED
  BY <1>1, <1>5, <1>6

LEMMA AcceptedIsEarned ==
    ASSUME NEW word \in Words, word # <<>>, NEW m \in DOMAIN accept_min,
           NEW prior, prior = <<>> \/ Earned(prior, m), Accepts(word, m, prior)
    PROVE  Earned(word, m)
<1>1. CASE word = prior
  BY <1>1
<1>2. CASE word # prior
  <2> DEFINE has == text_contains_keyword(word)
             itu == itu_prefix_plausible(word)
             call == looks_like_callsign(word)
             score == Score(word, prior)
  <2>1. score = Weigh(word, Len(word), has, call, Has(word, Digits), word, prior)
    BY PrimaryIsWord DEF Score, Points
  <2>2. score >= accept_min[m] /\ accept_min[m] \in {35, 50, 60, 75}
    BY Minima DEF Accepts
  <2>3. Len(word) \in Nat
    BY DEF Words
  <2>0. /\ score \in Int
        /\ score >= 35 =>
              /\ ~Has(word, {Unread})
              /\ score <= 24 + If(has, 24) + If(has, 14) + If(itu, 18) + If(call, 24)
    <3> HIDE DEF score, has, call
    <3> QED
      BY <1>2, <2>1, <2>3, WeighBound DEF has
  <2>4. ~Has(word, {Unread})
        /\ score <= 24 + If(has, 24) + If(has, 14) + If(itu, 18) + If(call, 24)
    <3> HIDE DEF score, has, itu, call
    <3> QED
      BY <2>0, <2>2
  <2>5. has => word \in Keywords
    BY <2>4, KeywordIsWord
  <2>6. call => itu
    BY DEF looks_like_callsign
  <2>7. word \in Keywords => ~itu
    BY KeywordsAssumption
  <2>8. /\ m # "minimal" => accept_min[m] >= 50
        /\ m = "paranoid" => accept_min[m] = 75
    BY Minima
  <2> HIDE DEF has, itu, call, score
  <2> QED
    BY <2>2, <2>0, <2>4, <2>5, <2>6, <2>7, <2>8 DEF Earned, If, has, itu, call
<1> QED
  BY <1>1, <1>2

-------------------------------------------------------------------------------
(* The history is a record; listening began when the station was tuned;    *)
(* the text in hand is of this station, or has been noted as one of the    *)
(* former; has_keying says at least what the last reading found, as soon   *)
(* as it is written; the time that was over is over for this station,      *)
(* unless it was tuned behind the look at the time.                        *)
Noted == heard.texts \cup heard.stray
IInv ==
    /\ heard = [texts |-> heard.texts, stray |-> heard.stray, marks |-> heard.marks,
                since |-> heard.since]
    /\ clock \in Nat /\ created_at \in Nat
    /\ created_at = heard.since
    /\ pc \in {"read", "keyed"} => reading.text \in Noted
    /\ pc = "read" /\ heard.marks >= 3 => reading.marks >= 3
    /\ pc # "read" /\ heard.marks >= 3 => has_keying
    /\ pc = "verdict" /\ late => torn \/ clock - created_at >= BirdieSec
    /\ pc = "birdie" => torn \/ (clock - created_at >= BirdieSec /\ ~has_keying)
    /\ StationsApart

(* The record of a signal not heard yet.                                   *)
LEMMA Fresh ==
    ASSUME NEW time, NEW stray
    PROVE  LET h == HeardSince(time, stray)
           IN  /\ h = [texts |-> h.texts, stray |-> h.stray, marks |-> h.marks,
                       since |-> h.since]
               /\ h.texts = {} /\ h.stray = stray /\ h.since = time /\ ~(h.marks >= 3)
<1>1. ~(0 >= 3)
  OBVIOUS
<1> QED
  BY <1>1 DEF HeardSince

LEMMA InitIInv == Init => IInv
<1> SUFFICES ASSUME Init PROVE IInv
  OBVIOUS
<1>1. /\ heard = HeardSince(0, {}) /\ clock = 0 /\ created_at = 0 /\ pc = "feed"
      /\ plain_text = <<>> /\ last_emitted_plain = <<>>
  BY DEF Init
<1>2. StationsApart
  BY <1>1 DEF StationsApart
<1>3. /\ heard = [texts |-> heard.texts, stray |-> heard.stray,
                  marks |-> heard.marks, since |-> heard.since]
      /\ created_at = heard.since /\ ~(heard.marks >= 3)
  BY <1>1, Fresh
<1> QED
  BY <1>1, <1>2, <1>3 DEF IInv

(* A window that is read is noted, and nothing noted is forgotten.         *)
LEMMA HeardFacts ==
    ASSUME IInv, NEW r, heard' = Heard(r)
    PROVE  /\ heard' = [texts |-> heard'.texts, stray |-> heard'.stray,
                        marks |-> heard'.marks, since |-> heard'.since]
           /\ heard'.since = heard.since
           /\ heard'.marks = r.marks
           /\ Noted' = Noted \cup {r.text}
<1>1. /\ heard'.texts \cup heard'.stray = heard.texts \cup heard.stray \cup {r.text}
      /\ heard'.since = heard.since /\ heard'.marks = r.marks
  <2>1. CASE from >= left
    BY <2>1 DEF Heard
  <2>2. CASE ~(from >= left)
    BY <2>2 DEF Heard
  <2> QED
    BY <2>1, <2>2
<1>2. heard' = [texts |-> heard'.texts, stray |-> heard'.stray,
                marks |-> heard'.marks, since |-> heard'.since]
  BY DEF Heard
<1> QED
  BY <1>1, <1>2 DEF Noted

(* Tuning to another signal forgets everything about the former one but    *)
(* what the thread has in hand.                                            *)
LEMMA ResetIInv ==
    ASSUME IInv, ditdah_decoder_reset, UNCHANGED clock, NEW stray,
           heard' = HeardSince(clock, stray), UNCHANGED <<reading, late>>,
           pc' \in {"read", "keyed"} => reading.text \in stray,
           pc' \in {"verdict", "birdie"} => torn'
    PROVE  IInv'
<1>1. /\ created_at' = clock /\ plain_text' = <<>> /\ last_emitted_plain' = <<>>
  BY DEF ditdah_decoder_reset
<1>2. /\ heard' = [texts |-> heard'.texts, stray |-> heard'.stray,
                   marks |-> heard'.marks, since |-> heard'.since]
      /\ heard'.stray = stray
      /\ created_at' = heard'.since /\ ~(heard'.marks >= 3)
  BY <1>1, Fresh
<1>3. StationsApart'
  BY <1>1 DEF StationsApart
<1>4. pc' \in {"read", "keyed"} => reading'.text \in Noted'
  BY <1>2 DEF Noted
<1> QED
  BY <1>1, <1>2, <1>3, <1>4 DEF IInv

LEMMA NextIInv == IInv /\ [Next]_vars => IInv'
<1> SUFFICES ASSUME IInv, [Next]_vars PROVE IInv'
  OBVIOUS
<1> USE DEF reader, thread, history
<1>1. CASE Feed
  <2>1. UNCHANGED <<clock, reader, thread, history>> /\ pc = "feed" /\ pc' = "update"
    BY <1>1 DEF Feed
  <2> QED
    BY <2>1 DEF IInv, StationsApart
<1>2. CASE Analyse
  <2>1. UNCHANGED <<clock, reader, late, torn>> /\ pc = "update"
    BY <1>2 DEF Analyse
  <2>2. CASE \E r \in Readings(Audio) :
                reading' = r /\ heard' = Heard(r) /\ pc' = "read"
    <3>1. PICK r \in Readings(Audio) :
                reading' = r /\ heard' = Heard(r) /\ pc' = "read"
      BY <2>2
    <3>2. /\ heard' = [texts |-> heard'.texts, stray |-> heard'.stray,
                       marks |-> heard'.marks, since |-> heard'.since]
          /\ heard'.since = heard.since
          /\ heard'.marks = r.marks
          /\ Noted' = Noted \cup {r.text}
      BY <3>1, HeardFacts
    <3>3. StationsApart'
      BY <2>1, <3>2 DEF IInv, StationsApart, Noted
    <3> QED
      BY <2>1, <3>1, <3>2, <3>3 DEF IInv
  <2>3. CASE pc' = "judge" /\ UNCHANGED <<reading, heard>>
    BY <2>1, <2>3 DEF IInv, StationsApart
  <2> QED
    BY <1>2, <2>2, <2>3 DEF Analyse
<1>3. CASE WriteKeying
  <2>1. /\ UNCHANGED <<clock, plain_text, last_emitted_plain, created_at, thread,
                       history>>
        /\ pc = "read" /\ pc' = "keyed" /\ has_keying' = (reading.marks >= 3)
    BY <1>3 DEF WriteKeying, Keyed
  <2>2. heard.marks >= 3 => has_keying'
    BY <2>1 DEF IInv
  <2> QED
    BY <2>1, <2>2 DEF IInv, StationsApart, Noted
<1>4. CASE WriteText
  <2>1. /\ UNCHANGED <<clock, has_keying, last_emitted_plain, created_at, late,
                       history>>
        /\ pc = "keyed" /\ pc' = "judge"
        /\ plain_text' \in {plain_text, reading.text}
    BY <1>4 DEF WriteText, Written
  <2>2. StationsApart'
    BY <2>1 DEF IInv, StationsApart, Noted
  <2> QED
    BY <2>1, <2>2 DEF IInv
<1>5. CASE Elapsed
  <2>1. /\ UNCHANGED <<clock, reader, reading, history>>
        /\ pc = "judge" /\ pc' = "verdict"
        /\ late' = (clock - created_at >= BirdieSec)
    BY <1>5 DEF Elapsed
  <2> QED
    BY <2>1 DEF IInv, StationsApart
<1>6. CASE Verdict
  <2>1. /\ UNCHANGED <<clock, reader, reading, heard>> /\ pc = "verdict"
        /\ pc' = IF late /\ ~has_keying THEN "birdie" ELSE "result"
        /\ torn' = (torn /\ late /\ ~has_keying)
    BY <1>6 DEF Verdict, IsBirdie
  <2>2. pc' = "birdie" => torn' \/ (clock - created_at >= BirdieSec /\ ~has_keying)
    BY <2>1 DEF IInv
  <2> QED
    BY <2>1, <2>2 DEF IInv, StationsApart
<1>7. CASE Flush
  <2>1. UNCHANGED <<clock, thread, torn>> /\ pc = "feed" /\ pc' = "flushed"
    BY <1>7 DEF Flush
  <2>2. CASE \E r \in Readings(Audio) : Keyed(r) /\ Written(r) /\ heard' = Heard(r)
    <3>1. PICK r \in Readings(Audio) : Keyed(r) /\ Written(r) /\ heard' = Heard(r)
      BY <2>2
    <3>2. /\ heard' = [texts |-> heard'.texts, stray |-> heard'.stray,
                       marks |-> heard'.marks, since |-> heard'.since]
          /\ heard'.since = heard.since
          /\ heard'.marks = r.marks
          /\ Noted' = Noted \cup {r.text}
      BY <3>1, HeardFacts
    <3>3. /\ plain_text' \in {plain_text, r.text} /\ has_keying' = (r.marks >= 3)
          /\ UNCHANGED <<last_emitted_plain, created_at>>
      BY <3>1 DEF Keyed, Written
    <3>4. StationsApart'
      BY <3>2, <3>3 DEF IInv, StationsApart, Noted
    <3> QED
      BY <2>1, <3>2, <3>3, <3>4 DEF IInv
  <2>3. CASE UNCHANGED <<reader, heard>>
    BY <2>1, <2>3 DEF IInv, StationsApart
  <2> QED
    BY <1>7, <2>2, <2>3 DEF Flush
<1>8. CASE Result
  <2>1. last_emitted_plain' \in {plain_text, last_emitted_plain}
    BY <1>8 DEF Result
  <2>2. /\ UNCHANGED <<clock, plain_text, has_keying, created_at, thread, history>>
        /\ pc = "result" /\ pc' = "feed"
    BY <1>8 DEF Result
  <2>3. StationsApart'
    BY <2>1, <2>2 DEF IInv, StationsApart
  <2> QED
    BY <2>2, <2>3 DEF IInv
<1>9. CASE Tick
  <2>1. /\ clock' = clock + 1
        /\ UNCHANGED <<reader, thread, pc, history>>
    BY <1>9 DEF Tick
  <2>2. StationsApart' /\ Noted' = Noted
    BY <2>1 DEF IInv, StationsApart, Noted
  <2>3. clock' \in Nat
        /\ (clock - created_at >= BirdieSec => clock' - created_at >= BirdieSec)
    BY SMTT(30), <2>1, DecoderAssumption DEF IInv
  <2> QED
    BY <2>1, <2>2, <2>3 DEF IInv
<1>10. ASSUME NEW s \in Stations, Retune(s) \/ RetuneWhileFed(s) PROVE IInv'
  <2>1. /\ ditdah_decoder_reset /\ UNCHANGED <<clock, thread>>
        /\ heard' = HeardSince(clock, InHand)
        /\ torn' = (pc \in {"verdict", "birdie"})
        /\ pc' = pc \/ pc' = "update"
    BY <1>10 DEF Retune, RetuneWhileFed, Tuned
  <2>2. pc' \in {"read", "keyed"} => reading.text \in InHand
    BY <2>1 DEF InHand
  <2>3. pc' \in {"verdict", "birdie"} => torn'
    BY <2>1
  <2> QED
    BY <2>1, <2>2, <2>3, ResetIInv
<1>11. ASSUME NEW s \in Stations, Restart(s) PROVE IInv'
  <2>1. /\ ditdah_decoder_reset /\ UNCHANGED <<clock, thread>> /\ pc' = "feed"
        /\ heard' = HeardSince(clock, {})
    BY <1>11 DEF Restart
  <2> QED
    BY <2>1, ResetIInv
<1>12. CASE UNCHANGED vars
  BY <1>12 DEF vars, IInv, StationsApart, Noted
<1> QED
  BY <1>1, <1>2, <1>3, <1>4, <1>5, <1>6, <1>7, <1>8, <1>9, <1>10, <1>11, <1>12
  DEF Next

LEMMA Inductive == Spec => []IInv
  BY InitIInv, NextIInv, PTL DEF Spec

-------------------------------------------------------------------------------
(* Texts, new letters and spotted words stem from the station in tune,     *)
(* whatever step of the worker a retune falls on or between, but for what  *)
(* the thread had in hand or was feeding then.                             *)
THEOREM TextsOfTheStation == Spec => []StationsApart
<1>1. IInv => StationsApart
  BY DEF IInv
<1> QED
  BY <1>1, Inductive, PTL

(* No worker is given up as a birdie before its time or with keying found, *)
(* unless it was retuned after the look at the time.                       *)
THEOREM BirdiesAreSteady == Spec => []BirdieEarned
<1>1. IInv => BirdieEarned
  BY DEF IInv, BirdieEarned
<1> QED
  BY <1>1, Inductive, PTL

-------------------------------------------------------------------------------
(* What is spotted.  The text is one of characters, and the last accepted  *)
(* word, which lets the same word score higher, earned it without that.    *)
SpotInv ==
    /\ mode \in Modes
    /\ fed \in Nat /\ from \in Nat /\ from <= fed
    /\ plain_text \in Seq(Chars)
    /\ reading.text \in Seq(Chars)
    /\ last_completed_word = <<>> \/ Earned(last_completed_word, mode)
    /\ SpotsAreMessages

LEMMA InitSpots == Init => SpotInv
<1> SUFFICES ASSUME Init PROVE SpotInv
  OBVIOUS
<1>1. /\ mode \in Modes /\ fed = 0 /\ from = 0 /\ plain_text = <<>>
      /\ last_completed_word = <<>> /\ spots = {} /\ reading.text = <<>>
  BY DEF Init, NoReading
<1>2. <<>> \in Seq(Chars)
  OBVIOUS
<1> QED
  BY <1>1, <1>2 DEF SpotInv, SpotsAreMessages

LEMMA AudioType ==
    ASSUME SpotInv PROVE \E T : Audio \in Seq(T)
<1> DEFINE n == fed - from
           s == [i \in 1 .. n |->
                   Signal[keyed[IF from + i <= left THEN former ELSE tuned]][from + i]]
           T == {s[i] : i \in 1 .. n}
<1>1. n \in Nat
  BY DEF SpotInv
<1>2. s \in [1 .. n -> T]
  OBVIOUS
<1>3. s \in Seq(T)
  <2> HIDE DEF n, s, T
  <2> QED
    BY <1>1, <1>2
<1> QED
  BY <1>3 DEF Audio

LEMMA ReadingsType ==
    ASSUME SpotInv, NEW r \in Readings(Audio) PROVE r.text \in Seq(Chars)
<1>1. PICK env \in Envelopes(Audio) : r = Reading(env)
  BY DEF Readings
<1>2. CASE env = Audio
  BY <1>1, <1>2, AudioType, ReadingText
<1>3. CASE env \in NoiseReads
  <2>1. env \in Seq(BOOLEAN)
    BY <1>3, DecoderAssumption
  <2> QED
    BY <1>1, <2>1, ReadingText
<1> QED
  BY <1>2, <1>3 DEF Envelopes

LEMMA SubmitSpots ==
    ASSUME SpotInv, Callsign # <<>>, Submit(Callsign), UNCHANGED mode
    PROVE  /\ last_completed_word' = <<>> \/ Earned(last_completed_word', mode')
           /\ SpotsAreMessages'
<1> DEFINE word == Callsign
<1>1. word \in Words
  BY WordType DEF SpotInv, Callsign
<1>2. mode \in DOMAIN accept_min
  BY DecoderAssumption DEF SpotInv
<1> HIDE DEF word
<1>3. CASE Accepts(word, mode, last_completed_word)
  <2>1. Earned(word, mode)
    <3>1. word # <<>> /\ (last_completed_word = <<>> \/ Earned(last_completed_word, mode))
      BY DEF word, SpotInv
    <3> QED
      BY <1>1, <1>2, <1>3, <3>1, AcceptedIsEarned
  <2>2. /\ last_completed_word' = word
        /\ spots' = spots \cup {[call |-> word, of |-> tuned]}
    BY <1>3 DEF Submit, word
  <2>3. \A s \in spots' : s \in spots \/ s.call = word
    BY <2>2
  <2> QED
    BY <2>1, <2>2, <2>3 DEF SpotInv, SpotsAreMessages, Earned
<1>4. CASE ~Accepts(word, mode, last_completed_word)
  <2>1. UNCHANGED <<last_completed_word, spots>>
    BY <1>4 DEF Submit, word
  <2> QED
    BY <2>1 DEF SpotInv, SpotsAreMessages, Earned
<1> QED
  BY <1>3, <1>4

LEMMA DroppedRange ==
    ASSUME SpotInv
    PROVE  Dropped \in Nat /\ Dropped <= fed + Chunk /\ fed + Chunk \in Nat
<1>1. Chunk \in Nat /\ Half \in Nat /\ Cap \in Nat /\ Cap > Half
  BY DecoderAssumption
<1>2. fed \in Nat /\ from \in Nat /\ from <= fed
  BY DEF SpotInv
<1> QED
  BY <1>1, <1>2 DEF Dropped

LEMMA NextSpots == SpotInv /\ [Next]_vars => SpotInv'
<1> SUFFICES ASSUME SpotInv, [Next]_vars PROVE SpotInv'
  OBVIOUS
<1> USE DEF station, reader, output, thread, buffer, history
<1>1. CASE Feed
  <2>1. /\ fed' = fed + Chunk /\ from' = Dropped
        /\ UNCHANGED <<mode, plain_text, reading, last_completed_word, spots>>
    BY <1>1 DEF Feed
  <2>2. fed' \in Nat /\ from' \in Nat /\ from' <= fed'
    BY <2>1, DroppedRange
  <2> QED
    BY <2>1, <2>2 DEF SpotInv, SpotsAreMessages, Earned
<1>2. CASE Analyse
  <2>1. UNCHANGED <<mode, fed, from, plain_text, last_completed_word, spots>>
    BY <1>2 DEF Analyse
  <2>2. reading'.text \in Seq(Chars)
    <3>1. reading' \in Readings(Audio) \/ reading' = reading
      BY <1>2 DEF Analyse
    <3> QED
      BY <3>1, ReadingsType DEF SpotInv
  <2> QED
    BY <2>1, <2>2 DEF SpotInv, SpotsAreMessages, Earned
<1>6. CASE WriteText
  <2>1. /\ UNCHANGED <<mode, fed, from, last_completed_word, spots>>
        /\ plain_text' \in {plain_text, reading.text}
        /\ reading'.text = <<>>
    BY <1>6 DEF WriteText, Written, NoReading
  <2>2. <<>> \in Seq(Chars)
    OBVIOUS
  <2> QED
    BY <2>1, <2>2 DEF SpotInv, SpotsAreMessages, Earned
<1>7. CASE Flush
  <2>1. UNCHANGED <<mode, fed, from, reading, last_completed_word, spots>>
    BY <1>7 DEF Flush
  <2>2. plain_text' \in Seq(Chars)
    <3>1. plain_text' = plain_text
          \/ \E r \in Readings(Audio) : plain_text' \in {plain_text, r.text}
      BY <1>7 DEF Flush, Written
    <3> QED
      BY <3>1, ReadingsType DEF SpotInv
  <2> QED
    BY <2>1, <2>2 DEF SpotInv, SpotsAreMessages, Earned
<1>3. CASE Result
  <2>1. UNCHANGED <<mode, fed, from, plain_text, reading>>
    BY <1>3 DEF Result
  <2>2. IF Callsign # <<>> THEN Submit(Callsign)
        ELSE UNCHANGED <<last_completed_word, spots>>
    BY <1>3 DEF Result
  <2>3. CASE Callsign # <<>>
    <3>1. /\ last_completed_word' = <<>> \/ Earned(last_completed_word', mode')
          /\ SpotsAreMessages'
      BY <2>1, <2>2, <2>3, SubmitSpots
    <3> QED
      BY <2>1, <3>1 DEF SpotInv
  <2>4. CASE Callsign = <<>>
    BY <2>1, <2>2, <2>4 DEF SpotInv, SpotsAreMessages, Earned
  <2> QED
    BY <2>3, <2>4
<1>4. ASSUME NEW s \in Stations, Retune(s) \/ RetuneWhileFed(s) \/ Restart(s)
      PROVE  SpotInv'
  <2>1. /\ plain_text' = <<>>
        /\ UNCHANGED <<mode, reading, spots>>
        /\ last_completed_word' \in {<<>>, last_completed_word}
    BY <1>4 DEF Retune, RetuneWhileFed, Restart, Tuned, ditdah_decoder_reset
  <2>2. \/ fed' = fed /\ from' = fed
        \/ fed' = fed + Chunk /\ from' \in {Dropped} \cup fed .. fed + Chunk
    BY <1>4 DEF Retune, RetuneWhileFed, Restart, Emptied
  <2>3. fed' \in Nat /\ from' \in Nat /\ from' <= fed'
    <3>1. fed \in Nat /\ Chunk \in Nat
      BY DecoderAssumption DEF SpotInv
    <3> QED
      BY <2>2, <3>1, DroppedRange
  <2>4. <<>> \in Seq(Chars)
    OBVIOUS
  <2> QED
    BY <2>1, <2>3, <2>4 DEF SpotInv, SpotsAreMessages, Earned
<1>5. CASE Tick \/ WriteKeying \/ Elapsed \/ Verdict \/ UNCHANGED vars
  <2>1. UNCHANGED <<mode, fed, from, plain_text, reading, last_completed_word, spots>>
    BY <1>5 DEF Tick, WriteKeying, Elapsed, Verdict, vars
  <2> QED
    BY <2>1 DEF SpotInv, SpotsAreMessages, Earned
<1> QED
  BY <1>1, <1>2, <1>3, <1>4, <1>5, <1>6, <1>7 DEF Next

(* Whatever a window reads and whatever was spotted before, only callsigns *)
(* and keywords are spotted, in the minimal mode also what begins like a   *)
(* callsign, and in the paranoid mode nothing.                             *)
THEOREM OnlyMessagesAreSpotted == Spec => []SpotsAreMessages
<1>1. SpotInv => SpotsAreMessages
  BY DEF SpotInv
<1> QED
  BY <1>1, InitSpots, NextSpots, PTL DEF Spec
===============================================================================
