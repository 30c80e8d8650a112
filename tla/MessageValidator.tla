--------------------------- MODULE MessageValidator ---------------------------
(***************************************************************************)
(* The score that cw_message_validator.c gives a decoded text, and whether *)
(* it accepts the text as a message.  A text is a sequence of characters;  *)
(* scores are in hundredths, so 0.55f is 55.                               *)
(***************************************************************************)
EXTENDS Integers, Sequences, FiniteSets

CONSTANT Keywords       \* k_keywords, of those that the bounded texts can hold

Alpha  == {"A", "B", "C", "D", "E", "F", "G", "H", "I", "J", "K", "L", "M", "N",
           "O", "P", "Q", "R", "S", "T", "U", "V", "W", "X", "Y", "Z"}
Digits == {"0", "1", "2", "3", "4", "5", "6", "7", "8", "9"}
Space  == " "
Unread == "?"           \* what an unknown code is read as
Vowels == {"A", "E", "I", "O", "U", "Y"}

WordChars == Alpha \cup Digits \cup {"/"}

Has(text, S)   == \E i \in DOMAIN text : text[i] \in S
Count(text, S) == Cardinality({i \in DOMAIN text : text[i] \in S})

(* Per validation mode, what is shown brightly and what is accepted. *)
display_min == [minimal |-> 40, normal |-> 55, aggressive |-> 65, paranoid |-> 78]
\* mutant: the row of the next gentler mode is used
accept_minGentler ==
    [minimal |-> 35, normal |-> 35, aggressive |-> 50, paranoid |-> 60]

accept_min  == [minimal |-> 35, normal |-> 50, aggressive |-> 60, paranoid |-> 75]

-------------------------------------------------------------------------------
\* some word of the text, between boundaries, is a keyword
text_contains_keyword(text) ==
    \E i \in DOMAIN text : \E j \in i .. Len(text) :
        /\ SubSeq(text, i, j) \in Keywords
        /\ i = 1 \/ text[i - 1] \notin WordChars
        /\ j = Len(text) \/ text[j + 1] \notin WordChars

\* one or two letters and a digit
itu_prefix_plausible(text) ==
    \E p \in {2, 3} \cap DOMAIN text :
        /\ text[p] \in Digits
        /\ \A i \in 1 .. p - 1 : text[i] \in Alpha

\* no keyword of the table begins like a callsign
ASSUME KeywordsAssumption ==
    \A k \in Keywords : k \in Seq(STRING) /\ k # <<>> /\ ~itu_prefix_plausible(k)

digit_group_count(text) ==
    Cardinality({i \in DOMAIN text :
                    text[i] \in Digits /\ (i = 1 \/ text[i - 1] \notin Digits)})

\* letters behind the last digit, up to a stroke
suffix_letters_after_digit(text) ==
    LET stop == {i \in DOMAIN text :
                    \A j \in 1 .. i : text[j] # "/"}
    IN  Cardinality({i \in stop : /\ text[i] \in Alpha
                                  /\ \E d \in stop : d < i /\ text[d] \in Digits
                                  /\ \A d \in stop : text[d] \in Digits => d < i})

looks_like_callsign(text) ==
    /\ Len(text) \in 3 .. 8
    /\ ~Has(text, {Space, Unread})
    /\ Count(text, Alpha) >= 2 /\ Has(text, Digits)
    /\ itu_prefix_plausible(text)
    /\ digit_group_count(text) = 1
    /\ suffix_letters_after_digit(text) \in 1 .. 3
    /\ suffix_letters_after_digit(text) = 3 => Has(text, Vowels)

\* four times the same character in a row
LongRun(text) ==
    \E i \in 1 .. Len(text) - 3 :
        text[i] # Space /\ \A j \in i + 1 .. i + 3 : text[j] = text[i]

digit_letter_chaos(text) ==
    LET known == SelectSeq(text, LAMBDA c : c \in Alpha \cup Digits)
    IN  Cardinality({i \in 2 .. Len(known) :
                        (known[i] \in Digits) # (known[i - 1] \in Digits)}) >= 5

\* the last word
primary_score_text(text) ==
    LET ends   == {i \in DOMAIN text : text[i] # Space}
        last   == CHOOSE i \in ends : \A j \in ends : j <= i
        starts == {i \in 1 .. last : \A j \in i .. last : text[j] # Space}
        first  == CHOOSE i \in starts : \A j \in starts : i <= j
    IN  IF ends = {} THEN text ELSE SubSeq(text, first, last)

-------------------------------------------------------------------------------
If(condition, points) == IF condition THEN points ELSE 0

Clamp(points) == IF points < 0 THEN 0 ELSE IF points > 100 THEN 100 ELSE points

(* cw_message_validator_score, of a text and its last word *)
Weigh(text, n, keyword, call, digit, primary, prior) ==
    CASE text = <<>>                          -> 0
      [] text # <<>> /\ Has(text, {Unread})      -> 5
      [] text # <<>> /\ ~Has(text, {Unread}) /\ n = 1 -> 22
      [] text # <<>> /\ ~Has(text, {Unread}) /\ n \in 2 .. 4 /\ ~digit /\ ~keyword -> 28
      [] OTHER ->
           Clamp(18 + If(text_contains_keyword(text), 24) + If(keyword, 14)
                    + If(itu_prefix_plausible(primary), 18) + If(call, 24)
                    + If(n \in 3 .. 7 /\ primary[1] \in Alpha, 6)
                    + If(prior # <<>> /\ primary = prior, 12)
                    - If(digit /\ n \in 4 .. 7 /\ ~call /\ ~keyword, 28)
                    - If(suffix_letters_after_digit(primary) > 3, 18)
                    - If(Len(text) > 12, 25)
                    - If(LongRun(primary), 30)
                    - If(digit_letter_chaos(primary), 25)
                    - If(n >= 6 /\ ~keyword /\ ~call, 22))
Points(text, primary, prior) ==
    Weigh(text, Len(primary), text_contains_keyword(primary),
          looks_like_callsign(primary), Has(primary, Digits), primary, prior)
Score(text, prior) == Points(text, primary_score_text(text), prior)

(* cw_message_validator_accepts *)
Accepts(text, mode, prior) == Score(text, prior) >= accept_min[mode]
===============================================================================
