-------------------------- MODULE MCNumberRoundTrip ---------------------------
(***************************************************************************)
(* NumberRoundTrip with 8 bits for 64 and 5 for 32: over all texts of four *)
(* characters of numbers, all integers of three digits, and the literals   *)
(* with a letter replaced or missing, checked against the grammar of       *)
(* numbers of JSON; and over every integer of nine bits and more, dumped   *)
(* and loaded.                                                             *)
(***************************************************************************)
EXTENDS NumberRoundTrip, SequencesExt

Bracket == 93
Characters == {48, 49, 50, 53, 56, 57, 43, 45, 46, 69, 73, 93}

Literals == {Word[w] : w \in DOMAIN Word} \cup {<<Minus>> \o Word["inf"]}
Changed(t) ==
  {[t EXCEPT ![i] = c] : i \in 2..Len(t), c \in {32, 97, 110, 49}}
    \cup {RemoveAt(t, i) : i \in 2..Len(t)}

MCTexts ==
  {t \in BoundedSeq(Characters, 4) :
     t # <<>> /\ t[1] \in Digit \cup {Minus}}
  \cup {s \o t : s \in {<<>>, <<Minus>>}, t \in [1..3 -> Digit]}
  \cup {<<49, 46, 53, 69, Minus, 49>>, <<Minus, 50, 46, 48, 69, 43, 57, 93>>}
  \cup Literals \cup UNION {Changed(t) : t \in Literals}

MCInts == -400..700 \cup {-1280, 1280, 2550, 2559, 2560, 2561, 12800}
==============================================================================
