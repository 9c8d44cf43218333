----------------------------- MODULE JsonNumbers -----------------------------
(***************************************************************************)
(* The numbers of JSON, as its grammar defines them, and what NumberScanner*)
(* makes of them.                                                          *)
(***************************************************************************)
EXTENDS NumberScanner

(* The grammar: int frac exp, after a sign.                                *)
AllDigits(s) == s # <<>> /\ \A i \in DOMAIN s : s[i] \in Digit
IsInt(s) == AllDigits(s) /\ (s[1] = 48 => Len(s) = 1)
IsFrac(s) == s = <<>> \/ (s[1] = Point /\ AllDigits(Tail(s)))
IsExp(s) ==
  \/ s = <<>>
  \/ s[1] \in Exponent
       /\ \/ AllDigits(Tail(s))
          \/ /\ Len(s) > 1 /\ s[2] \in {43, 45}
             /\ AllDigits(SubSeq(s, 3, Len(s)))

Unsigned(s) == IF s # <<>> /\ s[1] = Minus THEN Tail(s) ELSE s
IsNumber(s) ==
  LET u == Unsigned(s)
  IN \E i \in 1..Len(u) : \E j \in i..Len(u) :
       /\ IsInt(SubSeq(u, 1, i)) /\ IsFrac(SubSeq(u, i + 1, j))
       /\ IsExp(SubSeq(u, j + 1, Len(u)))

(* The value of the first digits of s, for each number of them.            *)
Naturals(s) ==
  LET value[i \in 0..Len(s)] ==
        IF i = 0 THEN 0 ELSE 10 * value[i - 1] + Value(s[i])
  IN value
Natural(s) == Naturals(s)[Len(s)]

(* What cannot follow a number that ends there.                            *)
InNumber == Digit \cup {Point, Minus, 43} \cup Exponent

(* A number of JSON in the text is read whole, as a double exactly if it   *)
(* has a fraction or an exponent, and as its value if it is an integer, as *)
(* long as nothing that could be more of it follows in the memory.         *)
ReadsJsonNumbers ==
  \A n \in 1..end :
    pc = "done" /\ IsNumber(SubSeq(text, 1, n)) /\ At(n + 1) \notin InNumber =>
      LET number == SubSeq(text, 1, n)
      IN /\ start = n + 1
         /\ event.kind = "double" <=> ~IsInt(Unsigned(number))
         /\ event.kind \in Fixed =>
              event.value = intNeg * Natural(Unsigned(number))

(* What else is taken: zeros in front of an integer and a point without    *)
(* digits on one side, which the tests tolerate (tests/test_ujson.py:1806),*)
(* a minus sign alone, which they see taken in -i (1100), and nothing at   *)
(* all, for a double that begins where the text ends.                      *)
IsTolerated(s) ==
  LET u == Unsigned(s)
      Digits(d) == \A i \in DOMAIN d : d[i] \in Digit
  IN \E i \in 0..Len(u) : \E j \in i..Len(u) :
       LET point == SubSeq(u, i + 1, j)
       IN /\ Digits(SubSeq(u, 1, i))
          /\ point = <<>> \/ (point[1] = Point /\ Digits(Tail(point)))
          /\ IsExp(SubSeq(u, j + 1, Len(u)))
          /\ i = 0 => Len(point) # 1 /\ (point = <<>> => u = <<>>)

(* What was taken.                                                         *)
Before == SubSeq(text, 1, start - 1)

(* Nothing is taken that is neither a literal nor a tolerated number, and  *)
(* a literal only if it is all there.                                      *)
TakesOnlyScalars ==
  pc = "done" => IF event.kind = "word" THEN Unsigned(Before) = Word[event.word]
                 ELSE IsTolerated(Before)
==============================================================================
