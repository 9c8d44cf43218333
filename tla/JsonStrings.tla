----------------------------- MODULE JsonStrings -----------------------------
(***************************************************************************)
(* What the strings of JSON and of UTF-8 mean, defined from the encoder of *)
(* UTF-8 and the values of the digits: the reference the scanner and the   *)
(* escaper are checked against.                                            *)
(***************************************************************************)
EXTENDS Integers, Sequences

MaxPoint == 1114111
Highs == 55296..56319
Lows == 56320..57343

Tail6(c) == 128 + (c % 64)
Utf8(c) ==
  IF c < 128 THEN <<c>>
  ELSE IF c < 2048 THEN <<192 + (c \div 64), Tail6(c)>>
  ELSE IF c < 65536 THEN <<224 + (c \div 4096), Tail6(c \div 64), Tail6(c)>>
  ELSE <<240 + (c \div 262144), Tail6(c \div 4096), Tail6(c \div 64),
         Tail6(c)>>

(* A guess at the code point of n bytes, for Utf8 to confirm.              *)
Guess(s) ==
  LET low(i) == s[i] % 64
  IN CASE Len(s) = 1 -> s[1]
       [] Len(s) = 2 -> (s[1] % 32) * 64 + low(2)
       [] Len(s) = 3 -> (s[1] % 16) * 4096 + low(2) * 64 + low(3)
       [] OTHER -> (s[1] % 8) * 262144 + low(2) * 4096 + low(3) * 64 + low(4)

IsSequence(s) == Guess(s) <= MaxPoint /\ Utf8(Guess(s)) = s

Plain(s) == IF IsSequence(s) /\ Guess(s) \notin {0, 34, 92}
              THEN {[point |-> Guess(s), escaped |-> FALSE]}
              ELSE {}

Letters == {<<34, 34>>, <<92, 92>>, <<47, 47>>, <<98, 8>>, <<102, 12>>,
            <<110, 10>>, <<114, 13>>, <<116, 9>>}
LetterEscape(s) ==
  {[point |-> l[2], escaped |-> FALSE] :
     l \in {m \in Letters : s = <<92, m[1]>>}}

Hex == [d \in 48..57 \cup 65..70 \cup 97..102 |->
          IF d <= 57 THEN d - 48 ELSE IF d <= 70 THEN d - 55 ELSE d - 87]
UnicodeEscape(s) ==
  IF Len(s) = 6 /\ s[1] = 92 /\ s[2] = 117 /\ \A i \in 3..6 : s[i] \in DOMAIN Hex
    THEN {[point |-> Hex[s[3]] * 4096 + Hex[s[4]] * 256 + Hex[s[5]] * 16
                       + Hex[s[6]],
           escaped |-> TRUE]}
    ELSE {}

Character(s) == Plain(s) \cup LetterEscape(s) \cup UnicodeEscape(s)

(* What a text means from each place on: its items up to a place in ends,  *)
(* each as long as at says, or up to where there is none.                  *)
Items(at, ends, none) ==
  LET items[i \in DOMAIN at] ==
        IF i \in ends THEN <<>>
        ELSE IF at[i] = {} THEN <<none>>
        ELSE LET t == CHOOSE t \in at[i] : TRUE
             IN <<t.item>> \o items[i + t.length]
  IN items

Slice(s, i, n) == SubSeq(s, i, i + n - 1)
Fitting(s, i, n) == {k \in 1..n : i + k - 1 <= Len(s)}

(* The characters from each byte to the closing quote, or a malformed end. *)
Malformed == [point |-> -1, escaped |-> FALSE]
CharacterAt(text, i) ==
  UNION {{[length |-> n, item |-> c] : c \in Character(Slice(text, i, n))} :
           n \in Fitting(text, i, 6)}
Characters(text) ==
  Items([i \in 1..(Len(text) + 1) |-> CharacterAt(text, i)],
        {i \in 1..Len(text) : text[i] = 34}, Malformed)

(* Two escapes in a row, of a high and of a low surrogate, are one.        *)
Joins(a, b) ==
  a.escaped /\ b.escaped /\ a.point \in Highs /\ b.point \in Lows
Points(chars) ==
  LET points[n \in 0..Len(chars)] ==
        IF n = 0 THEN <<>>
        ELSE IF n > 1 /\ Joins(chars[n - 1], chars[n])
          THEN Append(points[n - 2],
                      65536 + (chars[n - 1].point % 1024) * 1024
                        + (chars[n].point % 1024))
        ELSE Append(points[n - 1], chars[n].point)
  IN points[Len(chars)]

(* The code points of a sequence of bytes, surrogates included.            *)
SequenceAt(s, i) ==
  {[length |-> n, item |-> Guess(Slice(s, i, n))] :
     n \in {k \in Fitting(s, i, 4) : IsSequence(Slice(s, i, k))}}
Decoded(s) ==
  Items([i \in 1..(Len(s) + 1) |-> SequenceAt(s, i)], {Len(s) + 1}, -1)[1]

IsUtf8(s) == LET d == Decoded(s) IN \A i \in DOMAIN d : d[i] >= 0
==============================================================================
