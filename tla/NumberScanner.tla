---------------------------- MODULE NumberScanner ----------------------------
(***************************************************************************)
(* The scalars the decoder of UltraJSON reads that are not strings         *)
(* (lib/ultrajsondec.c): decode_numeric and decodeDouble, decode_true,     *)
(* decode_false and decode_null.  A step is one character.  Integers have  *)
(* the width of the code, scaled: 64 bits are 2 * Half values, and the     *)
(* sign bit of a 32-bit integer is IntHalf.                                *)
(*                                                                         *)
(* Only decodeDouble is told where the text given to loads ends.  All else *)
(* goes on until a byte stops it: the null behind a str, bytes or bytearray*)
(* does, but in the memory of a buffer (Decoder) there may be anything     *)
(* behind the text, and the null after that.                               *)
(***************************************************************************)
EXTENDS Integers, Sequences, FiniteSets

CONSTANTS
  Texts,        (* The bytes from where decode_any is to the next null.    *)
  Behind,       (* How many of them may be behind the end of the text.     *)
  Half,         (* 2^63.                                                   *)
  IntHalf       (* 2^31.                                                   *)

Full == 2 * Half
Byte == 0..255

ASSUME WidthAssumption ==
  /\ Half \in Nat \ {0} /\ IntHalf \in Nat \ {0}
  /\ \E k \in 1..Half : Half = k * IntHalf

ASSUME BehindAssumption == Behind \subseteq Nat

VARIABLES
  text,         (* The bytes; a null byte follows.                         *)
  end,          (* ds->end: how many of them belong to the text of loads.  *)
                (* All do for decodeDouble if none does and more is behind:*)
                (* ds->end - ds->start is negative then, a huge size_t.    *)
  start,        (* ds->start.                                              *)
  offset,       (* The character looked at.                                *)
  intNeg,       (* 1, or -1 after a minus sign.                            *)
  intValue,     (* The digits so far, in 64 bits.                          *)
  hasError,     (* They do not fit.                                        *)
  word,         (* The literal looked for.                                 *)
  event,        (* The callback called, with its argument.                 *)
  pc,           (* "value", "integer", "word", "done" or "error".          *)
  exact         (* History: the value of the digits so far.                *)

vars == <<text, end, start, offset, intNeg, intValue, hasError, word, event, pc,
          exact>>
digits == <<intValue, hasError, exact>>

At(i) == IF i <= Len(text) THEN text[i] ELSE 0
Oct == At(offset)

(* What decodeDouble is shown.                                             *)
Seen(i) == IF i <= end THEN At(i) ELSE 0

Digit == 48..57
Minus == 45
Point == 46
Exponent == {69, 101}                                 \* E e

Word == [true |-> <<116, 114, 117, 101>>,
         false |-> <<102, 97, 108, 115, 101>>,
         null |-> <<110, 117, 108, 108>>,
         nan |-> <<78, 97, 78>>,
         inf |-> <<73, 110, 102, 105, 110, 105, 116, 121>>]
Initial(w) == Word[w][1]

(* decode_any looked at the first character.                               *)
ASSUME TextsAssumption ==
  \A t \in Texts : /\ t \in Seq(Byte) /\ t # <<>>
                   /\ \/ t[1] \in Digit \cup {Minus}
                      \/ \E w \in DOMAIN Word : t[1] = Initial(w)

Begin ==
  /\ start = 1 /\ offset = 1 /\ intNeg = 1
  /\ intValue = 0 /\ hasError = FALSE /\ exact = 0
  /\ word = "none" /\ event = [kind |-> "none"] /\ pc = "value"

Init ==
  /\ text \in Texts
  /\ \E n \in Behind : n <= Len(text) /\ end = Len(text) - n
  /\ Begin

(***************************************************************************)
(* The first character, and the sign.                                      *)
(***************************************************************************)
BeginInteger ==
  /\ pc = "value" /\ Oct \in Digit
  /\ pc' = "integer"
  /\ UNCHANGED <<text, end, start, offset, intNeg, word, event, digits>>

BeginNegative ==
  /\ pc = "value" /\ Oct = Minus
  /\ intNeg' = -1 /\ offset' = offset + 1
  /\ IF At(offset + 1) = Initial("inf")
       THEN pc' = "word" /\ word' = "inf"
       ELSE pc' = "integer" /\ UNCHANGED word
  /\ UNCHANGED <<text, end, start, event, digits>>

BeginWord ==
  /\ pc = "value"
  /\ \E w \in DOMAIN Word : Oct = Initial(w) /\ word' = w
  /\ pc' = "word"
  /\ UNCHANGED <<text, end, start, offset, intNeg, event, digits>>

(***************************************************************************)
(* The integer part.                                                       *)
(***************************************************************************)
MaxUnsigned == Full - 1
MaxIntValue == IF intNeg = -1 THEN Half ELSE MaxUnsigned
OverflowLimit == MaxIntValue \div 10

Value(c) == c - 48
Times10 == (10 * intValue) % Full
OverflowsInTimes == intValue > OverflowLimit
OverflowsNoTimes(c) == (MaxIntValue - Times10) % Full < Value(c)
Overflows(c) ==
  \/ OverflowsInTimes
  \/ (MaxIntValue - Times10) % Full < Value(c)
Sum == (Times10 + Value(Oct)) % Full

ReadDigit ==
  /\ pc = "integer" /\ Oct \in Digit
  /\ intValue' = Sum
  /\ hasError' = (hasError \/ Overflows(Oct))
  /\ exact' = 10 * exact + Value(Oct)
  /\ offset' = offset + 1
  /\ UNCHANGED <<text, end, start, intNeg, word, event, pc>>

Call(e, next) ==
  /\ event' = e /\ start' = next /\ pc' = "done"
  /\ UNCHANGED <<text, end, offset, intNeg, word, digits>>

EndsInteger == pc = "integer" /\ Oct \notin Digit \cup {Point} \cup Exponent

(* The digits go to Python as they are, with the sign.                     *)
NewIntegerFromString ==
  /\ EndsInteger /\ hasError
  /\ Call([kind |-> "string", from |-> start, to |-> offset - 1], offset)

(* A product with intNeg is taken in 64 bits and cast to a signed type.    *)
Signed(n, half) == IF n % (2 * half) < half THEN n % (2 * half)
                   ELSE (n % (2 * half)) - 2 * half
Product == (intValue * intNeg) % Full

IsUnsignedAny == intValue >= Half
IsUnsigned == intNeg = 1 /\ intValue >= Half
IsLongLate == intValue > IntHalf
IsLong == intValue >= IntHalf

NewUnsignedLong ==
  /\ EndsInteger /\ ~hasError /\ IsUnsigned
  /\ Call([kind |-> "unsigned", value |-> intValue], offset)

NewLong ==
  /\ EndsInteger /\ ~hasError /\ ~IsUnsigned /\ IsLong
  /\ Call([kind |-> "long", value |-> Signed(Product, Half)], offset)

NewInt ==
  /\ EndsInteger /\ ~hasError /\ ~IsUnsigned /\ ~IsLong
  /\ Call([kind |-> "int", value |-> Signed(Product, IntHalf)], offset)

(***************************************************************************)
(* Doubles.  StringToIeee, which allows trailing junk, reads the number    *)
(* anew from its sign and tells how far it came: past digits, a point with *)
(* or without digits after it, and an exponent if that has digits.  Without*)
(* any digit before the exponent it comes nowhere, for a value of 0.0.  It *)
(* sees no byte behind the text.                                           *)
(***************************************************************************)
PastDigits(i) ==
  i + Cardinality({j \in i..end : \A k \in i..j : Seen(k) \in Digit})

PastSign(i) == IF At(i) = Minus THEN i + 1 ELSE i
PastPoint(i) == IF Seen(i) = Point THEN PastDigits(i + 1) ELSE i
PastExponentPlus(i) == IF Seen(i) = 43 THEN i + 1 ELSE i
PastExponentSign(i) == IF Seen(i) \in {43, 45} THEN i + 1 ELSE i
PastExponentAny(i) ==
  IF Seen(i) \in Exponent THEN PastDigits(PastExponentSign(i + 1)) ELSE i
PastExponent(i) ==
  IF Seen(i) \in Exponent /\ Seen(PastExponentSign(i + 1)) \in Digit
    THEN PastDigits(PastExponentSign(i + 1))
    ELSE i

HasDigit(i) == Seen(i) \in Digit \/ (Seen(i) = Point /\ Seen(i + 1) \in Digit)
PastDouble(i) ==
  IF HasDigit(PastSign(i))
    THEN PastExponent(PastPoint(PastDigits(PastSign(i))))
    ELSE i

(* The overflow of the digits before does not matter.                      *)
NewDouble ==
  /\ pc = "integer" /\ Oct \in {Point} \cup Exponent
  /\ Call([kind |-> "double", from |-> start, to |-> PastDouble(start) - 1],
          PastDouble(start))

(***************************************************************************)
(* Literals, letter by letter from the second.                             *)
(***************************************************************************)
Letter == (offset - PastSign(start)) + 1

ReadLetter ==
  /\ pc = "word"
  /\ Oct = Word[word][Letter] /\ Letter < Len(Word[word])
  /\ offset' = offset + 1
  /\ UNCHANGED <<text, end, start, intNeg, word, event, pc, digits>>

LastLetter ==
  /\ pc = "word"
  /\ Oct = Word[word][Letter] /\ Letter = Len(Word[word])
  /\ Call([kind |-> "word", word |-> word, sign |-> intNeg], offset + 1)

BadLetter ==
  /\ pc = "word"
  /\ Oct # Word[word][Letter]
  /\ pc' = "error"
  /\ UNCHANGED <<text, end, start, offset, intNeg, word, event, digits>>

Stopped == pc \in {"done", "error"} /\ UNCHANGED vars

Next ==
  \/ BeginInteger \/ BeginNegative \/ BeginWord
  \/ ReadDigit \/ NewIntegerFromString \/ NewUnsignedLong \/ NewLong \/ NewInt
  \/ NewDouble
  \/ ReadLetter \/ LastLetter \/ BadLetter
  \/ Stopped

Spec == Init /\ [][Next]_vars

(***************************************************************************)
(*                              Properties                                 *)
(***************************************************************************)
Fixed == {"int", "long", "unsigned"}

(* Every variable has its type: an integer of 64 bits stays one.           *)
TypeOK ==
  /\ text \in Seq(Byte) /\ end \in 0..Len(text)
  /\ start \in Nat \ {0} /\ offset \in Nat \ {0} /\ intNeg \in {1, -1}
  /\ intValue \in 0..(Full - 1) /\ hasError \in BOOLEAN /\ exact \in Nat
  /\ word \in DOMAIN Word \cup {"none"}
  /\ event.kind \in {"none", "string", "double", "word"} \cup Fixed
  /\ pc \in {"value", "integer", "word", "done", "error"}

(* Overflow is noticed at the digit at which it happens, for both signs,   *)
(* and only then; without it the 64 bits hold the number.                  *)
NoticesOverflow ==
  /\ hasError <=> exact > MaxIntValue
  /\ ~hasError => intValue = exact

(* Python gets the number that was read, through the callback whose type   *)
(* holds it, and as text only if none does.                                *)
ReportsItsNumber ==
  /\ event.kind \in Fixed => event.value = intNeg * exact
  /\ event.kind = "string" =>
       intNeg * exact < -Half \/ intNeg * exact >= Full

(* No byte after the next null is looked at.                               *)
StopsAtNull == offset <= Len(text) + 1
==============================================================================
